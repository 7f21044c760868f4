# A verification project for the NPChain staking service

The service (Python, FastAPI, SQLAlchemy, PostgreSQL) keeps the off-chain ledger
of who has staked what on the NPChain L1.  It reads every block of L1, credits
deposits and rewards, lets stakers ask for their stake back through signed HTTP
calls, and pays refunds from the escrow account with a hot key.  This directory
holds TLA+ models of its state machines, TLC configurations that check them on
small instances, and TLAPS proofs.

Paths are relative to the repository root, so `src/src/api/write.py` is the module
the service imports as `src.api.write`.

## 1. Inventory

| Part | Source | State | Operations |
| --- | --- | --- | --- |
| Database schema and sessions | `src/src/db/` | tables `stakers`, `stake_events`, `validator_rewards`, `reward_pool_inflows`, `unstake_requests`, `pending_payouts`, `watcher_state` | `session_scope` (commit or roll back), `get_session` |
| Ledger | `src/src/staking/ledger.py`, `tiers.py` | the first four tables | `apply_block_transactions`, `_record_event`, `_credit_validator_rewards_pool` |
| Chain watcher | `src/src/chain/watcher.py` | `watcher_state.last_processed_height`, its position in the range of blocks | `_tick`, every poll interval |
| Snapshot command | `src/src/chain/snapshot.py` | the same row, `snapshot_complete` | `run_snapshot`, launched by an operator, resumable |
| Unstake processor | `src/src/signing/unstake_processor.py` | `unstake_requests`, `pending_payouts` | `process_unlocked_unstakes`, in the watcher's block transaction |
| Write API | `src/src/api/write.py` | what a handler has read | `request_unstake`, `cancel_unstake`, `claim_rewards` |
| Payout queue | `src/src/signing/queue.py` | `pending_payouts` | `enqueue_payout`, `NullSigner` |
| Signer runner | `src/src/signing/runner.py` | status and attempts of payouts, the batch in memory | `_claim_batch`, `_process_one` |
| Hot key signer | `src/src/signing/hot_key_signer.py` | none of its own | `_next_nonce`, `sign_and_submit` |
| Chain RPC client | `src/src/chain/client.py` | none | `_get`, `submit_tx` with retries |
| Request authentication | `src/src/staking/auth.py` | a nonce cache in memory | `verify_signed_request` |
| Address migrations | `src/src/migrations.py` | a constant table | `canonicalize` |
| Read API | `src/src/api/stake.py`, `validators.py` | none | queries, one of them in two parts |
| Pool key custody | `src/src/signing/pool_key.py` | the cached key | `load` |
| Lifecycle | `src/src/main.py`, `config.py`, the systemd unit in `src/deploy/` | the process, its settings, its tasks | `lifespan`, restart on failure |

**How they interact.**  One uvicorn worker runs the HTTP handlers, the watcher and
the runner as tasks of one event loop; every `await` is a point where another task
may run.  The snapshot command is a second process.  They share nothing but the
database (READ COMMITTED, no explicit locks except in `_claim_batch`) and L1.  The
watcher hands refunds to the runner through `pending_payouts`; the runner's
transfers come back to the watcher as blocks.

**What is hard.**

* Rows are read into Python objects and written back as absolute values, after
  awaits in which another task may have committed.
* Two readers of the chain may apply the same block at the same time.  Only unique
  constraints keep them apart, and the handling of their violation rolls back the
  whole session and goes on with the loop.
* Failures and restarts anywhere: between blocks, between a claim and its
  processing, between L1's acceptance of a transfer and the write of its row.
* Answers of L1 that get lost, and retries of what was already done.
* Things that must happen in the end although only a *new* block triggers them.
* A refund comes back as a block that its own service has to interpret.
* State that lives only in memory (nonces, key, settings) beside clocks, files and
  restarts that go their own way.

`PROJECT.json` lists the hazards at their lines, with the properties that cover them.

**What makes each part correct.**  Ledger, watcher and snapshot: the tables are
those of one sequential replay of the chain, whatever runs concurrently; no block
is skipped or applied twice; every reward unit booked is accounted for; every block is
applied in the end.  Unstake processor and write API: one refund per request, the
right one, after the cooldown, in the end; nobody unstakes more than was staked.
Queue and runner: a payout is in one pair of hands, is paid once, ends in a final
status, and a final status means what it says.  The round trip: what leaves the
escrow was asked for, and the ledger books it once.  Authentication: a signed request
is served once.  Key custody and lifecycle: the service signs with the key of the pool
it was configured for, and comes back by itself.

## 2. Modules

| Module | Models |
| --- | --- |
| `StakeDb` | committed tables, the chain, pure functions (`canonicalize`, `tier_for`, the cases of `_apply_single_tx`, the shares of a reward) |
| `BlockIngest` | watcher and snapshot loops, block transactions, unstake processor |
| `WriteApi` | the three signed endpoints |
| `StakeLedger` | the composition of both over one database, its fairness and its properties |
| `LedgerReplay` | abstract specification: a sequential replay of the chain |
| `StakingService` | `StakeLedger` with an L1 that mines the queued refunds, and a reader of the statistics endpoint |
| `PayoutSigner` | payout queue, runner, signer, RPC client, L1's nonces |
| `Payouts` | abstract specification: what the payout queue promises |
| `Auth` | `verify_signed_request` over a clock |
| `ServiceProcess` | the process with its key, settings, nonces and restarts; extends `Auth` |
| `MCStakeLedger`, `MCStakingService`, `MCPayoutSigner`, `MCServiceProcess` | values for the constants |
| `StakeLedgerProofs`, `IngestProofs`, `RefundProofs`, `RewardProofs`, `StakeProofs`, `ServiceProofs`, `PayoutSignerProofs`, `ServiceProcessProofs` | theorems |

Operators named `X_Something` and marked MUTANT are plausible mistakes in `X`.  No
specification uses them; each is a substitute for `X` that makes one property fail,
which shows that the property depends on that piece of code.

### Sessions (`BlockIngest`)

A block's transaction is not one step.  `txn[p]` holds what the session of ingester
`p` has written and not committed, column by column (`Clean` where it has written
nothing).  `AmountSeen`, `TierSeen`, `RewardSeen` are reads: committed rows of the
moment, overlaid by the session's own writes.  This is what SQLAlchemy gives over
READ COMMITTED: an object without changes is refreshed by a query, a changed column
keeps its value in memory and is written as an absolute value.  A column whose new
value equals the one seen is not written at all.

* `ReadTip`, `WatcherTick`, `SnapshotStart`, `SnapshotRefresh`, `SnapshotComplete`
  are the control of `_tick` and `run_snapshot`.  The tip is asked for *before* the
  state row is read, so these are two steps.  Batches of the snapshot have no effect
  beyond logging and are not modelled; blocks commit one by one in the code too.
* `IgnoreTx`, `RecordEvent`, `DuplicateEvent`, `CreditRewards` are one transaction of
  a block each.  `DuplicateEvent` is `_record_event`'s `except IntegrityError`: it
  empties `txn[p]`, and the loop continues.  Inserting a key that another open
  transaction has inserted blocks in PostgreSQL, so `Insertable` waits for it.
* `UnlockUnstakes` is the query of `process_unlocked_unstakes`; its writes go with the
  commit, so a handler may cancel a request in between.
* `CommitBlock` makes everything visible at once with `last_processed_height`;
  `IntegrityAbort` is the uncaught violation of `reward_pool_inflows.block_height`;
  `Fail` is any other exception, crash or restart.

Flushes before the commit take row locks.  These only remove interleavings from the
ones modelled, never add one.

### Handlers (`WriteApi`)

Each endpoint is a chain of reads and one commit; `hand[k]` is what handler `k` has
read.  `StakerUpdate` writes the columns that differ from those loaded.  Refused
requests change nothing and are not steps.  `claim_rewards` ends in `ClaimRefused`:
`enqueue_payout` raises for its kind (see the findings).  The signature check is
assumed to succeed; it is the subject of `Auth`.

### Address migrations (`StakeDb`)

`ADDRESS_MIGRATIONS` is a sequence, because the prefix search takes the first entry in
the order of the table; an address matched as a whole comes first.  Which address
starts with which text is the relation `StartsWith`.  Some targets of the real table
are only the beginning of an address: they are `Truncated`, rows of the ledger that no
account owns.

### The round trip (`StakingService`)

The composition replaces "L1 may mine any block" by two actions: a block of users'
transactions, and `MineRefund`, the transfer `HotKeySigner` builds for a payout of the
queue, mined once per payout.  That is what `Payouts` promises as long as no answer of
L1 is lost; paying twice is the business of `PayoutSigner`.  `ReadStats` is
`GET /rewards-pool/stats`: two queries and between them any step of the system.

### Process and authentication (`ServiceProcess`, `Auth`)

`Verify` is one step, because `verify_signed_request` has no await.  It reads the clock
twice: `int(time.time())` for the window and the entry of the cache, `time.time()` in
the purge; `lag` and `frac` are the seconds and the fraction in between.  The order of
the checks is kept: a timestamp out of the window changes nothing, a used nonce only
purges, and a request that fails its signature has used its nonce up.  `served` is
history.

`Boot` reads the settings, calls `pool_key.load` through `HotKeySigner()` and is up or
has failed; `Leave` loses the memory; `EditConfig` and `ReplaceKeyfile` are the
operator's.  `Restarts` is `Restart=on-failure` of the systemd unit.

### Payouts (`PayoutSigner`)

A payout is its row `[status, attempts]`; `run[r]` is what a runner remembers: the
claimed batch, the payout it works on, the nonce.  `ClaimBatch` is one step because
`_claim_batch` selects `FOR UPDATE SKIP LOCKED` and commits.  `LoadPayout`,
`FetchNonce`/`NullSign`, `Submit` and the write of the row are separate, because each
is followed by I/O.  `SubmitLost` is an accepted submission whose answer is lost;
`RpcFails` a call L1 never saw; `Restart` the loss of everything in memory.

L1 is **external** here, modelled from how the code uses it: `_next_nonce` is the
account's mined nonce plus one, and L1 accepts a transaction with the next nonce
unless it already has one with that nonce, else it answers with an `error`, which
`sign_and_submit` raises for.  If L1 replaced a pending transaction of the same
nonce, or took nonces with gaps, the properties about payments would have to be
checked again.

### Abstract specification of the queue (`Payouts`)

Rows are open, SUBMITTED or FAILED; L1 may execute a transfer of an open payout as long
as no answer has confirmed one, under a nonce of its own; a row is closed as SUBMITTED
exactly if an answer has confirmed it.  Runners, batches, attempts, SIGNING, nonce
queries and restarts are gone.  `QueueKeepsPromise` says that `PayoutSigner`
implements it: rows that are QUEUED or SIGNING are open, `accepted` are the transfers,
`lost` those nobody heard of.

### Abstract specification of the ledger (`LedgerReplay`)

`ReplaySpec` has the four ledger tables only.  Its one action applies the next block
that has an effect at all, as a whole: `After` is the ledger after each transaction of
a block, a recursive function over their positions.  `LedgerIsReplay` says that the
concurrent, failing, restarting system implements it.  Both specifications are about
the same tables, so `StakeLedger` extends `LedgerReplay` and the refinement mapping is
the identity; every other variable is hidden.

## 3. Runs

All runs pass or fail as `PROJECT.json` says.  Checked ones:

| Run | What it shows | Instance |
| --- | --- | --- |
| `ingest` | `BlockAtomic`, `NoBlockSkipped`, `RewardsConserved`, `TierCacheFresh`, `LedgerIsReplay`: concurrent readers, rollbacks and one failure at any point are invisible in the ledger | watcher, two snapshots that may be launched twice, 3 blocks of 2 kinds, no API |
| `api` | `TypeOK`, `NoRefundClash`, `ReadyHasRefund`, `RefundAfterCooldown`: refunds are right whatever handlers do | 2 handlers, 3 calls, watcher, 1 snapshot, 4 blocks, a cooldown of 2 |
| `locked` | `StakeWithinEvents`, `TierCacheFresh`, `UnstakesBacked` hold when the writers of one staker take turns | `LockedSpec`: 2 handlers, 3 calls of 2 amounts, watcher, a snapshot that may be rerun, 2 blocks (two deposits around an inflow, a refund), a cooldown of 1 |
| `service` | `StatsAccounted`, `WithdrawalsAreRefunds`, and under fairness `WatcherCatchesUp`, `RefundEventuallyQueued`: the round trip of a stake | 1 handler, 1 call, watcher, 1 snapshot that may be run again beside it, 1 failure, 3 blocks (deposit with inflow, empty, refund), 1 call of the statistics |
| `signer` | `TypeOK`, `ClaimExclusive`, `PaidTwiceOnlyIfLost`, `SubmittedWasAccepted`, `FinalStaysFinal`, `QueueKeepsPromise`, and under fairness `EventuallyProcessed` | 2 runners, 3 payouts, batch 2, 2 attempts, 1 fault, 1 lost answer, 1 restart |
| `process` | `TypeOK`, `ServedTwiceOnlyIfAhead`, `KeyFitsSettings`, and under fairness `RecoversOnceKeyIsRight` | 4 requests, 6 seconds with a window of 2 and a grace of 1, 3 starts, 3 configurations, 3 keyfiles or none |

**Bounds.**  `MaxHeight`, `MaxLaunches`, `MaxFails`, `MaxRequests` and `MaxPayouts`,
`MaxFaults`, `MaxLost`, `MaxRestarts`, `MaxReads`, `MaxTime`, `MaxLag`, `MaxBoots`
are the only bounds; every one is a guard of an
action and none is needed by a proof.  Three blocks let a snapshot finish, the watcher
follow and a second snapshot set `last_processed_height` back meanwhile.  The blocks
of `IngestBlocks` contain a deposit from an address migrated by full match, a legacy
stake from one migrated by prefix to a truncated target, a refund
larger than the stake, two inflows in one block, an inflow that divides with a
remainder, and a transaction without a hash; the same block may occur at several
heights.  Tier thresholds are scaled to 2, 4, 6, 8 so that these blocks cross them.
Two handlers and two runners are the smallest numbers that race, and the theorems
cover every number.  `Cooldown` is 1 or 2, so that it ends within the chain, or 9, so that
it does not; with 2 there is a block between a request and its unlock height.  In
`service` three blocks are deposit, end of the cooldown and refund, the shortest chain
on which a refund comes home.  Window and grace of `process` are scaled from 300 and 60
seconds to 2 and 1: what counts is that a timestamp may lie further ahead than the
grace, and that the clock passes the point where a nonce is forgotten.

`locked` runs `LockedSpec`: `StakeLedger` restricted to steps into states where
`RowsApart` holds, so that no two open transactions hold rows of one staker if one of
them is a handler's that unstakes or cancels.  That is what `SELECT ... FOR UPDATE` in
the handlers would give.  **Nothing in the code ensures it**: `double_unstake` shows
`UnstakesBacked` fail without it, and so do the other two (see below).  `locked`
delimits where the three hold.  Calls still overlap each other, and blocks, in every
other row; ingesters overlap in any row.  `StakeWithinEvents` is a pair of bounds and not an
equation, because a refund is debited twice, by its request and by its event
(`double_debit`): up to the first refund the bounds meet.

`RewardsConserved`, `StatsAccounted` and the statistics endpoint are about inflows that
were *booked*: `BookedOnce` says which ones are, the first of each block, and
`second_inflow` shows that this is not all L1 paid.

`RefundEventuallyQueued` asks for more than fairness: that no snapshot command is at work
from the moment the request waits for its block.  Otherwise it fails, which is `rerun`.
The state where a second snapshot works beside the watcher is reached in all runs with
two launches, and `WatcherCatchesUp` holds there.

**Fairness.**  Weak fairness of each watcher, snapshot and handler task and of each
runner: the event loop runs ready tasks, a database statement returns, and the loops
catch every exception and sleep for a bounded time.  Failures stay possible at any
step (up to the bound).  Nothing is assumed of L1 (it may stop producing blocks), of
users, or of the operator.  A snapshot may never be launched: `WatcherCatchesUp` starts
from `snapshot_complete`.  `EventuallyProcessed` is about runners that stay up; with
a restart a payout may be stuck (see below).  In `process` only systemd
is fair (`Restart=on-failure`, and `RestartSec=10` stays below its start limit).
`RecoversOnceKeyIsRight` asks for one start that is left below `MaxBoots`; with three
starts that is met after a failed start, after two of them, and after a crash.

**Deadlock** is checked in all runs of `StakeLedger` and `StakingService`, since the
watcher polls for ever.  The runner really waits when there is nothing to do, so the runs of
`PayoutSigner` turn the check off, as does `process`, whose clock and starts run out.

### Findings: where the code does not do what it says

Each is a run that TLC must find violated.

| Run | Doc or comment | What happens |
| --- | --- | --- |
| `double_unstake` | `src/src/api/schemas.py:47` "Confirms staker has at least `amount` staked" | two concurrent calls read the same stake, both pass the check, both requests are created |
| `second_inflow` | `src/src/db/models.py:202` "Per-block ledger of how much L1 paid into NPCREWARDSWALLET.", `:206` "matches what L1 paid in" | of two pool transfers in a block the second is dropped: not booked, not credited, not dust |
| `rerun` | `src/src/signing/unstake_processor.py:6` "every block, check for unlocks" | a snapshot command run again takes the block that ends a cooldown, and the request stays PENDING until L1 produces another block for the watcher |
| `double_debit` | `src/src/db/models.py:76` "If staker.staked_amount ever diverges from sum of events, we have a bug to find." | `request_unstake` reduces the stake, and the ledger reduces it again when the refund is mined; nothing else has to happen |
| `cancel_ready` | `src/src/api/schemas.py:57` "cancels a pending unstake request before unlock_height" | a READY request can be cancelled; the stake comes back and the refund stays queued |
| `pay_twice` | `src/src/db/models.py:149` "the unique constraint prevents duplicate payouts" | an accepted transfer whose answer is lost is queued again and paid with the next nonce |

Seen while modelling, without a run:

* A call and a block that overlap on one staker's row overwrite each other's
  `staked_amount`: `StakeWithinEvents` fails under `Spec` with `BusyBlocks`, one handler
  and one call, although `models.py:76` says that a stake never diverges from its events.
  The same column-granular writes can leave `tier` stale against `staked_amount`
  (`TierCacheFresh`, the same with an amount of 1), although `models.py:52` calls it derived.
* `claim_rewards` never succeeds: `enqueue_payout` raises for every kind but
  `UNSTAKE_REFUND`, although `write.py:184` says that the claim zeroes the rewards and
  inserts a payout.  In the model every claim ends in `ClaimRefused`.
* After a restart, claimed rows stay in SIGNING and are never claimed again
  (`_claim_batch` commits the claim and asks for QUEUED rows only), although
  `models.py:144` says of SIGNING that a signer "is building/signing the tx".
* `auth.py:46` drops nonces because "they can't be replayed"; that is so only for
  requests stamped less than the grace ahead of the server's clock, and within one
  process (`ServedTwiceOnlyIfAhead` is exact).
* The migration table of `migrations.py` has four targets that are only the beginning
  of an address.  Deposits of the old addresses are credited to rows nobody can sign
  for, beside the rows of the owners' full addresses.
* A payout that meets `NullSigner` five times stays QUEUED but is never claimed again,
  although `runner.py:113` returns it "so a real signer can pick up later".
* Retries have no backoff, so attempts run out while an earlier transfer of the pool
  still holds the nonce.
* Nothing moves a payout from SUBMITTED to the CONFIRMED of `models.py:146`.
* `unstake_processor.py`'s "next tick will retry queueing" cannot happen, since the
  query asks for PENDING rows (the branch itself is never entered, see
  `RefundsNeverClash`).
* `KEYFILE_PATH` lies under `/home`, which the systemd unit hides (`ProtectHome=true`).
* `stake_address` and `pool_address` are two settings that must agree; the models have
  one escrow.

## 4. Proofs

Every safety property that a passing run checks is a theorem.
All theorems hold for every value of the constants, under the named assumptions of
the modules: `canonicalize` gives an address of the ledger, there are finitely many of
them, thresholds, amounts and the cooldown are naturals, blocks
are sequences of transactions, the watcher is not a snapshot, `MAX_ATTEMPTS` and
`BATCH_SIZE` are positive.  Nothing is assumed of the number of ingesters, handlers
or runners.  `StakingService` assumes that users sign with current addresses and
that nobody but the service spends the escrow.

**`StakeLedgerProofs`** proves `TypeCorrect`.  `TypeOK` is not inductive:
`BlockOf(p)` must be a block of the chain, a handler subtracts an amount it checked
earlier, and cancels a request by an id it has read.  `LocalOK` says so: an ingester
that applies a block is at a height of the chain, what the watcher is about to make
READY are existing requests, `arg <= amount` until an unstake commits, and a
cancellation's request exists.  `TypeInv == TypeOK /\ LocalOK` is what the other two
modules rest on.

**`IngestProofs`** proves `BlocksAreAtomic` and `NothingSkipped` from `IngestInv`.
Its core is `SessionOK`, about a session half way through block `h`: what it has
written are keys of block `h`; every earlier transaction of the block is either among
its writes or in a block that is already recorded; and all blocks below `h` are
recorded.  The rollback in `_record_event` is safe because a duplicate key proves,
by atomicity so far, that the *whole* block was committed by another reader, so
dropping this session's rows loses nothing, and nothing new of this block can be
inserted afterwards.  `NoBlockSkipped` needs atomicity (a recorded key stands for a
recorded block) and atomicity needs the session part, so the three are proved
together.

**`RefundProofs`** proves `RefundsNeverClash`, `OneRefundEach` and
`CooldownRespected` from `RefundInv`: no request the watcher is about to make READY
has a payout; payouts belong to existing requests that are no longer PENDING; and
what was selected for unlocking has reached its `unlock_height`.  A cancellation in
between changes none of that, since neither address, amount nor unlock height of a
request ever changes.  There is only one watcher; with two the clash could occur.

**`RewardProofs`** proves `RewardsAddUp` (`RewardsConserved`).  The first part is about
sums: `Total` counts units, so that sums over disjoint domains add up, and that
`amount` bounds the sum of the shares (`SharesBounded`) goes by induction over a finite
set.  `SubsetInduction` takes a set of subsets instead of a predicate and is proved by a
minimal counterexample (`WFMin`), which the provers can use where they cannot use the
library's induction theorems.  The second part is `RewardInv`: a session has at most
one inflow, of its own block, with dust between 0 and the amount, and unless that
inflow is in the ledger by now, the rewards the session *would* commit balance it
against those in the ledger *now*.  That survives the commit of another session,
because one that commits an inflow commits the inflow of the same block
(`OneInflowOpen`), after which this session can only abort.  The third part is `BookInv`:
what is booked for a block, or about to be, is the amount of its first pool transfer,
because a session that comes to a second one finds its own row of the first
(`FirstOnly`); and no block is booked twice.

**`StakeProofs`** is about amounts and tiers.
* `SoleWriter`: a session that commits events finds all other sessions without any.
  One at the same block would hold some of its rows, and two sessions never hold the
  same row (`Apart`); one at a lower block finds it recorded; none is higher, since
  blocks below a session's block are recorded.  So no ingester overwrites another's
  amounts.
* `TiersFresh` and `IngestersKeepTiers` (`TierCacheFresh`, for `LockedSpec` and without
  calls).  `TiersOK` says of every session that the tier it reads is the one of the
  amount it reads, which relates columns that are written separately; `HandFresh` that
  what a handler has read is still so, the fact that `RowsApart` protects and the races
  break.
* `StakesWithinEvents` and `UnstakesAreBacked` (`StakeWithinEvents`, `UnstakesBacked`),
  for `LockedSpec`: deposits, refunds, calls, failures and reruns in any order.
  `AccountInv` gives for every session the bounds of the property, over the stake it
  reads and the events it holds (`SessionSums`), beside those of the committed tables
  (`LedgerSums`); it says too that a session's events come from transactions it has
  passed (so that the next one is new), and that no request is CANCELLED which a handler
  is about to cancel or a watcher to make READY.  The lower bound survives the clamp at
  zero of a refund, the upper one the stake a session reads before a call elsewhere.
* `IngestersReplay` (`LedgerIsReplay`, without calls): the refinement of `LedgerReplay`.
  `Seen(p)` is the ledger as session `p` reads it, committed rows overlaid by its own.
  `FoldInv` says that a session at transaction `i` of a block that is not in the ledger
  reads exactly `After(...)[i - 1]`.  Each transaction then is one application of
  `AfterTx` (`RecordFolds`, `CreditFolds`, `IgnoreFolds`), a duplicate shows that the
  block is in the ledger, a commit of a block that is not is a step of the replay, and
  one of a block that is changes nothing.  A commit moves the ledger under the feet of
  other sessions, but those are then all at recorded blocks (`OthersRecorded`).  What
  `After` computes is `AfterFolds`, again by a minimal counterexample.

**`ServiceProofs`** proves `ServiceIsLedger`, that `StakingService` implements
`StakeLedger`, so that every theorem above holds for the round trip; the step is that a
queued refund is a block L1 may produce, which needs `RefundInv` and `OriginOK`:
requests, and handlers on their way to one, have an account and an amount somebody
asked for.  `WithdrawalsWereRequested` adds that every event is a row of a block of the
chain (`EventsOK`, from `IngestInv`) and that every block either takes nothing out of
the escrow or is the refund of a request (`BlocksOK`); requests never change their
address or amount, so both survive every step.  `StatisticsAccount` (`StatsAccounted`)
rests on `RewardInv`: the first query is balanced by the rewards of that moment, and
rewards only grow until the second (`RewardsGrow`; no claim ever succeeds).

**`ServiceProcessProofs`** proves `ProcessTypeCorrect`, `ReplayNeedsClockAhead` and
`SignsForThePool`.  The first service of a request leaves its nonce in the cache; the
invariant says that while the process lives it is either still there or so old that the
request's timestamp, unless it lay ahead, has left the window.  `SignsForThePool`
(`KeyFitsSettings`) is that a key is in memory exactly while a process is up, and is the
one of the address in its settings: what a refused load leaves is `NoKey`.

**`PayoutSignerProofs`** proves `SignerTypeCorrect`, `ClaimsExclusive`,
`PaidTwiceOnlyIfAnswerLost`, `SubmittedMeansAccepted`, `FinalRowsStay` and
`SignerKeepsPromise`, the refinement of `Payouts`.
`SignerInv` says that a runner holds SIGNING rows only and no two runners the same
one, the row in work having attempts left.  `PaidInv` adds, while no answer is lost,
that a payout which L1 has accepted is SUBMITTED or SIGNING with nobody about to
submit it, so it is never QUEUED again; `AnswerInv` that a runner in state
`accepted` has its payout among the accepted ones.

**Only model-checked.**  Liveness under fairness: `WatcherCatchesUp`,
`RefundEventuallyQueued`, `EventuallyProcessed`, `RecoversOnceKeyIsRight`.  And the
violations of section 3, which are behaviours, not theorems.

## 5. Not modelled

* Dilithium signatures and the bindings to them (`dilithium.py`, `native/`), key
  decryption beyond its outcome, and the canonical serialisation of transactions: no
  state machine.
* Read endpoints other than the statistics: one query, one committed state.  `get_stake`
  has two and may show a stake and a request that do not belong together, for one call.
  Logging, timestamps, heights kept for display, notes.
* `smoke_pool_l1.py` and the tests: they drive the code above by hand.
* Balances of L1 accounts, so neither the fee of each refund nor an empty escrow; L1
  answers with an error, as for a wrong nonce.
* A clock that is set back.
* Schema migrations and the setup script; the systemd unit is the reason for one service
  process with one worker, and its restarts.
* Delays and timeouts of the RPC client: only their outcome.
* The primary-key violation of two sessions that both create the row of a staker, or of
  the watcher's state (`_get_or_create_staker`, `_get_or_create_watcher_state`).  Nothing
  catches it, so it abandons the session: for an ingester that is `Fail`, which is
  possible at any point but as often only as `MaxFails` allows.
* Chain reorganisations: the chain only grows and a hash is a position in it.

## 6. Plan

Done: all modules of section 2 and the proofs of section 4.  Next:

1. A version of `IngestersReplay` with calls: between blocks the handlers change stakes,
   so the replay needs their writes as steps of its own, and sessions that have
   distributed an inflow must not overlap a call either.
2. The equation behind `StakeWithinEvents`: every mined refund debited twice, clamped at
   zero, with what the clamp swallowed as history.
3. A chain that repeats a transaction in a later block: what `_record_event`'s rollback
   then drops.

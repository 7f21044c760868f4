--------------------------- MODULE ServiceProofs ---------------------------
(***************************************************************************)
(* The round trip of a stake, for any number of accounts, handlers,        *)
(* ingesters and refunds: StakingService is StakeLedger with a particular  *)
(* L1, what the ledger books as a withdrawal is what a user asked for, and *)
(* the statistics account for what L1 paid in.                             *)
(***************************************************************************)
EXTENDS StakingService, RewardProofs, RefundProofs

\* Requests come from accounts, over amounts users ask for.
OriginOK ==
  /\ \A r \in DOMAIN unstake_requests :
       unstake_requests[r].address \in Accounts /\ unstake_requests[r].amount \in UserAmounts
  /\ \A k \in Handlers : hand[k].pc \in {"unstake", "unstake_commit"} =>
       hand[k].address \in Accounts /\ hand[k].arg \in UserAmounts

\* A block of L1: nothing in it leaves the escrow, or it is the refund of a
\* request.
BlockOK(h) ==
  \/ \A i \in DOMAIN chain[h + 1] : ~IsUnstake(chain[h + 1][i])
  \/ \E m \in mined :
       /\ m.height = h /\ m.ref \in DOMAIN unstake_requests
       /\ chain[h + 1] = <<RefundTx(unstake_requests[m.ref].address,
                                    unstake_requests[m.ref].amount)>>

BlocksOK == \A h \in 0..Tip : BlockOK(h)

\* Every event is a row of a block of the chain.
EventsOK == \A e \in stake_events : \E h \in 0..Tip : e \in Keys(h)

LedgerInv == TypeInv /\ IngestInv /\ RefundInv /\ OriginOK

ServiceInv == LedgerInv /\ BlocksOK /\ EventsOK

-----------------------------------------------------------------------------
(* What a step of StakeLedger does to requests and events *)

\* Of the steps of L1 and the ingesters, only the commit touches them.
LEMMA IngestFrame ==
  ASSUME IngestNext, \A p \in Ingesters : ~CommitBlock(p)
  PROVE  UNCHANGED <<unstakeVars, stake_events>>
BY DEF IngestNext, IngestWork, Mine, WatcherStep, SnapshotStep, IngestStep, ReadTip, Fail,
   Abandon, WatcherTick, UnlockUnstakes, SnapshotStart, SnapshotRefresh, SnapshotComplete,
   NextTx, IgnoreTx, RecordEvent, DuplicateEvent, CreditRewards, IntegrityAbort,
   unstakeVars, ledgerVars, Ingesters

\* A request keeps its address and its amount; a new one is what its handler
\* was asked for.
LEMMA RequestsStep ==
  ASSUME TypeInv, [Next]_vars
  PROVE  /\ \A r \in DOMAIN unstake_requests :
              /\ r \in DOMAIN unstake_requests'
              /\ unstake_requests'[r].address = unstake_requests[r].address
              /\ unstake_requests'[r].amount = unstake_requests[r].amount
         /\ \A r \in DOMAIN unstake_requests' \ DOMAIN unstake_requests :
              \E k \in Handlers :
                /\ hand[k].pc = "unstake_commit"
                /\ unstake_requests'[r].address = hand[k].address
                /\ unstake_requests'[r].amount = hand[k].arg
<1>0. unstake_requests \in Seq(Request)
  BY DEF TypeInv, TypeOK, DbTypeOK
<1>1. ASSUME NEW p \in Ingesters, CommitBlock(p)
      PROVE  /\ DOMAIN unstake_requests' = DOMAIN unstake_requests
             /\ \A r \in DOMAIN unstake_requests :
                  /\ unstake_requests'[r].address = unstake_requests[r].address
                  /\ unstake_requests'[r].amount = unstake_requests[r].amount
  BY <1>0, <1>1, RequestType DEF CommitBlock, Request
<1>2. ASSUME NEW k \in Handlers, UnstakeCommit(k)
      PROVE  /\ DOMAIN unstake_requests' =
                  DOMAIN unstake_requests \cup {Len(unstake_requests) + 1}
             /\ \A r \in DOMAIN unstake_requests : unstake_requests'[r] = unstake_requests[r]
             /\ hand[k].pc = "unstake_commit"
             /\ unstake_requests'[Len(unstake_requests) + 1].address = hand[k].address
             /\ unstake_requests'[Len(unstake_requests) + 1].amount = hand[k].arg
  <2>1. PICK q : /\ unstake_requests' = Append(unstake_requests, q)
                 /\ q.address = hand[k].address /\ q.amount = hand[k].arg
    BY <1>2 DEF UnstakeCommit
  <2>2. hand[k].pc = "unstake_commit"
    BY <1>2 DEF UnstakeCommit
  <2> QED
    BY <1>0, <2>1, <2>2
<1>3. ASSUME NEW k \in Handlers, CancelCommit(k)
      PROVE  /\ DOMAIN unstake_requests' = DOMAIN unstake_requests
             /\ \A r \in DOMAIN unstake_requests :
                  /\ unstake_requests'[r].address = unstake_requests[r].address
                  /\ unstake_requests'[r].amount = unstake_requests[r].amount
  BY <1>0, <1>3, RequestType DEF CancelCommit, Request
<1>4. CASE IngestNext
  BY <1>1, <1>4, IngestFrame DEF unstakeVars
<1>5. CASE ApiNext
  <2>1. CASE \E k \in Handlers : UnstakeCommit(k)
    BY <1>2, <2>1
  <2>2. CASE \E k \in Handlers : CancelCommit(k)
    BY <1>3, <2>2
  <2>3. CASE \A k \in Handlers : ~UnstakeCommit(k) /\ ~CancelCommit(k)
    BY <1>5, <2>3, ReadingFrame DEF ApiNext, HandlerStep, unstakeVars
  <2> QED
    BY <2>1, <2>2, <2>3
<1>6. CASE UNCHANGED vars
  BY <1>6 DEF vars, unstakeVars
<1> QED
  BY <1>4, <1>5, <1>6 DEF Next

\* A handler at work on request-unstake is working on what it loaded.
LEMMA HandStep ==
  ASSUME TypeInv, OriginOK, [Next]_vars, NEW k \in Handlers,
         hand'[k].pc \in {"unstake", "unstake_commit"}
  PROVE  hand'[k].address \in Accounts /\ hand'[k].arg \in UserAmounts
<1>0. hand \in [Handlers -> HandlerStates]
  BY DEF TypeInv, TypeOK, ApiTypeOK
<1>1. CASE hand'[k] = hand[k]
  BY <1>1 DEF OriginOK
<1>2. CASE hand'[k] # hand[k]
  <2>1. ApiNext
    BY <1>2 DEF Next, vars, apiVars
  <2>2. PICK l \in Handlers :
          \/ \E a \in Accounts, m \in UserAmounts : UnstakeLoad(l, a, m)
          \/ \E r \in DOMAIN unstake_requests : CancelLoad(l, r)
          \/ \E a \in Accounts : ClaimLoad(l, a)
          \/ HandlerStep(l) \/ HandlerAbort(l)
    BY <2>1 DEF ApiNext
  <2>3. \E j : hand' = [hand EXCEPT ![l] = j]
    BY <2>2 DEF UnstakeLoad, CancelLoad, ClaimLoad, HandlerStep, HandlerAbort, Begin, Goto,
       ReadHeight, UnstakeHeight, UnstakeCommit, CancelLoadStaker, CancelHeight, CancelCommit,
       ClaimHeight, ClaimRefused
  <2>4. l = k
    BY <1>0, <1>2, <2>3
  <2>5. CASE \E a \in Accounts, m \in UserAmounts : UnstakeLoad(k, a, m)
    BY <1>0, <2>5 DEF UnstakeLoad, Begin, Handling
  <2>6. CASE UnstakeHeight(k)
    BY <1>0, <2>6 DEF UnstakeHeight, ReadHeight, Goto, Handling, IdleHandler, OriginOK
  <2>7. CASE \/ \E r \in DOMAIN unstake_requests : CancelLoad(k, r)
             \/ \E a \in Accounts : ClaimLoad(k, a)
             \/ CancelLoadStaker(k) \/ CancelHeight(k) \/ ClaimHeight(k)
             \/ UnstakeCommit(k) \/ CancelCommit(k) \/ ClaimRefused(k) \/ HandlerAbort(k)
    <3>1. hand'[k].pc \notin {"unstake", "unstake_commit"}
      BY <1>0, <2>7 DEF CancelLoad, ClaimLoad, HandlerAbort, Begin, Goto, ReadHeight,
         UnstakeCommit, CancelLoadStaker, CancelHeight, CancelCommit, ClaimHeight,
         ClaimRefused, Handling, IdleHandler
    <3> QED
      BY <3>1
  <2> QED
    BY <2>2, <2>4, <2>5, <2>6, <2>7 DEF HandlerStep
<1> QED
  BY <1>1, <1>2

LEMMA OriginStep ==
  ASSUME TypeInv, OriginOK, [Next]_vars
  PROVE  OriginOK'
BY RequestsStep, HandStep DEF OriginOK

LEMMA OriginInit == ASSUME Init PROVE OriginOK
BY DEF Init, DbInit, ApiInit, OriginOK, IdleHandler, Handling

\* StakeLedger keeps LedgerInv.
LEMMA LedgerStep ==
  ASSUME LedgerInv, [Next]_vars
  PROVE  LedgerInv'
BY NextType, NextIngestInv, RefundNext, OriginStep DEF LedgerInv

-----------------------------------------------------------------------------
(* Every step of StakingService is one of StakeLedger, or none *)

\* A queued refund goes to an account, over an amount it asked for.
LEMMA PayoutOrigin ==
  ASSUME LedgerInv, NEW q \in pending_payouts
  PROVE  /\ q.ref \in DOMAIN unstake_requests
         /\ q.recipient = unstake_requests[q.ref].address
         /\ q.amount = unstake_requests[q.ref].amount
         /\ <<RefundTx(q.recipient, q.amount)>> \in Blocks
<1>1. q.ref \in DOMAIN unstake_requests
  BY DEF LedgerInv, RefundInv, QueuedOK
<1>2. q = RefundOf(q.ref)
  BY <1>1 DEF LedgerInv, RefundInv, ReadyHasRefund
<1>3. /\ q.recipient = unstake_requests[q.ref].address
      /\ q.amount = unstake_requests[q.ref].amount
  BY <1>2 DEF RefundOf
<1>4. q.recipient \in Accounts /\ q.amount \in UserAmounts
  BY <1>1, <1>3 DEF LedgerInv, OriginOK
<1> QED
  BY <1>1, <1>3, <1>4, ServiceAssumption

LEMMA StepIsLedgerStep ==
  ASSUME LedgerInv, [ServiceNext]_serviceVars
  PROVE  [Next]_vars
<1>1. ASSUME NEW b \in UserBlocks, Mine(b) /\ UNCHANGED <<apiVars, mined, readVars>>
      PROVE  Next
  BY <1>1, ServiceAssumption DEF Next, IngestNext
<1>2. ASSUME NEW q \in pending_payouts, MineRefund(q) PROVE Next
  BY <1>2, PayoutOrigin DEF MineRefund, Next, IngestNext
<1>3. CASE IngestWork /\ UNCHANGED <<apiVars, mined, readVars>>
  BY <1>3 DEF Next, IngestNext
<1>4. CASE ApiNext /\ UNCHANGED <<ingestVars, mined, readVars>>
  BY <1>4 DEF Next
<1>5. CASE ReadStats
  BY <1>5 DEF ReadStats
<1>6. CASE UNCHANGED serviceVars
  BY <1>6 DEF serviceVars
<1> QED
  BY <1>1, <1>2, <1>3, <1>4, <1>5, <1>6 DEF ServiceNext

LEMMA ServiceInitLedger == ServiceInit => Init /\ LedgerInv
BY InitType, IngestInitInv, RefundInit, OriginInit DEF ServiceInit, LedgerInv

\* StakingService is StakeLedger with an L1 that mines what the queue holds:
\* whatever is proved of StakeLedger!Spec holds of the whole service.
THEOREM ServiceIsLedger == ServiceSpec => Spec
<1>1. LedgerInv /\ [ServiceNext]_serviceVars => [Next]_vars /\ LedgerInv'
  BY StepIsLedgerStep, LedgerStep
<1> QED
  BY <1>1, ServiceInitLedger, PTL DEF ServiceSpec, Spec

-----------------------------------------------------------------------------
(* What leaves the escrow was asked for *)

\* Blocks are never rewritten.
LEMMA ChainStep ==
  ASSUME TypeInv, [Next]_vars
  PROVE  /\ Tip \in Nat /\ Tip' \in Nat /\ Tip <= Tip'
         /\ \A h \in 0..Tip : chain'[h + 1] = chain[h + 1] /\ Keys(h)' = Keys(h)
<1>0. chain \in Seq(Seq(Tx)) /\ Tip \in Nat
  BY TipType DEF TypeInv, TypeOK, DbTypeOK
<1>1. CASE \E b \in Blocks : Mine(b)
  <2>1. PICK b : chain' = Append(chain, b) /\ b \in Seq(Tx)
    BY <1>1, BlockAssumption DEF Mine
  <2>2. Tip' = Tip + 1 /\ \A h \in 0..Tip : chain'[h + 1] = chain[h + 1]
    BY <1>0, <2>1, AppendProperties DEF Tip
  <2>3. \A h \in 0..Tip : Keys(h)' = Keys(h)
    BY <2>2 DEF Keys
  <2> QED
    BY <1>0, <2>2, <2>3
<1>2. CASE chain' = chain
  BY <1>0, <1>2, SameBlock DEF Tip
<1>3. (\E b \in Blocks : Mine(b)) \/ chain' = chain
  BY ApiFrame DEF Next, IngestNext, IngestWork, WatcherStep, SnapshotStep, IngestStep, ReadTip,
     Fail, Abandon, WatcherTick, UnlockUnstakes, SnapshotStart, SnapshotRefresh,
     SnapshotComplete, NextTx, IgnoreTx, RecordEvent, DuplicateEvent, CreditRewards,
     CommitBlock, IntegrityAbort, vars
<1> QED
  BY <1>1, <1>2, <1>3

LEMMA EventsStep ==
  ASSUME LedgerInv, EventsOK, [Next]_vars
  PROVE  EventsOK'
<1> SUFFICES ASSUME NEW e \in stake_events' PROVE \E h \in 0..Tip' : e \in Keys(h)'
  BY DEF EventsOK
<1>1. TypeInv /\ IngestInv
  BY DEF LedgerInv
<1>2. \E h \in 0..Tip : e \in Keys(h)
  <2>1. CASE e \in stake_events
    BY <2>1 DEF EventsOK
  <2>2. CASE e \notin stake_events
    <3>1. PICK p \in Ingesters : CommitBlock(p)
      BY <2>2, IngestFrame, ApiFrame DEF Next, vars, ledgerVars
    <3>2. e \in txn[p].events /\ ing[p].pc \in Active
      BY <2>2, <3>1 DEF CommitBlock, AtCommit, AllTxsDone, Active
    <3>3. e \in Keys(ing[p].h)
      BY <1>1, <3>2, InBlock
    <3>4. ing[p].h \in 0..Tip
      BY <1>1, <3>2, TxOfType
    <3> QED
      BY <3>3, <3>4
  <2> QED
    BY <2>1, <2>2
<1>3. PICK h \in 0..Tip : e \in Keys(h)
  BY <1>2
<1>4. Keys(h)' = Keys(h) /\ h \in 0..Tip'
  BY <1>1, <1>3, ChainStep
<1> QED
  BY <1>3, <1>4

LEMMA BlocksStep ==
  ASSUME ServiceInv, [ServiceNext]_serviceVars
  PROVE  BlocksOK'
<1>0. LedgerInv /\ TypeInv /\ BlocksOK /\ [Next]_vars
  BY StepIsLedgerStep DEF ServiceInv, LedgerInv
<1> PICK t : t = Tip + 1
  OBVIOUS
<1>1. mined \subseteq mined'
  BY DEF ServiceNext, MineRefund, ReadStats, serviceVars
<1>2. ASSUME NEW h \in 0..Tip PROVE BlockOK(h)'
  <2>1. BlockOK(h) /\ chain'[h + 1] = chain[h + 1]
    BY <1>0, ChainStep DEF BlocksOK
  <2> QED
    BY <1>0, <1>1, <2>1, RequestsStep DEF BlockOK
<1>3. CASE \E b \in UserBlocks : Mine(b)
  <2>1. PICK b \in UserBlocks : Mine(b)
    BY <1>3
  <2>2. chain \in Seq(Seq(Tx)) /\ b \in Seq(Tx) /\ Tip \in Nat
    BY <1>0, TipType, ServiceAssumption, BlockAssumption DEF TypeInv, TypeOK, DbTypeOK
  <2>3. Tip' = t /\ t \in Nat /\ chain'[t + 1] = b
    BY <2>1, <2>2, AppendProperties DEF Mine, Tip
  <2>4. BlockOK(t)'
    BY <2>2, <2>3, ServiceAssumption DEF BlockOK
  <2> QED
    BY <1>2, <2>2, <2>3, <2>4 DEF BlocksOK
<1>4. CASE \E q \in pending_payouts : MineRefund(q)
  <2>1. PICK q \in pending_payouts : MineRefund(q)
    BY <1>4
  <2> PICK b : b = <<RefundTx(q.recipient, q.amount)>>
    OBVIOUS
  <2>2. Mine(b) /\ [ref |-> q.ref, height |-> Tip + 1] \in mined'
    BY <2>1 DEF MineRefund
  <2>3. chain \in Seq(Seq(Tx)) /\ b \in Seq(Tx) /\ Tip \in Nat
    BY <1>0, TipType, PayoutOrigin, BlockAssumption DEF TypeInv, TypeOK, DbTypeOK
  <2>4. Tip' = t /\ t \in Nat /\ chain'[t + 1] = b
    BY <2>2, <2>3, AppendProperties DEF Mine, Tip
  <2>5. /\ q.ref \in DOMAIN unstake_requests'
        /\ q.recipient = unstake_requests'[q.ref].address
        /\ q.amount = unstake_requests'[q.ref].amount
    BY <1>0, PayoutOrigin, RequestsStep
  <2>6. BlockOK(t)'
    BY <2>2, <2>3, <2>4, <2>5 DEF BlockOK
  <2> QED
    BY <1>2, <2>3, <2>4, <2>6 DEF BlocksOK
<1>5. CASE chain' = chain
  BY <1>2, <1>5 DEF BlocksOK, Tip
<1>6. \/ \E b \in UserBlocks : Mine(b)
      \/ \E q \in pending_payouts : MineRefund(q)
      \/ chain' = chain
  BY ApiFrame DEF ServiceNext, IngestWork, WatcherStep, SnapshotStep, IngestStep, ReadTip,
     Fail, Abandon, WatcherTick, UnlockUnstakes, SnapshotStart, SnapshotRefresh,
     SnapshotComplete, NextTx, IgnoreTx, RecordEvent, DuplicateEvent, CreditRewards,
     CommitBlock, IntegrityAbort, ReadStats, vars, serviceVars
<1> QED
  BY <1>3, <1>4, <1>5, <1>6

LEMMA ServiceInvInit == ServiceInit => ServiceInv
<1> SUFFICES ASSUME ServiceInit PROVE BlocksOK /\ EventsOK
  BY ServiceInitLedger DEF ServiceInv
<1>1. PICK b \in Genesis : chain = <<b>>
  BY DEF ServiceInit
<1>2. Tip = 0 /\ chain[1] = b
  BY <1>1 DEF Tip
<1>3. BlockOK(0)
  BY <1>2, ServiceAssumption DEF BlockOK
<1>4. stake_events = {}
  BY DEF ServiceInit, Init, DbInit
<1> QED
  BY <1>2, <1>3, <1>4 DEF BlocksOK, EventsOK

LEMMA ServiceInvNext == ServiceInv /\ [ServiceNext]_serviceVars => ServiceInv'
BY StepIsLedgerStep, LedgerStep, EventsStep, BlocksStep DEF ServiceInv

\* An UNSTAKE row stands for a transfer out of the escrow, which only a refund
\* makes.
LEMMA WithdrawalKnown == ASSUME ServiceInv PROVE WithdrawalsAreRefunds
<1> SUFFICES ASSUME NEW e \in stake_events, e.event_type = "UNSTAKE"
             PROVE  \E m \in mined :
                      /\ e.tx_hash = <<m.height, 1>>
                      /\ e.address = unstake_requests[m.ref].address
                      /\ e.amount = unstake_requests[m.ref].amount
  BY DEF WithdrawalsAreRefunds
<1>1. PICK h \in 0..Tip : e \in Keys(h)
  BY DEF ServiceInv, EventsOK
<1>2. PICK i \in DOMAIN chain[h + 1] :
        Recordable(chain[h + 1][i]) /\ e = EventOf(chain[h + 1][i], h, i)
  BY <1>1 DEF Keys
<1>3. IsUnstake(chain[h + 1][i]) /\ ~IsStake(chain[h + 1][i])
  BY <1>2 DEF EventOf, Recordable
<1>4. PICK m \in mined :
        /\ m.height = h /\ m.ref \in DOMAIN unstake_requests
        /\ chain[h + 1] = <<RefundTx(unstake_requests[m.ref].address,
                                     unstake_requests[m.ref].amount)>>
  BY <1>3 DEF ServiceInv, BlocksOK, BlockOK
<1> PICK a, n : a = unstake_requests[m.ref].address /\ n = unstake_requests[m.ref].amount
  OBVIOUS
<1>5. i = 1 /\ chain[h + 1][i] = RefundTx(a, n)
  BY <1>2, <1>4
<1>6. canonicalize[a] = a
  BY <1>4, ServiceAssumption DEF ServiceInv, LedgerInv, OriginOK
<1>7. e.address = canonicalize[a] /\ e.amount = n /\ e.tx_hash = <<h, 1>>
  BY <1>2, <1>3, <1>5 DEF EventOf, RefundTx
<1> QED
  BY <1>4, <1>6, <1>7

\* request_unstake, process_unlocked_unstakes, HotKeySigner and the ledger:
\* for any load, a withdrawal in the ledger is the refund of a request, on
\* the address that asked for it and over the amount it asked for.
THEOREM WithdrawalsWereRequested == ServiceSpec => []WithdrawalsAreRefunds
<1>1. ServiceInv => WithdrawalsAreRefunds
  BY WithdrawalKnown
<1> QED
  BY <1>1, ServiceInvInit, ServiceInvNext, PTL DEF ServiceSpec
-----------------------------------------------------------------------------
(* The two queries of get_rewards_pool_stats *)

\* The answer so far: between the two queries its inflows are covered by its
\* dust and the rewards of the moment, which the second query will add up.
StatsOK ==
  /\ query \in {0, 1}
  /\ stats \in [total_inflow : Nat, total_dust : Nat, total_pending : Nat]
  /\ query = 1 => stats.total_inflow <= Total(validator_rewards) + stats.total_dust
  /\ StatsAccounted

StatsInv == LedgerInv /\ RewardInv /\ StatsOK

\* Of all steps only the commit of a block changes a reward.
LEMMA RewardsFrame ==
  ASSUME [Next]_vars, \A p \in Ingesters : ~CommitBlock(p)
  PROVE  UNCHANGED validator_rewards
<1>1. CASE IngestNext
  BY <1>1 DEF IngestNext, IngestWork, Mine, WatcherStep, SnapshotStep, IngestStep, ReadTip, Fail,
     Abandon, WatcherTick, UnlockUnstakes, SnapshotStart, SnapshotRefresh, SnapshotComplete,
     NextTx, IgnoreTx, RecordEvent, DuplicateEvent, CreditRewards, IntegrityAbort,
     ledgerVars, Ingesters
<1>2. CASE ApiNext
  BY <1>2, ApiRewards
<1>3. CASE UNCHANGED vars
  BY <1>3 DEF vars, ledgerVars
<1> QED
  BY <1>1, <1>2, <1>3 DEF Next

\* Pending rewards never shrink: no claim gets through.
LEMMA RewardsGrow ==
  ASSUME TypeInv, IngestInv, RewardInv, [Next]_vars
  PROVE  Total(validator_rewards) \in Nat /\ Total(validator_rewards)' \in Nat
         /\ Total(validator_rewards) <= Total(validator_rewards)'
<1>0. Total(validator_rewards)' = Total(validator_rewards')
  BY DEF Total
<1>1. Total(validator_rewards) \in Nat
  BY AddrsFinite, TotalType DEF TypeInv, TypeOK, DbTypeOK
<1>2. CASE UNCHANGED validator_rewards
  BY <1>0, <1>1, <1>2
<1>3. CASE ~UNCHANGED validator_rewards
  <2>1. PICK p \in Ingesters : CommitBlock(p)
    BY <1>3, RewardsFrame
  <2>2. PICK f \in Inflow :
          /\ f.dust_remaining \in 0..f.amount
          /\ validator_rewards' \in [Addrs -> Nat]
          /\ Total(validator_rewards') + f.dust_remaining = Total(validator_rewards) + f.amount
    BY <1>3, <2>1, CommitEffect
  <2>3. Total(validator_rewards') \in Nat
    BY <2>2, AddrsFinite, TotalType
  <2>4. f.amount \in Nat
    BY DEF Inflow
  <2> QED
    BY <1>0, <1>1, <2>2, <2>3, <2>4
<1> QED
  BY <1>2, <1>3

\* The totals of the first query.
LEMMA InflowTotalsType ==
  ASSUME TypeInv, RewardInv
  PROVE  /\ Total([f \in reward_pool_inflows |-> f.amount]) \in Nat
         /\ Total([f \in reward_pool_inflows |-> f.dust_remaining]) \in Nat
<1>1. IsFiniteSet(reward_pool_inflows)
  BY DEF RewardInv, InflowsOK
<1>2. /\ [f \in reward_pool_inflows |-> f.amount] \in [reward_pool_inflows -> Nat]
      /\ [f \in reward_pool_inflows |-> f.dust_remaining] \in [reward_pool_inflows -> Nat]
  BY DEF RewardInv, InflowsOK, TypeInv, TypeOK, DbTypeOK, Inflow
<1> QED
  BY <1>1, <1>2, TotalType

LEMMA ReadStatsKeeps ==
  ASSUME TypeInv, RewardInv, StatsOK, ReadStats
  PROVE  StatsOK'
<1> PICK m, d, t : /\ m = Total([f \in reward_pool_inflows |-> f.amount])
                   /\ d = Total([f \in reward_pool_inflows |-> f.dust_remaining])
                   /\ t = Total(validator_rewards)
  OBVIOUS
<1>1. m \in Nat /\ d \in Nat /\ t \in Nat
  BY InflowTotalsType, AddrsFinite, TotalType DEF TypeInv, TypeOK, DbTypeOK
<1>2. t + d = m
  BY DEF RewardInv, PoolBalanced
<1>3. Total(validator_rewards)' = t
  BY DEF ReadStats, vars, ledgerVars
<1>4. CASE query = 0
  <2>1. query' = 1 /\ stats' = [stats EXCEPT !.total_inflow = m, !.total_dust = d]
    BY <1>4 DEF ReadStats, QueryResult, InflowTotals
  <2>2. stats \in [total_inflow : Nat, total_dust : Nat, total_pending : Nat]
    BY DEF StatsOK
  <2>3. /\ stats' \in [total_inflow : Nat, total_dust : Nat, total_pending : Nat]
        /\ stats'.total_inflow = m /\ stats'.total_dust = d
    BY <1>1, <2>1, <2>2
  <2>4. stats'.total_inflow <= Total(validator_rewards)' + stats'.total_dust
    BY <1>1, <1>2, <1>3, <2>3
  <2> QED
    BY <2>1, <2>3, <2>4 DEF StatsOK, StatsAccounted
<1>5. CASE query = 1
  <2>1. query' = 0 /\ stats' = [stats EXCEPT !.total_pending = t]
    BY <1>5 DEF ReadStats, QueryResult, RewardTotals
  <2> QED
    BY <1>1, <1>3, <1>5, <2>1 DEF StatsOK, StatsAccounted
<1> QED
  BY <1>4, <1>5 DEF StatsOK

LEMMA StatsNext == StatsInv /\ [ServiceNext]_serviceVars => StatsInv'
<1> SUFFICES ASSUME StatsInv, [ServiceNext]_serviceVars PROVE StatsInv'
  OBVIOUS
<1>0. LedgerInv /\ TypeInv /\ IngestInv /\ RewardInv /\ StatsOK
  BY DEF StatsInv, LedgerInv
<1>1. [Next]_vars
  BY <1>0, StepIsLedgerStep
<1>2. LedgerInv' /\ RewardInv'
  BY <1>0, <1>1, LedgerStep, NextRewards
<1>3. CASE ReadStats
  BY <1>0, <1>2, <1>3, ReadStatsKeeps DEF StatsInv
<1>4. CASE UNCHANGED readVars
  <2>1. stats' = stats /\ query' = query
    BY <1>4 DEF readVars
  <2>2. Total(validator_rewards) \in Nat /\ Total(validator_rewards)' \in Nat
        /\ Total(validator_rewards) <= Total(validator_rewards)'
    BY <1>0, <1>1, RewardsGrow
  <2>3. StatsOK'
    BY <1>0, <2>1, <2>2 DEF StatsOK, StatsAccounted
  <2> QED
    BY <1>2, <2>3 DEF StatsInv
<1>5. ReadStats \/ UNCHANGED readVars
  BY DEF ServiceNext, MineRefund, serviceVars
<1> QED
  BY <1>3, <1>4, <1>5

LEMMA StatsInit == ServiceInit => StatsInv
<1> SUFFICES ASSUME ServiceInit PROVE StatsInv
  OBVIOUS
<1>1. StatsOK
  BY DEF ServiceInit, NoStats, StatsOK, StatsAccounted
<1> QED
  BY <1>1, ServiceInitLedger, InitRewards DEF StatsInv

\* get_rewards_pool_stats: whatever is committed between its two queries, the
\* answer never shows more paid in than credited and left over.
THEOREM StatisticsAccount == ServiceSpec => []StatsAccounted
<1>1. StatsInv => StatsAccounted
  BY DEF StatsInv, StatsOK
<1> QED
  BY <1>1, StatsInit, StatsNext, PTL DEF ServiceSpec
=============================================================================

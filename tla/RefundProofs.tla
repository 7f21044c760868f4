---------------------------- MODULE RefundProofs ----------------------------
(***************************************************************************)
(* The way of an unstake request into the payout queue, for any number of  *)
(* handlers, ingesters and requests.                                       *)
(***************************************************************************)
EXTENDS StakeLedgerProofs

\* A refund in the queue belongs to a request that has left PENDING, which is
\* why the query of process_unlocked_unstakes never returns it again.
QueuedOK ==
  \A q \in pending_payouts :
    q.ref \in DOMAIN unstake_requests /\ unstake_requests[q.ref].status # "PENDING"

\* Only the watcher, and only between the query and its commit, holds requests
\* to refund; their cooldown ends with its block or before.
ReadyOK ==
  /\ \A p \in Ingesters : p # Watcher \/ ing[p].pc # "commit" => txn[p].ready = {}
  /\ \A r \in txn[Watcher].ready : unstake_requests[r].unlock_height <= ing[Watcher].h

RefundInv == NoRefundClash /\ ReadyHasRefund /\ QueuedOK /\ ReadyOK

\* RefundInv looks at nothing but requests, payouts, ing and txn.
LEMMA RefundFrame ==
  ASSUME RefundInv, UNCHANGED <<unstakeVars, ing, txn>>
  PROVE  RefundInv'
BY DEF RefundInv, NoRefundClash, ReadyHasRefund, RefundOf, QueuedOK, ReadyOK, unstakeVars

\* A step after which its ingester holds no request.
LEMMA QuietRefund ==
  ASSUME TypeInv, RefundInv, NEW p \in Ingesters, NEW j, NEW w, w.ready = {},
         ing' = [ing EXCEPT ![p] = j], txn' = [txn EXCEPT ![p] = w],
         UNCHANGED unstakeVars
  PROVE  RefundInv'
<1>1. /\ ing'[p] = j /\ txn'[p] = w
      /\ \A q \in Ingesters \ {p} : ing'[q] = ing[q] /\ txn'[q] = txn[q]
  BY DEF TypeInv, TypeOK, IngestTypeOK
<1>2. Watcher \in Ingesters
  BY DEF Ingesters
<1>3. NoRefundClash' /\ ReadyOK'
  BY <1>1, <1>2 DEF RefundInv, NoRefundClash, ReadyOK, unstakeVars
<1>4. ReadyHasRefund' /\ QueuedOK'
  BY DEF RefundInv, ReadyHasRefund, RefundOf, QueuedOK, unstakeVars
<1> QED
  BY <1>3, <1>4 DEF RefundInv

\* The same for a step that does not touch the writes of its session.
LEMMA LoopRefund ==
  ASSUME TypeInv, RefundInv, NEW p \in Ingesters, ing[p].pc # "commit", NEW j,
         ing' = [ing EXCEPT ![p] = j], txn' = txn, UNCHANGED unstakeVars
  PROVE  RefundInv'
<1>1. txn' = [txn EXCEPT ![p] = txn[p]]
  BY DEF TypeInv, TypeOK, IngestTypeOK
<1>2. txn[p].ready = {}
  BY DEF RefundInv, ReadyOK
<1> QED
  BY <1>1, <1>2, QuietRefund

LEMMA LoopsRefund ==
  ASSUME TypeInv, RefundInv,
         \/ \E p \in Ingesters : ReadTip(p)
         \/ WatcherTick
         \/ \E s \in Snapshots : SnapshotStart(s) \/ SnapshotRefresh(s) \/ SnapshotComplete(s)
  PROVE  RefundInv'
<1>1. PICK p \in Ingesters : /\ ing[p].pc # "commit"
                             /\ \E j : ing' = [ing EXCEPT ![p] = j]
                             /\ UNCHANGED <<txn, unstakeVars>>
  BY DEF ReadTip, WatcherTick, SnapshotStart, SnapshotRefresh, SnapshotComplete, Ingesters
<1> QED
  BY <1>1, LoopRefund

LEMMA TxRefund ==
  ASSUME TypeInv, RefundInv, NEW p \in Ingesters,
         IgnoreTx(p) \/ RecordEvent(p) \/ DuplicateEvent(p) \/ CreditRewards(p)
  PROVE  RefundInv'
<1>1. HasTx(p) /\ NextTx(p) /\ ing[p].pc = "apply"
  BY DEF IgnoreTx, RecordEvent, DuplicateEvent, CreditRewards, HasTx
<1>2. txn[p].ready = {}
  BY <1>1 DEF RefundInv, ReadyOK
<1>3. CASE IgnoreTx(p)
  BY <1>1, <1>3, LoopRefund DEF IgnoreTx, NextTx
<1>4. CASE RecordEvent(p)
  <2>1. EventWrites(p, CurEvent(p)).ready = {}
    BY <1>1, <1>2, TxOfType, EventWritesType DEF Active
  <2> QED
    BY <1>1, <1>4, <2>1, QuietRefund DEF RecordEvent, NextTx
<1>5. CASE DuplicateEvent(p)
  BY <1>1, <1>5, NoWritesType, QuietRefund DEF DuplicateEvent, NextTx
<1>6. CASE CreditRewards(p)
  <2> DEFINE w == RewardWrites(p, TxOf(p).amount, [a \in Addrs |-> AmountSeen(p, a)])
  <2>1. w.ready = {}
    BY <1>1, <1>2, InflowType, RewardWritesType
  <2>2. txn' = [txn EXCEPT ![p] = w]
    BY <1>6 DEF CreditRewards
  <2> HIDE DEF w
  <2> QED
    BY <1>1, <2>1, <2>2, QuietRefund DEF NextTx
<1> QED
  BY <1>3, <1>4, <1>5, <1>6

LEMMA AbandonRefund ==
  ASSUME TypeInv, RefundInv, NEW p \in Ingesters, IntegrityAbort(p) \/ Fail(p)
  PROVE  RefundInv'
<1>1. Abandon(p)
  BY DEF IntegrityAbort, Fail
<1> QED
  BY <1>1, NoWritesType, QuietRefund DEF Abandon

\* The query returns PENDING requests only, so none that has a refund.
LEMMA UnlockRefund ==
  ASSUME TypeInv, RefundInv, UnlockUnstakes
  PROVE  RefundInv'
<1> DEFINE R == Unlocked(ing[Watcher].h)
           w == [txn[Watcher] EXCEPT !.ready = R]
           j == Job("commit", ing[Watcher].h, ing[Watcher].i, ing[Watcher].tip)
<1>0. Watcher \in Ingesters /\ ing \in [Ingesters -> Jobs] /\ txn \in [Ingesters -> Writes]
  BY DEF Ingesters, TypeInv, TypeOK, IngestTypeOK
<1>1. /\ ing'[Watcher].pc = "commit" /\ ing'[Watcher].h = ing[Watcher].h
      /\ \A q \in Ingesters \ {Watcher} : ing'[q] = ing[q] /\ txn'[q] = txn[q]
  BY <1>0 DEF UnlockUnstakes, Job
<1>2. txn'[Watcher].ready = R
  BY <1>0 DEF UnlockUnstakes, Writes
<1>3. UNCHANGED unstakeVars
  BY DEF UnlockUnstakes
<1>4. \A r \in R : /\ unstake_requests[r].status = "PENDING"
                   /\ unstake_requests[r].unlock_height <= ing[Watcher].h
  BY DEF Unlocked
<1> HIDE DEF R
<1>5. NoRefundClash'
  BY <1>2, <1>3, <1>4 DEF RefundInv, NoRefundClash, QueuedOK, unstakeVars
<1>6. ReadyOK'
  BY <1>1, <1>2, <1>3, <1>4 DEF RefundInv, ReadyOK, unstakeVars
<1>7. ReadyHasRefund' /\ QueuedOK'
  BY <1>3 DEF RefundInv, ReadyHasRefund, RefundOf, QueuedOK, unstakeVars
<1> QED
  BY <1>5, <1>6, <1>7 DEF RefundInv

\* The commit makes the requests READY and queues their refunds together.
LEMMA CommitRefund ==
  ASSUME TypeInv, RefundInv, NEW p \in Ingesters, CommitBlock(p)
  PROVE  RefundInv'
<1> DEFINE R == txn[p].ready
<1>0. R \subseteq DOMAIN unstake_requests /\ unstake_requests \in Seq(Request)
  BY DEF TypeInv, TypeOK, DbTypeOK, LocalOK
<1>1. /\ DOMAIN unstake_requests' = DOMAIN unstake_requests
      /\ \A r \in DOMAIN unstake_requests :
           /\ unstake_requests'[r].address = unstake_requests[r].address
           /\ unstake_requests'[r].amount = unstake_requests[r].amount
           /\ unstake_requests'[r].unlock_height = unstake_requests[r].unlock_height
           /\ unstake_requests'[r].status =
                IF r \in R THEN "READY" ELSE unstake_requests[r].status
  BY <1>0, RequestType DEF CommitBlock, Request
<1>2. \A r \in DOMAIN unstake_requests : RefundOf(r)' = RefundOf(r)
  BY <1>1 DEF RefundOf
<1>3. pending_payouts' = pending_payouts \cup {RefundOf(r) : r \in R}
  BY DEF CommitBlock, Enqueued
<1>4. \A r \in R : \A q \in pending_payouts : q.ref # r
  BY DEF RefundInv, NoRefundClash, ReadyOK
<1>5. \A r : RefundOf(r).ref = r
  BY DEF RefundOf
<1> HIDE DEF R
<1>6. ReadyHasRefund'
  BY <1>0, <1>1, <1>2, <1>3, <1>4, <1>5 DEF RefundInv, ReadyHasRefund
<1>7. QueuedOK'
  BY <1>0, <1>1, <1>3, <1>5 DEF RefundInv, QueuedOK
<1>8. /\ txn'[p] = NoWrites /\ ing'[p].pc # "commit"
      /\ \A q \in Ingesters \ {p} : ing'[q] = ing[q] /\ txn'[q] = txn[q]
  BY DEF CommitBlock, TypeInv, TypeOK, IngestTypeOK, Walk, IdleJob, Job
<1>9. NoRefundClash' /\ ReadyOK'
  <2>1. Watcher \in Ingesters /\ txn'[p].ready = {}
    BY <1>8, NoWritesType DEF Ingesters
  <2>2. CASE p = Watcher
    BY <1>8, <2>1, <2>2 DEF RefundInv, NoRefundClash, ReadyOK
  <2>3. CASE p # Watcher
    <3>1. pending_payouts' = pending_payouts
      BY <1>3, <2>3 DEF RefundInv, ReadyOK, R
    <3>2. txn[Watcher].ready \subseteq DOMAIN unstake_requests
      BY <2>1 DEF TypeInv, LocalOK
    <3> QED
      BY <1>1, <1>8, <2>1, <2>3, <3>1, <3>2 DEF RefundInv, NoRefundClash, ReadyOK
  <2> QED
    BY <2>2, <2>3
<1> QED
  BY <1>6, <1>7, <1>9 DEF RefundInv

\* A new request has an id of its own.
LEMMA UnstakeRefund ==
  ASSUME TypeInv, RefundInv, NEW k \in Handlers, UnstakeCommit(k), UNCHANGED ingestVars
  PROVE  RefundInv'
<1>1. PICK q : q.status = "PENDING" /\ unstake_requests' = Append(unstake_requests, q)
  BY DEF UnstakeCommit
<1>2. unstake_requests \in Seq(Request) /\ Watcher \in Ingesters
  BY DEF TypeInv, TypeOK, DbTypeOK, Ingesters
<1>3. /\ DOMAIN unstake_requests' = DOMAIN unstake_requests \cup {Len(unstake_requests) + 1}
      /\ \A r \in DOMAIN unstake_requests : unstake_requests'[r] = unstake_requests[r]
      /\ unstake_requests'[Len(unstake_requests) + 1] = q
      /\ Len(unstake_requests) + 1 \notin DOMAIN unstake_requests
  BY <1>1, <1>2
<1>4. pending_payouts' = pending_payouts /\ ing' = ing /\ txn' = txn
  BY DEF UnstakeCommit, ingestVars
<1>5. \A r \in DOMAIN unstake_requests : RefundOf(r)' = RefundOf(r)
  BY <1>3 DEF RefundOf
<1>6. QueuedOK'
  BY <1>3, <1>4 DEF RefundInv, QueuedOK
<1>7. ReadyHasRefund'
  BY <1>1, <1>3, <1>4, <1>5 DEF RefundInv, ReadyHasRefund, QueuedOK
<1>8. txn[Watcher].ready \subseteq DOMAIN unstake_requests
  BY <1>2 DEF TypeInv, LocalOK
<1>9. NoRefundClash' /\ ReadyOK'
  BY <1>3, <1>4, <1>8 DEF RefundInv, NoRefundClash, ReadyOK
<1> QED
  BY <1>6, <1>7, <1>9 DEF RefundInv

LEMMA CancelRefund ==
  ASSUME TypeInv, RefundInv, NEW k \in Handlers, CancelCommit(k), UNCHANGED ingestVars
  PROVE  RefundInv'
<1> DEFINE c == hand[k].arg
<1>1. c \in DOMAIN unstake_requests /\ unstake_requests \in Seq(Request)
  BY DEF CancelCommit, TypeInv, TypeOK, DbTypeOK, LocalOK
<1>2. unstake_requests' = [unstake_requests EXCEPT ![c].status = "CANCELLED"]
  BY DEF CancelCommit
<1> HIDE DEF c
<1>3. /\ DOMAIN unstake_requests' = DOMAIN unstake_requests
      /\ \A r \in DOMAIN unstake_requests :
           /\ unstake_requests'[r].address = unstake_requests[r].address
           /\ unstake_requests'[r].amount = unstake_requests[r].amount
           /\ unstake_requests'[r].unlock_height = unstake_requests[r].unlock_height
           /\ unstake_requests'[r].status =
                IF r = c THEN "CANCELLED" ELSE unstake_requests[r].status
  BY <1>1, <1>2, RequestType DEF Request
<1>4. pending_payouts' = pending_payouts /\ ing' = ing /\ txn' = txn
  BY DEF CancelCommit, ingestVars
<1>5. \A r \in DOMAIN unstake_requests : RefundOf(r)' = RefundOf(r)
  BY <1>3 DEF RefundOf
<1>6. QueuedOK'
  BY <1>3, <1>4 DEF RefundInv, QueuedOK
<1>7. ReadyHasRefund'
  BY <1>3, <1>4, <1>5 DEF RefundInv, ReadyHasRefund
<1>8. txn[Watcher].ready \subseteq DOMAIN unstake_requests
  BY DEF TypeInv, LocalOK, Ingesters
<1>9. NoRefundClash' /\ ReadyOK'
  BY <1>3, <1>4, <1>8 DEF RefundInv, NoRefundClash, ReadyOK
<1> QED
  BY <1>6, <1>7, <1>9 DEF RefundInv

\* What a handler reads or drops does not touch requests or payouts.
LEMMA ReadingFrame ==
  ASSUME NEW k \in Handlers,
         \/ \E a \in Accounts, m \in UserAmounts : UnstakeLoad(k, a, m)
         \/ \E r \in DOMAIN unstake_requests : CancelLoad(k, r)
         \/ \E a \in Accounts : ClaimLoad(k, a)
         \/ UnstakeHeight(k) \/ CancelLoadStaker(k) \/ CancelHeight(k) \/ ClaimHeight(k)
         \/ ClaimRefused(k) \/ HandlerAbort(k)
  PROVE  UNCHANGED unstakeVars
BY DEF UnstakeLoad, CancelLoad, ClaimLoad, Begin, Goto, ReadHeight, UnstakeHeight,
       CancelLoadStaker, CancelHeight, ClaimHeight, ClaimRefused, HandlerAbort

LEMMA RefundInit == Init => RefundInv
<1> SUFFICES ASSUME Init PROVE RefundInv
  OBVIOUS
<1>1. pending_payouts = {} /\ unstake_requests = <<>> /\ \A p \in Ingesters : txn[p].ready = {}
  BY NoWritesType DEF Init, DbInit, IngestInit
<1> QED
  BY <1>1 DEF RefundInv, NoRefundClash, ReadyHasRefund, QueuedOK, ReadyOK, Ingesters

LEMMA RefundNext == TypeInv /\ RefundInv /\ [Next]_vars => RefundInv'
<1> SUFFICES ASSUME TypeInv, RefundInv, [Next]_vars PROVE RefundInv'
  OBVIOUS
<1>1. CASE IngestNext
  <2>1. ASSUME NEW p \in Ingesters, IngestStep(p) PROVE RefundInv'
    BY <2>1, TxRefund, CommitRefund, AbandonRefund DEF IngestStep
  <2>2. CASE WatcherStep
    BY <2>1, <2>2, LoopsRefund, UnlockRefund DEF WatcherStep, Ingesters
  <2>3. ASSUME NEW s \in Snapshots, SnapshotStep(s) PROVE RefundInv'
    BY <2>1, <2>3, LoopsRefund DEF SnapshotStep, Ingesters
  <2>4. ASSUME NEW b \in Blocks, Mine(b) PROVE RefundInv'
    BY <2>4, RefundFrame DEF Mine, ingestVars
  <2> QED
    BY <1>1, <2>2, <2>3, <2>4, LoopsRefund, AbandonRefund DEF IngestNext, IngestWork
<1>2. CASE ApiNext /\ UNCHANGED ingestVars
  BY <1>2, UnstakeRefund, CancelRefund, ReadingFrame, RefundFrame
  DEF ApiNext, HandlerStep, ingestVars
<1>3. CASE UNCHANGED vars
  BY <1>3, RefundFrame DEF vars, ingestVars
<1> QED
  BY <1>1, <1>2, <1>3 DEF Next

LEMMA RefundInvHolds == Spec => [](TypeInv /\ RefundInv)
BY InitType, NextType, RefundInit, RefundNext, PTL DEF Spec

\* enqueue_payout: the watcher never enqueues a ref that has a payout, so the
\* branch that would roll its block back is not reached.
THEOREM RefundsNeverClash == Spec => []NoRefundClash
<1>1. RefundInv => NoRefundClash
  BY DEF RefundInv
<1> QED
  BY <1>1, RefundInvHolds, PTL

\* process_unlocked_unstakes: READY and the refund come together, and a
\* request has one refund at most, over its own amount.
THEOREM OneRefundEach == Spec => []ReadyHasRefund
<1>1. RefundInv => ReadyHasRefund
  BY DEF RefundInv
<1> QED
  BY <1>1, RefundInvHolds, PTL

-----------------------------------------------------------------------------
(* The cooldown *)

\* Only the commit of a block adds to the queue.
LEMMA QueueFrame ==
  ASSUME [Next]_vars, \A p \in Ingesters : ~CommitBlock(p)
  PROVE  pending_payouts' = pending_payouts
<1>1. CASE IngestNext
  BY <1>1 DEF IngestNext, IngestWork, Mine, WatcherStep, SnapshotStep, IngestStep, ReadTip, Fail, Abandon,
     WatcherTick, UnlockUnstakes, SnapshotStart, SnapshotRefresh, SnapshotComplete, NextTx,
     IgnoreTx, RecordEvent, DuplicateEvent, CreditRewards, IntegrityAbort, unstakeVars, Ingesters
<1>2. CASE ApiNext
  BY <1>2, ReadingFrame DEF ApiNext, HandlerStep, UnstakeCommit, CancelCommit, unstakeVars
<1>3. CASE UNCHANGED vars
  BY <1>3 DEF vars, unstakeVars
<1> QED
  BY <1>1, <1>2, <1>3 DEF Next

LEMMA CooldownStep ==
  TypeInv /\ RefundInv /\ [Next]_vars =>
    [\A q \in pending_payouts' \ pending_payouts :
       watcher_state'.last_processed_height >= unstake_requests[q.ref].unlock_height]_vars
<1> SUFFICES ASSUME TypeInv, RefundInv, [Next]_vars, NEW q \in pending_payouts' \ pending_payouts
             PROVE  watcher_state'.last_processed_height >= unstake_requests[q.ref].unlock_height
  OBVIOUS
<1>1. PICK p \in Ingesters : CommitBlock(p)
  BY QueueFrame
<1>2. PICK r \in txn[p].ready : q = RefundOf(r)
  BY <1>1 DEF CommitBlock, Enqueued
<1>3. p = Watcher
  BY <1>2 DEF RefundInv, ReadyOK
<1>4. q.ref = r /\ unstake_requests[r].unlock_height <= ing[p].h
  BY <1>2, <1>3 DEF RefundOf, RefundInv, ReadyOK
<1>5. watcher_state'.last_processed_height = ing[p].h /\ ing[p].h \in Nat
  BY <1>1, OwnJob DEF CommitBlock, TypeInv, TypeOK, DbTypeOK
<1>6. unstake_requests[r].unlock_height \in Nat
  BY <1>2, RequestType DEF TypeInv, LocalOK, Request
<1> QED
  BY <1>4, <1>5, <1>6

\* process_unlocked_unstakes: no refund enters the queue before the ledger has
\* reached the unlock_height of its request.
THEOREM CooldownRespected == Spec => RefundAfterCooldown
BY RefundInvHolds, CooldownStep, PTL DEF RefundAfterCooldown, Spec
=============================================================================

---------------------------- MODULE IngestProofs ----------------------------
(***************************************************************************)
(* Block atomicity and resumption, for any number of ingesters and blocks. *)
(***************************************************************************)
EXTENDS StakeLedgerProofs

\* The loop at transaction i of block h has written what the transactions
\* before it call for.
Written(h, i, w) ==
  \A n \in 1..(i - 1) :
    /\ Recordable(chain[h + 1][n]) => EventOf(chain[h + 1][n], h, n) \in w.events
    /\ IsInflow(chain[h + 1][n]) => InflowRecorded(h) \/ w.inflows # {}

\* An ingester with job j and uncommitted writes w: it has left no block out;
\* its writes are rows of its block, and either all that the transactions so
\* far call for or rows of a block that is in the ledger already.
SessionOK(j, w) ==
  /\ j.pc \in Active =>
       /\ \A g \in 0..(j.h - 1) : BlockRecorded(g)
       /\ w.events \subseteq Keys(j.h)
       /\ \A f \in w.inflows : f.block_height = j.h
       /\ BlockRecorded(j.h) \/ Written(j.h, j.i, w)
  /\ j.pc \notin Active => w.events = {} /\ w.inflows = {}
  /\ j.pc = "commit" => j.i > Len(chain[j.h + 1])
  /\ j.pc \in {"refresh", "finish"} => \A g \in 0..j.tip : BlockRecorded(g)

\* The tables know only heights of the chain.
KnownHeights ==
  /\ last <= Tip
  /\ \A e \in stake_events : e.tx_hash[1] \in 0..Tip
  /\ \A f \in reward_pool_inflows : f.block_height \in 0..Tip

IngestInv ==
  /\ BlockAtomic /\ NoBlockSkipped /\ KnownHeights
  /\ \A p \in Ingesters : SessionOK(ing[p], txn[p])

-----------------------------------------------------------------------------
(* Blocks and their rows *)

\* The rows of a block carry its height.
LEMMA KeysHeight ==
  ASSUME NEW h, NEW e \in Keys(h)
  PROVE  e.tx_hash[1] = h
BY DEF Keys, EventOf

\* An event and an inflow are never the same transaction.
LEMMA InflowNotEvent == \A tx : ~(Recordable(tx) /\ IsInflow(tx))
BY DEF Recordable, IsStake, IsUnstake

\* The blocks stay as they are while the chain does.
LEMMA SameBlock ==
  ASSUME NEW h, chain' = chain
  PROVE  Keys(h)' = Keys(h) /\ HasInflow(h)' = HasInflow(h)
BY DEF Keys, HasInflow

\* What is in the ledger stays there.
LEMMA RecordedStays ==
  ASSUME NEW h, chain' = chain, stake_events \subseteq stake_events',
         reward_pool_inflows \subseteq reward_pool_inflows', BlockRecorded(h)
  PROVE  BlockRecorded(h)'
BY SameBlock DEF BlockRecorded, InflowRecorded

\* No writes, and nothing to show for them.
LEMMA NoneWritten == NoWrites.events = {} /\ NoWrites.inflows = {}
BY DEF NoWrites

\* An ingester that moves to a sound job with sound writes is sound, when the
\* ledger does not change or grows.
LEMMA SessionMoves ==
  ASSUME NEW p \in Ingesters, NEW j, NEW w, SessionOK(j, w), ing'[p] = j, txn'[p] = w,
         chain' = chain, stake_events \subseteq stake_events',
         reward_pool_inflows \subseteq reward_pool_inflows'
  PROVE  SessionOK(ing[p], txn[p])'
<1>1. \A h : BlockRecorded(h) => BlockRecorded(h)'
  BY RecordedStays
<1>2. \A h, i : Written(h, i, w) => Written(h, i, txn[p])'
  BY DEF Written, InflowRecorded
<1>3. \A h : Keys(h)' = Keys(h)
  BY SameBlock
<1> QED
  BY <1>1, <1>2, <1>3 DEF SessionOK

\* The other ingesters stay sound when one moves.
LEMMA OthersStay ==
  ASSUME TypeInv, IngestInv, NEW p \in Ingesters, NEW j, NEW w,
         ing' = [ing EXCEPT ![p] = j], txn' = [txn EXCEPT ![p] = w],
         chain' = chain, stake_events \subseteq stake_events',
         reward_pool_inflows \subseteq reward_pool_inflows'
  PROVE  /\ \A q \in Ingesters \ {p} : SessionOK(ing[q], txn[q])'
         /\ ing'[p] = j /\ txn'[p] = w
<1>1. ing \in [Ingesters -> Jobs] /\ txn \in [Ingesters -> Writes]
  BY DEF TypeInv, TypeOK, IngestTypeOK
<1>2. ASSUME NEW q \in Ingesters \ {p} PROVE SessionOK(ing[q], txn[q])'
  <2>1. SessionOK(ing[q], txn[q]) /\ ing'[q] = ing[q] /\ txn'[q] = txn[q]
    BY <1>1 DEF IngestInv
  <2> QED
    BY <2>1, SessionMoves
<1> QED
  BY <1>1, <1>2

\* A step of one ingester that leaves the ledger and the chain alone.
LEMMA OneMoves ==
  ASSUME TypeInv, IngestInv, NEW p \in Ingesters, NEW j, NEW w, SessionOK(j, w),
         ing' = [ing EXCEPT ![p] = j], txn' = [txn EXCEPT ![p] = w],
         UNCHANGED <<chain, stake_events, reward_pool_inflows>>
  PROVE  \A q \in Ingesters : SessionOK(ing[q], txn[q])'
<1>1. SessionOK(ing[p], txn[p])'
  BY OthersStay, SessionMoves
<1> QED
  BY <1>1, OthersStay

LEMMA SameLedger ==
  ASSUME IngestInv, UNCHANGED <<chain, watcher_state, stake_events, reward_pool_inflows>>
  PROVE  (BlockAtomic /\ NoBlockSkipped /\ KnownHeights)'
BY SameBlock DEF IngestInv, BlockAtomic, NoBlockSkipped, KnownHeights, BlockRecorded,
                 BlockUntouched, InflowRecorded, Tip, last, complete

LEMMA QuietStep ==
  ASSUME TypeInv, IngestInv, NEW p \in Ingesters, NEW j, NEW w, SessionOK(j, w),
         ing' = [ing EXCEPT ![p] = j], txn' = [txn EXCEPT ![p] = w],
         UNCHANGED <<chain, watcher_state, stake_events, reward_pool_inflows>>
  PROVE  IngestInv'
<1>1. \A q \in Ingesters : SessionOK(ing[q], txn[q])'
  BY OneMoves
<1> QED
  BY <1>1, SameLedger DEF IngestInv

\* Every block up to last_processed_height is recorded once the row counts.
LEMMA LastRecorded ==
  ASSUME TypeInv, IngestInv, last > 0 \/ complete
  PROVE  \A g \in 0..last : BlockRecorded(g)
BY TipType DEF IngestInv, NoBlockSkipped, KnownHeights

\* A walk may begin behind recorded blocks, with an empty session.
LEMMA WalkSound ==
  ASSUME NEW h \in Nat, NEW t, NEW w, w.events = {}, w.inflows = {},
         \A g \in 0..(h - 1) : BlockRecorded(g)
  PROVE  SessionOK(Walk(h, t), w)
<1>1. Written(h, 1, w)
  BY DEF Written
<1> QED
  BY <1>1 DEF SessionOK, Walk, Job, Active

\* The jobs outside a block, with an empty session.
LEMMA RestSound ==
  ASSUME NEW pc \in {"idle", "start", "refresh", "finish"}, NEW t, NEW w,
         w.events = {}, w.inflows = {},
         pc \in {"refresh", "finish"} => \A g \in 0..t : BlockRecorded(g)
  PROVE  SessionOK(Job(pc, 0, 1, t), w)
BY DEF SessionOK, Job, Active

\* An ingester outside a block has written nothing.
LEMMA RestWrites ==
  ASSUME IngestInv, NEW p \in Ingesters, ing[p].pc \notin Active
  PROVE  txn[p].events = {} /\ txn[p].inflows = {}
BY DEF IngestInv, SessionOK

\* The session of p stays as it is.
LEMMA SameTxn ==
  ASSUME TypeInv, NEW p \in Ingesters, txn' = txn
  PROVE  txn' = [txn EXCEPT ![p] = txn[p]]
BY DEF TypeInv, TypeOK, IngestTypeOK

LEMMA ReadTipInv ==
  ASSUME TypeInv, IngestInv, NEW p \in Ingesters, ReadTip(p)
  PROVE  IngestInv'
<1>1. ing[p].pc = "idle"
  BY DEF ReadTip
<1>2. SessionOK(Job("start", 0, 1, Tip), txn[p])
  BY <1>1, RestWrites, RestSound DEF Active
<1> QED
  BY <1>2, SameTxn, QuietStep DEF ReadTip, ledgerVars

LEMMA WatcherTickInv ==
  ASSUME TypeInv, IngestInv, WatcherTick
  PROVE  IngestInv'
<1>0. Watcher \in Ingesters
  BY DEF Ingesters
<1>1. txn[Watcher].events = {} /\ txn[Watcher].inflows = {}
  BY <1>0, RestWrites DEF WatcherTick, Active
<1>2. complete => SessionOK(Walk(last + 1, ing[Watcher].tip), txn[Watcher])
  BY <1>1, LastRecorded, WalkSound, TipType
<1>3. SessionOK(IdleJob, txn[Watcher])
  BY <1>1, RestSound DEF IdleJob
<1> DEFINE j == IF complete /\ last < ing[Watcher].tip
                THEN Walk(last + 1, ing[Watcher].tip) ELSE IdleJob
<1>4. SessionOK(j, txn[Watcher])
  BY <1>2, <1>3
<1>5. ing' = [ing EXCEPT ![Watcher] = j]
  BY DEF WatcherTick
<1> HIDE DEF j
<1> QED
  BY <1>0, <1>4, <1>5, SameTxn, QuietStep DEF WatcherTick, ledgerVars

LEMMA SnapshotStartInv ==
  ASSUME TypeInv, IngestInv, NEW s \in Snapshots, SnapshotStart(s)
  PROVE  IngestInv'
<1>0. s \in Ingesters /\ ing[s].tip \in Nat
  BY OwnJob DEF Ingesters
<1>1. txn[s].events = {} /\ txn[s].inflows = {}
  BY <1>0, RestWrites DEF SnapshotStart, Active
<1>2. StartHeight \in Nat /\ \A g \in 0..(StartHeight - 1) : BlockRecorded(g)
  <2>1. CASE last > 0
    BY <2>1, LastRecorded, TipType DEF StartHeight
  <2>2. CASE ~(last > 0)
    BY <2>2 DEF StartHeight
  <2> QED
    BY <2>1, <2>2
<1>3. SessionOK(Walk(StartHeight, ing[s].tip), txn[s])
  BY <1>1, <1>2, WalkSound
<1>4. ~(StartHeight <= ing[s].tip) => SessionOK(Job("finish", 0, 1, ing[s].tip), txn[s])
  BY <1>0, <1>1, <1>2, RestSound
<1> DEFINE j == IF StartHeight <= ing[s].tip THEN Walk(StartHeight, ing[s].tip)
                ELSE Job("finish", 0, 1, ing[s].tip)
<1>5. SessionOK(j, txn[s])
  BY <1>3, <1>4
<1>6. ing' = [ing EXCEPT ![s] = j]
  BY DEF SnapshotStart
<1> HIDE DEF j
<1> QED
  BY <1>0, <1>5, <1>6, SameTxn, QuietStep DEF SnapshotStart, ledgerVars

LEMMA SnapshotRefreshInv ==
  ASSUME TypeInv, IngestInv, NEW s \in Snapshots, SnapshotRefresh(s)
  PROVE  IngestInv'
<1>0. s \in Ingesters /\ ing[s].tip \in Nat
  BY OwnJob DEF Ingesters
<1>1. txn[s].events = {} /\ txn[s].inflows = {}
  BY <1>0, RestWrites DEF SnapshotRefresh, Active
<1>2. \A g \in 0..ing[s].tip : BlockRecorded(g)
  BY <1>0 DEF SnapshotRefresh, IngestInv, SessionOK
<1>3. SessionOK(Walk(ing[s].tip + 1, Tip), txn[s])
  BY <1>0, <1>1, <1>2, WalkSound
<1>4. SessionOK(Job("finish", 0, 1, ing[s].tip), txn[s])
  BY <1>1, <1>2, RestSound
<1> DEFINE j == IF Tip > ing[s].tip THEN Walk(ing[s].tip + 1, Tip)
                ELSE Job("finish", 0, 1, ing[s].tip)
<1>5. SessionOK(j, txn[s])
  BY <1>3, <1>4
<1>6. ing' = [ing EXCEPT ![s] = j]
  BY DEF SnapshotRefresh
<1> HIDE DEF j
<1> QED
  BY <1>0, <1>5, <1>6, SameTxn, QuietStep DEF SnapshotRefresh, ledgerVars

LEMMA SnapshotCompleteInv ==
  ASSUME TypeInv, IngestInv, NEW s \in Snapshots, SnapshotComplete(s)
  PROVE  IngestInv'
<1>0. s \in Ingesters /\ ing[s].tip \in Nat /\ last \in Nat
  BY OwnJob, TipType DEF Ingesters
<1>1. txn[s].events = {} /\ txn[s].inflows = {}
  BY <1>0, RestWrites DEF SnapshotComplete, Active
<1>2. SessionOK(IdleJob, txn[s])
  BY <1>1, RestSound DEF IdleJob
<1>3. \A q \in Ingesters : SessionOK(ing[q], txn[q])'
  BY <1>0, <1>2, SameTxn, OneMoves DEF SnapshotComplete, ledgerVars
<1>4. BlockRecorded(0)
  BY <1>0 DEF SnapshotComplete, IngestInv, SessionOK
<1>5. last' = last /\ Tip' = Tip
  BY DEF SnapshotComplete, last, Tip, TypeInv, TypeOK, DbTypeOK
<1>6. \A h : BlockRecorded(h)' = BlockRecorded(h) /\ BlockUntouched(h)' = BlockUntouched(h)
  BY SameBlock DEF SnapshotComplete, ledgerVars, BlockRecorded, BlockUntouched,
                   InflowRecorded
<1>7. BlockAtomic' /\ KnownHeights'
  BY <1>5, <1>6 DEF IngestInv, BlockAtomic, KnownHeights, SnapshotComplete, ledgerVars
<1>8. \A g \in 0..last : BlockRecorded(g)
  BY <1>0, <1>4, LastRecorded
<1>9. NoBlockSkipped'
  BY <1>0, <1>5, <1>6, <1>8, TipType DEF NoBlockSkipped
<1> QED
  BY <1>3, <1>7, <1>9 DEF IngestInv

-----------------------------------------------------------------------------
(* The transactions of a block *)

\* What IngestInv says of an ingester in a block.
LEMMA InBlock ==
  ASSUME TypeInv, IngestInv, NEW p \in Ingesters, ing[p].pc \in Active
  PROVE  /\ \A g \in 0..(ing[p].h - 1) : BlockRecorded(g)
         /\ txn[p].events \subseteq Keys(ing[p].h)
         /\ \A f \in txn[p].inflows : f.block_height = ing[p].h
         /\ BlockRecorded(ing[p].h) \/ Written(ing[p].h, ing[p].i, txn[p])
         /\ ing[p].pc = "commit" => ing[p].i > Len(BlockOf(p))
BY DEF IngestInv, SessionOK, BlockOf

\* After a transaction: the writes have grown by what it calls for, or the
\* block is in the ledger.
LEMMA TxStepInv ==
  ASSUME TypeInv, IngestInv, NEW p \in Ingesters, HasTx(p), NextTx(p),
         NEW w, txn' = [txn EXCEPT ![p] = w],
         w.events \subseteq Keys(ing[p].h),
         \A f \in w.inflows : f.block_height = ing[p].h,
         \/ BlockRecorded(ing[p].h)
         \/ /\ txn[p].events \subseteq w.events /\ txn[p].inflows \subseteq w.inflows
            /\ Recordable(TxOf(p)) => CurEvent(p) \in w.events
            /\ IsInflow(TxOf(p)) => InflowRecorded(ing[p].h) \/ w.inflows # {}
  PROVE  IngestInv'
<1> DEFINE j == Job("apply", ing[p].h, ing[p].i + 1, ing[p].tip)
<1>1. ing[p].pc \in Active /\ ing[p].i \in Nat /\ ing[p].h \in Nat /\ ing[p].i >= 1
  BY OwnJob DEF HasTx, Active
<1>2. ~BlockRecorded(ing[p].h) => Written(ing[p].h, ing[p].i + 1, w)
  <2>1. SUFFICES ASSUME ~BlockRecorded(ing[p].h), NEW n \in 1..ing[p].i
                 PROVE  /\ Recordable(chain[ing[p].h + 1][n]) =>
                             EventOf(chain[ing[p].h + 1][n], ing[p].h, n) \in w.events
                        /\ IsInflow(chain[ing[p].h + 1][n]) =>
                             InflowRecorded(ing[p].h) \/ w.inflows # {}
    BY <1>1 DEF Written
  <2>2. CASE n = ing[p].i
    BY <2>1, <2>2 DEF TxOf, CurEvent, BlockOf
  <2>3. CASE n # ing[p].i
    <3>1. Written(ing[p].h, ing[p].i, txn[p]) /\ n \in 1..(ing[p].i - 1)
      BY <1>1, <2>1, <2>3, InBlock
    <3> QED
      BY <2>1, <3>1 DEF Written
  <2> QED
    BY <2>2, <2>3
<1>3. SessionOK(j, w)
  BY <1>1, <1>2, InBlock DEF SessionOK, Job, Active
<1>4. ing' = [ing EXCEPT ![p] = j]
  BY DEF NextTx
<1> HIDE DEF j
<1> QED
  BY <1>3, <1>4, QuietStep DEF NextTx, ledgerVars

\* The row of the current transaction is one of its block.
LEMMA CurEventKey ==
  ASSUME TypeInv, NEW p \in Ingesters, HasTx(p), Recordable(TxOf(p))
  PROVE  CurEvent(p) \in Keys(ing[p].h)
<1>1. ing[p].i \in DOMAIN BlockOf(p)
  BY TxOfType DEF HasTx, Active
<1> QED
  BY <1>1 DEF Keys, CurEvent, TxOf, BlockOf

LEMMA RecordEventInv ==
  ASSUME TypeInv, IngestInv, NEW p \in Ingesters, RecordEvent(p)
  PROVE  IngestInv'
<1> DEFINE w == EventWrites(p, CurEvent(p))
<1>1. HasTx(p) /\ Recordable(TxOf(p)) /\ NextTx(p) /\ txn' = [txn EXCEPT ![p] = w]
  BY DEF RecordEvent
<1>2. ing[p].pc \in Active
  BY <1>1 DEF HasTx, Active
<1>3. w.events = txn[p].events \cup {CurEvent(p)} /\ w.inflows = txn[p].inflows
  BY <1>1, <1>2, TxOfType, EventWritesType
<1>4. ~IsInflow(TxOf(p))
  BY <1>1, InflowNotEvent
<1> HIDE DEF w
<1>5. w.events \subseteq Keys(ing[p].h) /\ \A f \in w.inflows : f.block_height = ing[p].h
  BY <1>1, <1>2, <1>3, InBlock, CurEventKey
<1> QED
  BY <1>1, <1>3, <1>4, <1>5, TxStepInv

LEMMA CreditRewardsInv ==
  ASSUME TypeInv, IngestInv, NEW p \in Ingesters, CreditRewards(p)
  PROVE  IngestInv'
<1> DEFINE stake == [a \in Addrs |-> AmountSeen(p, a)]
           w == RewardWrites(p, TxOf(p).amount, stake)
           row == InflowRow(ing[p].h, TxOf(p).amount, stake)
<1>1. HasTx(p) /\ IsInflow(TxOf(p)) /\ NextTx(p) /\ txn' = [txn EXCEPT ![p] = w]
  BY DEF CreditRewards
<1>2. ing[p].pc \in Active
  BY <1>1 DEF HasTx, Active
<1>3. w.events = txn[p].events /\ w.inflows = txn[p].inflows \cup {row}
  BY <1>1, InflowType, RewardWritesType
<1>4. row.block_height = ing[p].h
  BY DEF InflowRow
<1>5. ~Recordable(TxOf(p))
  BY <1>1, InflowNotEvent
<1> HIDE DEF w, row
<1> QED
  BY <1>1, <1>2, <1>3, <1>4, <1>5, InBlock, TxStepInv

LEMMA IgnoreTxInv ==
  ASSUME TypeInv, IngestInv, NEW p \in Ingesters, IgnoreTx(p)
  PROVE  IngestInv'
<1>1. ing[p].pc \in Active
  BY DEF IgnoreTx, HasTx, Active
<1>2. IsInflow(TxOf(p)) => InflowRecorded(ing[p].h) \/ txn[p].inflows # {}
  BY DEF IgnoreTx, InflowDone, InflowRecorded
<1> QED
  BY <1>1, <1>2, InBlock, SameTxn, TxStepInv DEF IgnoreTx

\* The row that clashes shows that the other ingester has committed the block,
\* all of it: dropping this session's rows loses nothing.
LEMMA DuplicateEventInv ==
  ASSUME TypeInv, IngestInv, NEW p \in Ingesters, DuplicateEvent(p)
  PROVE  IngestInv'
<1>1. ing[p].pc \in Active /\ HasTx(p) /\ NextTx(p) /\ CurEvent(p) \in stake_events
      /\ txn' = [txn EXCEPT ![p] = NoWrites]
  BY DEF DuplicateEvent, HasTx, Active
<1>2. CurEvent(p) \in Keys(ing[p].h)
  BY <1>1, CurEventKey DEF DuplicateEvent
<1>3. ~BlockUntouched(ing[p].h)
  BY <1>1, <1>2 DEF BlockUntouched
<1>4. BlockRecorded(ing[p].h)
  BY <1>1, <1>3, TxOfType DEF IngestInv, BlockAtomic
<1> QED
  BY <1>1, <1>4, NoneWritten, TxStepInv

LEMMA AbandonInv ==
  ASSUME TypeInv, IngestInv, NEW p \in Ingesters, IntegrityAbort(p) \/ Fail(p)
  PROVE  IngestInv'
<1>1. Abandon(p)
  BY DEF IntegrityAbort, Fail
<1>2. SessionOK(IdleJob, NoWrites)
  BY NoneWritten, RestSound DEF IdleJob
<1> QED
  BY <1>1, <1>2, QuietStep DEF Abandon, ledgerVars

LEMMA UnlockUnstakesInv ==
  ASSUME TypeInv, IngestInv, UnlockUnstakes
  PROVE  IngestInv'
<1> DEFINE w == [txn[Watcher] EXCEPT !.ready = Unlocked(ing[Watcher].h)]
           j == Job("commit", ing[Watcher].h, ing[Watcher].i, ing[Watcher].tip)
<1>0. Watcher \in Ingesters /\ AllTxsDone(Watcher) /\ ing[Watcher].pc \in Active
  BY DEF Ingesters, UnlockUnstakes, AllTxsDone, Active
<1>1. w.events = txn[Watcher].events /\ w.inflows = txn[Watcher].inflows
  BY <1>0, OwnWrites DEF Writes
<1>2. Written(ing[Watcher].h, ing[Watcher].i, txn[Watcher]) =>
        Written(ing[Watcher].h, ing[Watcher].i, w)
  BY <1>1 DEF Written
<1>3. txn' = [txn EXCEPT ![Watcher] = w] /\ ing' = [ing EXCEPT ![Watcher] = j]
  BY DEF UnlockUnstakes
<1> HIDE DEF w
<1>4. SessionOK(j, w)
  BY <1>0, <1>1, <1>2, InBlock DEF SessionOK, Job, Active, AllTxsDone, BlockOf
<1> HIDE DEF j
<1> QED
  BY <1>0, <1>3, <1>4, QuietStep DEF UnlockUnstakes, ledgerVars

-----------------------------------------------------------------------------
(* The commit of a block *)

\* At the commit the session holds the whole block, or the ledger does.
LEMMA BlockComplete ==
  ASSUME TypeInv, IngestInv, NEW p \in Ingesters, AtCommit(p), ~BlockRecorded(ing[p].h)
  PROVE  /\ Keys(ing[p].h) \subseteq txn[p].events
         /\ HasInflow(ing[p].h) => InflowRecorded(ing[p].h) \/ txn[p].inflows # {}
<1>1. ing[p].pc \in Active
  BY DEF AtCommit, AllTxsDone, Active
<1>2. Written(ing[p].h, ing[p].i, txn[p])
  BY <1>1, InBlock
<1>3. ing[p].i > Len(BlockOf(p)) /\ ing[p].i \in Nat
  BY <1>1, InBlock, OwnJob DEF AtCommit, AllTxsDone
<1>4. BlockOf(p) \in Seq(Tx) /\ BlockOf(p) = chain[ing[p].h + 1]
  BY <1>1, TxOfType DEF BlockOf
<1>5. DOMAIN chain[ing[p].h + 1] \subseteq 1..(ing[p].i - 1)
  BY <1>3, <1>4
<1>6. Keys(ing[p].h) \subseteq txn[p].events
  BY <1>2, <1>5 DEF Written, Keys
<1>7. HasInflow(ing[p].h) => InflowRecorded(ing[p].h) \/ txn[p].inflows # {}
  BY <1>2, <1>5 DEF Written, HasInflow
<1> QED
  BY <1>6, <1>7

LEMMA CommitBlockInv ==
  ASSUME TypeInv, IngestInv, NEW p \in Ingesters, CommitBlock(p)
  PROVE  IngestInv'
<1> PICK h : h = ing[p].h
  OBVIOUS
<1>0. /\ AtCommit(p) /\ ing[p].pc \in Active /\ chain' = chain
      /\ stake_events' = stake_events \cup txn[p].events
      /\ reward_pool_inflows' = reward_pool_inflows \cup txn[p].inflows
  BY DEF CommitBlock, AtCommit, AllTxsDone, Active
<1>1. h \in 0..Tip /\ Tip \in Nat /\ Tip' = Tip
  BY <1>0, TxOfType, TipType DEF Tip
<1>2. last' = h /\ complete' = complete
  BY DEF CommitBlock, last, complete, TypeInv, TypeOK, DbTypeOK
<1>3. \A g : BlockRecorded(g) => BlockRecorded(g)'
  BY <1>0, RecordedStays
<1>4. BlockRecorded(h)'
  <2>1. CASE BlockRecorded(h)
    BY <1>3, <2>1
  <2>2. CASE ~BlockRecorded(h)
    <3>1. Keys(h) \subseteq stake_events'
      BY <1>0, <2>2, BlockComplete
    <3>2. \A f \in txn[p].inflows : f.block_height = h
      BY <1>0, InBlock
    <3>3. HasInflow(h) => InflowRecorded(h)'
      BY <1>0, <2>2, <3>2, BlockComplete DEF InflowRecorded
    <3> QED
      BY <1>0, <3>1, <3>3, SameBlock DEF BlockRecorded
  <2> QED
    BY <2>1, <2>2
<1>5. \A g \in 0..h : BlockRecorded(g)'
  <2>1. \A g \in 0..(h - 1) : BlockRecorded(g)
    BY <1>0, InBlock
  <2> QED
    BY <1>1, <1>3, <1>4, <2>1
<1>6. \A g \in 0..Tip : g # h /\ BlockUntouched(g) => BlockUntouched(g)'
  <2> SUFFICES ASSUME NEW g \in 0..Tip, g # h, BlockUntouched(g) PROVE BlockUntouched(g)'
    OBVIOUS
  <2>1. \A e \in txn[p].events : e.tx_hash[1] = h
    BY <1>0, InBlock, KeysHeight
  <2>2. Keys(g) \cap stake_events' = {}
    BY <1>0, <2>1, KeysHeight DEF BlockUntouched
  <2>3. ~InflowRecorded(g)'
    BY <1>0, InBlock DEF BlockUntouched, InflowRecorded
  <2> QED
    BY <1>0, <2>2, <2>3, SameBlock DEF BlockUntouched
<1>7. BlockAtomic'
  BY <1>1, <1>3, <1>4, <1>6 DEF IngestInv, BlockAtomic
<1>8. NoBlockSkipped'
  BY <1>1, <1>2, <1>5 DEF NoBlockSkipped
<1>9. KnownHeights'
  <2>1. \A e \in txn[p].events : e.tx_hash[1] = h
    BY <1>0, InBlock, KeysHeight
  <2>2. \A f \in txn[p].inflows : f.block_height = h
    BY <1>0, InBlock
  <2> QED
    BY <1>0, <1>1, <1>2, <2>1, <2>2 DEF IngestInv, KnownHeights
<1>10. /\ \A q \in Ingesters \ {p} : SessionOK(ing[q], txn[q])'
       /\ ing'[p] = IF h < ing[p].tip THEN Walk(h + 1, ing[p].tip)
                    ELSE IF p = Watcher THEN IdleJob ELSE Job("refresh", 0, 1, ing[p].tip)
       /\ txn'[p] = NoWrites
  BY <1>0, OthersStay DEF CommitBlock
<1>11. SessionOK(ing[p], txn[p])'
  <2>1. ing[p].tip \in Nat /\ h \in Nat /\ h <= ing[p].tip
    BY <1>0, OwnJob
  <2>2. CASE h < ing[p].tip
    <3>1. ing'[p] = Walk(h + 1, ing[p].tip)
      BY <1>10, <2>2
    <3>2. Written(h + 1, 1, txn[p])'
      BY DEF Written
    <3>3. ing'[p].pc = "apply" /\ ing'[p].h = h + 1 /\ ing'[p].i = 1
      BY <3>1 DEF Walk, Job
    <3>4. Written(ing[p].h, ing[p].i, txn[p])'
      BY <3>2, <3>3 DEF Written
    <3>5. ing'[p].h - 1 = h
      BY <2>1, <3>3
    <3>6. txn'[p].events = {} /\ txn'[p].inflows = {}
      BY <1>10, NoneWritten
    <3> QED
      BY <1>5, <3>3, <3>4, <3>5, <3>6 DEF SessionOK, Active
  <2>3. CASE ~(h < ing[p].tip) /\ p = Watcher
    <3>1. ing'[p] = IdleJob
      BY <1>10, <2>3
    <3> QED
      BY <1>10, <3>1, NoneWritten DEF SessionOK, IdleJob, Job, Active
  <2>4. CASE ~(h < ing[p].tip) /\ p # Watcher
    <3>1. ing'[p] = Job("refresh", 0, 1, ing[p].tip)
      BY <1>10, <2>4
    <3>2. \A g \in 0..ing[p].tip : BlockRecorded(g)'
      BY <1>5, <2>1, <2>4
    <3> QED
      BY <1>10, <3>1, <3>2, NoneWritten DEF SessionOK, Job, Active
  <2> QED
    BY <2>2, <2>3, <2>4
<1> QED
  BY <1>7, <1>8, <1>9, <1>10, <1>11 DEF IngestInv

-----------------------------------------------------------------------------
(* The other steps *)

\* A new block has no rows yet, and the old ones are what they were.
LEMMA MineInv ==
  ASSUME TypeInv, IngestInv, NEW b \in Blocks, Mine(b)
  PROVE  IngestInv'
<1> PICK t : t = Tip + 1
  OBVIOUS
<1>0. /\ chain \in Seq(Seq(Tx)) /\ b \in Seq(Tx) /\ chain' = Append(chain, b)
      /\ UNCHANGED <<watcher_state, stake_events, reward_pool_inflows, ing, txn>>
  BY BlockAssumption DEF Mine, TypeInv, TypeOK, DbTypeOK, ledgerVars, ingestVars
<1>1. Tip \in Nat /\ Tip' = Tip + 1
  BY <1>0, TipType, AppendProperties DEF Tip
<1>2. \A g \in 0..Tip : chain'[g + 1] = chain[g + 1]
  BY <1>0, <1>1, AppendProperties DEF Tip
<1>3. \A g \in 0..Tip : /\ BlockRecorded(g)' = BlockRecorded(g)
                        /\ BlockUntouched(g)' = BlockUntouched(g)
                        /\ Keys(g)' = Keys(g)
  <2> TAKE g \in 0..Tip
  <2>1. Keys(g)' = Keys(g) /\ HasInflow(g)' = HasInflow(g)
    BY <1>2 DEF Keys, HasInflow
  <2> QED
    BY <1>0, <2>1 DEF BlockRecorded, BlockUntouched, InflowRecorded
<1>4. BlockUntouched(t)'
  <2>1. \A e \in stake_events : e.tx_hash[1] # t
    BY <1>1 DEF IngestInv, KnownHeights
  <2>2. \A f \in reward_pool_inflows : f.block_height # t
    BY <1>1 DEF IngestInv, KnownHeights
  <2>3. \A e \in Keys(t)' : e.tx_hash[1] = t
    BY DEF Keys, EventOf
  <2> QED
    BY <1>0, <1>1, <2>1, <2>2, <2>3 DEF BlockUntouched, InflowRecorded
<1>5. BlockAtomic'
  BY <1>1, <1>3, <1>4 DEF IngestInv, BlockAtomic
<1>6. last \in Nat /\ last <= Tip /\ last' = last /\ complete' = complete
  BY <1>0, TipType DEF IngestInv, KnownHeights, last, complete
<1>7. NoBlockSkipped'
  BY <1>1, <1>3, <1>6 DEF IngestInv, NoBlockSkipped
<1>8. KnownHeights'
  BY <1>0, <1>1, <1>6 DEF IngestInv, KnownHeights
<1>9. ASSUME NEW p \in Ingesters PROVE SessionOK(ing[p], txn[p])'
  <2>1. /\ ing[p].h \in Nat /\ ing[p].tip \in Nat /\ ing[p].tip <= Tip
        /\ ing[p].pc \in Active => ing[p].h <= Tip
    BY <1>1, OwnJob
  <2>2. SessionOK(ing[p], txn[p]) /\ "commit" \in Active
    BY DEF IngestInv, Active
  <2>3. CASE ing[p].pc \in Active
    <3> PICK h : h = ing[p].h
      OBVIOUS
    <3>1. h \in 0..Tip /\ ing'[p] = ing[p] /\ txn'[p] = txn[p]
      BY <1>0, <1>1, <2>1, <2>3
    <3>2. \A g \in 0..(h - 1) : BlockRecorded(g)'
      BY <1>1, <1>3, <2>2, <2>3, <3>1 DEF SessionOK
    <3>3. Keys(h)' = Keys(h) /\ BlockRecorded(h)' = BlockRecorded(h)
      BY <1>3, <3>1
    <3>4. Written(h, ing[p].i, txn[p]) => Written(h, ing[p].i, txn[p])'
      BY <1>0, <1>2, <3>1 DEF Written, InflowRecorded
    <3>5. ing[p].pc = "commit" => ing[p].i > Len(chain'[h + 1])
      BY <1>2, <2>2, <3>1 DEF SessionOK
    <3>6. ing[p].pc \notin {"refresh", "finish"}
      BY <2>3 DEF Active
    <3> QED
      BY <2>2, <2>3, <3>1, <3>2, <3>3, <3>4, <3>5, <3>6 DEF SessionOK
  <2>4. CASE ing[p].pc \notin Active
    <3>1. ing'[p] = ing[p] /\ txn'[p] = txn[p] /\ ing[p].pc # "commit"
      BY <1>0, <2>2, <2>4
    <3>2. txn[p].events = {} /\ txn[p].inflows = {}
      BY <2>2, <2>4 DEF SessionOK
    <3>3. ASSUME ing[p].pc \in {"refresh", "finish"}, NEW g \in 0..ing[p].tip
          PROVE  BlockRecorded(g)'
      <4>1. BlockRecorded(g)
        BY <2>2, <3>3 DEF SessionOK
      <4>2. g \in 0..Tip
        BY <1>1, <2>1
      <4> QED
        BY <1>3, <4>1, <4>2
    <3> QED
      BY <2>4, <3>1, <3>2, <3>3 DEF SessionOK
  <2> QED
    BY <2>3, <2>4
<1> QED
  BY <1>5, <1>7, <1>8, <1>9 DEF IngestInv

\* Handlers touch neither the chain nor what ingesters record.
LEMMA ApiFrame ==
  ASSUME ApiNext
  PROVE  UNCHANGED <<chain, watcher_state, stake_events, reward_pool_inflows>>
BY DEF ApiNext, HandlerStep, UnstakeLoad, CancelLoad, ClaimLoad, Begin, Goto, ReadHeight,
       UnstakeHeight, UnstakeCommit, CancelLoadStaker, CancelHeight, CancelCommit,
       ClaimHeight, ClaimRefused, HandlerAbort, ledgerVars

LEMMA FrameInv ==
  ASSUME IngestInv, UNCHANGED ingestVars,
         UNCHANGED <<chain, watcher_state, stake_events, reward_pool_inflows>>
  PROVE  IngestInv'
<1>1. \A p \in Ingesters : SessionOK(ing[p], txn[p])'
  BY SessionMoves DEF IngestInv, ingestVars
<1> QED
  BY <1>1, SameLedger DEF IngestInv

LEMMA IngestInitInv == Init => IngestInv
<1> SUFFICES ASSUME Init PROVE IngestInv
  OBVIOUS
<1>1. stake_events = {} /\ reward_pool_inflows = {} /\ last = 0 /\ ~complete
  BY DEF Init, DbInit, last, complete
<1>2. \A h : BlockUntouched(h)
  BY <1>1 DEF BlockUntouched, InflowRecorded
<1>3. Tip \in Nat
  BY InitType, TipType
<1>4. \A p \in Ingesters : SessionOK(ing[p], txn[p])
  BY NoneWritten, RestSound DEF Init, IngestInit, IdleJob
<1> QED
  BY <1>1, <1>2, <1>3, <1>4 DEF IngestInv, BlockAtomic, NoBlockSkipped, KnownHeights

LEMMA NextIngestInv == TypeInv /\ IngestInv /\ [Next]_vars => IngestInv'
<1> SUFFICES ASSUME TypeInv, IngestInv, [Next]_vars PROVE IngestInv'
  OBVIOUS
<1>1. CASE IngestNext
  <2>1. ASSUME NEW p \in Ingesters, IngestStep(p) PROVE IngestInv'
    BY <2>1, IgnoreTxInv, RecordEventInv, DuplicateEventInv, CreditRewardsInv,
       CommitBlockInv, AbandonInv DEF IngestStep
  <2>2. CASE WatcherStep
    BY <2>1, <2>2, WatcherTickInv, UnlockUnstakesInv DEF WatcherStep, Ingesters
  <2>3. ASSUME NEW s \in Snapshots, SnapshotStep(s) PROVE IngestInv'
    BY <2>1, <2>3, SnapshotStartInv, SnapshotRefreshInv, SnapshotCompleteInv
    DEF SnapshotStep, Ingesters
  <2> QED
    BY <1>1, <2>2, <2>3, MineInv, ReadTipInv, AbandonInv DEF IngestNext, IngestWork
<1>2. CASE ApiNext /\ UNCHANGED ingestVars
  BY <1>2, ApiFrame, FrameInv
<1>3. CASE UNCHANGED vars
  BY <1>3, FrameInv DEF vars, ledgerVars
<1> QED
  BY <1>1, <1>2, <1>3 DEF Next

LEMMA IngestInvHolds == Spec => [](TypeInv /\ IngestInv)
BY InitType, NextType, IngestInitInv, NextIngestInv, PTL DEF Spec

\* apply_block_transactions and session_scope: whatever ingesters run side by
\* side, fail or are restarted, a block's rows become visible together or not
\* at all.
THEOREM BlocksAreAtomic == Spec => []BlockAtomic
<1>1. IngestInv => BlockAtomic
  BY DEF IngestInv
<1> QED
  BY <1>1, IngestInvHolds, PTL

\* run_snapshot and _tick: no block at or below last_processed_height is
\* missing, so resuming after it never leaves a block out.
THEOREM NothingSkipped == Spec => []NoBlockSkipped
<1>1. IngestInv => NoBlockSkipped
  BY DEF IngestInv
<1> QED
  BY <1>1, IngestInvHolds, PTL
=============================================================================

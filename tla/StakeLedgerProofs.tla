------------------------- MODULE StakeLedgerProofs -------------------------
(***************************************************************************)
(* Theorems about StakeLedger, for any number of accounts, ingesters,      *)
(* handlers and blocks.                                                    *)
(***************************************************************************)
EXTENDS StakeLedger, FiniteSetTheorems, SequenceTheorems, TLAPS

-----------------------------------------------------------------------------
(* The operators of StakeDb *)

\* The sum of a function over a finite set is a natural number.
LEMMA TotalType ==
  ASSUME NEW S, IsFiniteSet(S), NEW f \in [S -> Nat]
  PROVE  Total(f) \in Nat
<1> DEFINE F == [a \in S |-> {a} \X (1..f[a])]
           T == {{a} \X (1..f[a]) : a \in S}
<1>1. F \in Surjection(S, T)
  BY DEF Surjection
<1>2. IsFiniteSet(T)
  BY <1>1, FS_Surjection
<1>3. \A a \in S : IsFiniteSet({a} \X (1..f[a]))
  <2> TAKE a \in S
  <2>1. IsFiniteSet({a})
    BY FS_Singleton
  <2>2. IsFiniteSet(1..f[a])
    BY FS_Interval
  <2> QED
    BY <2>1, <2>2, FS_Product
<1>4. IsFiniteSet(UNION T)
  BY <1>2, <1>3, FS_UNION
<1>5. DOMAIN f = S
  OBVIOUS
<1> QED
  BY <1>4, <1>5, FS_CardinalityType DEF Total

\* The addresses of the ledger are finitely many.
LEMMA AddrsFinite == IsFiniteSet(Addrs)
<1> DEFINE users == Accounts \cup Truncated
<1>1. IsFiniteSet(users)
  BY AddressAssumption, FS_Union
<1>2. IsFiniteSet(users \cup {Escrow})
  BY <1>1, FS_AddElement
<1>3. IsFiniteSet((users \cup {Escrow}) \cup {RewardsPool})
  BY <1>2, FS_AddElement
<1>4. Addrs = (users \cup {Escrow}) \cup {RewardsPool}
  BY DEF Addrs
<1> QED
  BY <1>3, <1>4

\* tier_for gives one of the five names.
LEMMA TierForType == \A n \in Nat : tier_for(n) \in TierNames
<1> TAKE n \in Nat
<1> DEFINE met == {i \in 1..Len(TIERS) : n > 0 /\ n >= MinStake[TIERS[i]]}
<1>1. CASE met = {}
  BY <1>1 DEF tier_for, TierNames
<1>2. CASE met # {}
  <2>1. Len(TIERS) = 4
    BY DEF TIERS
  <2>2. \E i \in met : \A j \in met : i <= j
    BY <1>2, <2>1
  <2>3. (CHOOSE i \in met : \A j \in met : i <= j) \in 1..Len(TIERS)
    BY <2>2
  <2> QED
    BY <1>2, <2>3 DEF tier_for, TierNames
<1> QED
  BY <1>1, <1>2

\* The row of a transaction is a stake_events row.
LEMMA EventOfType ==
  ASSUME NEW tx \in Tx, NEW h \in Nat, NEW i \in Nat
  PROVE  EventOf(tx, h, i) \in Event
<1>1. canonicalize[tx.from] \in Addrs /\ canonicalize[tx.to] \in Addrs
  BY AddressAssumption DEF Tx
<1> QED
  BY <1>1 DEF EventOf, Event, Tx

LEMMA AmountAfterType ==
  ASSUME NEW e \in Event, NEW n \in Nat
  PROVE  AmountAfter(e, n) \in Nat
BY DEF AmountAfter, Event

\* Shares are natural numbers, whatever the stakes.
LEMMA SharesType ==
  ASSUME NEW amount \in Nat, NEW stake \in [Addrs -> Nat]
  PROVE  Shares(amount, stake) \in [Addrs -> Nat]
<1>1. Total(stake) \in Nat
  BY TotalType, AddrsFinite
<1>2. \A n \in Nat, d \in Nat \ {0} : n \div d \in Nat
  OBVIOUS
<1>3. \A a \in Addrs : amount * stake[a] \in Nat
  OBVIOUS
<1>4. DOMAIN stake = Addrs
  OBVIOUS
<1> QED
  BY <1>1, <1>2, <1>3, <1>4 DEF Shares

LEMMA InflowRowType ==
  ASSUME NEW h \in Nat, NEW amount \in Nat, NEW stake \in [Addrs -> Nat]
  PROVE  InflowRow(h, amount, stake) \in Inflow
<1>1. Total(Shares(amount, stake)) \in Nat
  BY SharesType, TotalType, AddrsFinite
<1> QED
  BY <1>1 DEF InflowRow, Inflow

-----------------------------------------------------------------------------
(* Types *)

Active == {"apply", "commit"}

\* What keeps every step well typed: ingesters stay below the tip they read,
\* which the chain has reached; the watcher and the handlers hold ids of
\* requests that exist; a handler has checked the amount it will subtract.
LocalOK ==
  /\ \A p \in Ingesters :
       /\ ing[p].i >= 1 /\ ing[p].tip <= Tip
       /\ ing[p].pc \in Active => ing[p].h <= ing[p].tip
       /\ txn[p].ready \subseteq DOMAIN unstake_requests
  /\ \A k \in Handlers :
       /\ hand[k].pc \in {"unstake", "unstake_commit"} => hand[k].arg <= hand[k].amount
       /\ hand[k].pc \in {"cancel", "cancel_height", "cancel_commit"} =>
            hand[k].arg \in DOMAIN unstake_requests

TypeInv == TypeOK /\ LocalOK

LEMMA InitType == Init => TypeInv
<1> SUFFICES ASSUME Init PROVE TypeInv
  OBVIOUS
<1> USE DEF Init, DbInit, IngestInit, ApiInit
<1>0. chain \in Seq(Seq(Tx)) /\ Len(chain) = 1
  <2>1. PICK b \in Blocks : chain = <<b>>
    OBVIOUS
  <2>2. b \in Seq(Tx)
    BY BlockAssumption
  <2> QED
    BY <2>1, <2>2
<1>1. DbTypeOK
  <2>1. \A a \in Addrs : stakers[a] \in [staked_amount : Nat, tier : TierNames]
    BY DEF TierNames
  <2>2. stakers \in [Addrs -> [staked_amount : Nat, tier : TierNames]]
    BY <2>1
  <2> QED
    BY <1>0, <2>2 DEF DbTypeOK
<1>2. IngestTypeOK
  BY DEF IngestTypeOK, Jobs, Writes, IdleJob, Job, NoWrites, Clean
<1>3. ApiTypeOK
  BY DEF ApiTypeOK, HandlerStates, IdleHandler, Handling, TierNames, Addrs
<1>4. LocalOK
  BY <1>0 DEF LocalOK, IdleJob, Job, NoWrites, IdleHandler, Handling, Active, Tip
<1> QED
  BY <1>1, <1>2, <1>3, <1>4 DEF TypeInv, TypeOK

\* What a session reads is well typed.
LEMMA SeenType ==
  ASSUME TypeOK, NEW p \in Ingesters, NEW a \in Addrs
  PROVE  AmountSeen(p, a) \in Nat /\ TierSeen(p, a) \in TierNames /\ RewardSeen(p, a) \in Nat
BY DEF TypeOK, DbTypeOK, IngestTypeOK, Writes, AmountSeen, TierSeen, RewardSeen, Clean

\* The block an ingester is at exists, and so does its transaction.
LEMMA TxOfType ==
  ASSUME TypeInv, NEW p \in Ingesters, ing[p].pc \in Active
  PROVE  /\ ing[p].h \in 0..Tip
         /\ BlockOf(p) \in Seq(Tx)
         /\ HasTx(p) => ing[p].i \in DOMAIN BlockOf(p) /\ TxOf(p) \in Tx
                        /\ CurEvent(p) \in Event
<1> USE DEF TypeInv, TypeOK
<1>1. ing[p].h \in 0..Tip /\ Tip \in Nat
  BY DEF LocalOK, IngestTypeOK, Jobs, DbTypeOK, Tip
<1>2. BlockOf(p) \in Seq(Tx)
  BY <1>1 DEF BlockOf, DbTypeOK, Tip
<1>3. ASSUME HasTx(p) PROVE ing[p].i \in DOMAIN BlockOf(p) /\ TxOf(p) \in Tx
  BY <1>2, <1>3 DEF HasTx, TxOf, LocalOK, IngestTypeOK, Jobs
<1>4. ASSUME HasTx(p) PROVE CurEvent(p) \in Event
  BY <1>3, <1>4, EventOfType DEF CurEvent, IngestTypeOK, Jobs
<1> QED
  BY <1>1, <1>2, <1>3, <1>4

\* A job that respects the tip it carries.
Fits(j) ==
  j \in Jobs /\ j.i >= 1 /\ j.tip <= Tip /\ (j.pc \in Active => j.h <= j.tip)

LEMMA TipType == ASSUME TypeInv PROVE Tip \in Nat /\ last \in Nat
BY DEF TypeInv, TypeOK, DbTypeOK, Tip, last

LEMMA JobFits ==
  ASSUME TypeInv, NEW h \in Nat, NEW t \in Nat, t <= Tip
  PROVE  /\ Fits(IdleJob)
         /\ h <= t => Fits(Walk(h, t))
         /\ \A pc \in {"start", "finish", "refresh"} : Fits(Job(pc, h, 1, t))
BY TipType DEF Fits, Jobs, Job, Walk, IdleJob, Active

\* What JobFits needs of the ingester's own job.
LEMMA OwnJob ==
  ASSUME TypeInv, NEW p \in Ingesters
  PROVE  /\ ing[p].h \in Nat /\ ing[p].i \in Nat /\ ing[p].tip \in Nat
         /\ ing[p].i >= 1 /\ ing[p].tip <= Tip
         /\ ing[p].pc \in Active => ing[p].h <= ing[p].tip
BY DEF TypeInv, TypeOK, IngestTypeOK, Jobs, LocalOK

\* A fitting job, written for one ingester, keeps the types of ing.
LEMMA JobStep ==
  ASSUME TypeInv, NEW p \in Ingesters, NEW j, Fits(j),
         ing' = [ing EXCEPT ![p] = j], chain' = chain
  PROVE  /\ ing' \in [Ingesters -> Jobs]
         /\ \A q \in Ingesters :
              /\ ing[q].i' >= 1 /\ ing[q].tip' <= Tip'
              /\ ing[q].pc' \in Active => ing[q].h' <= ing[q].tip'
BY DEF TypeInv, TypeOK, IngestTypeOK, LocalOK, Tip, Fits

LEMMA NoWritesType == NoWrites \in Writes /\ NoWrites.ready = {}
BY DEF NoWrites, Writes, Clean

\* The steps that only move the loop of an ingester.
LEMMA LoopType ==
  ASSUME TypeInv, UNCHANGED apiVars, NEW p \in Ingesters, NEW j, Fits(j),
         ing' = [ing EXCEPT ![p] = j],
         UNCHANGED <<chain, ledgerVars, unstakeVars, txn, fails>>,
         launches' \in Nat,
         watcher_state' \in [last_processed_height : Nat, snapshot_complete : BOOLEAN]
  PROVE  TypeInv'
<1>3. DbTypeOK'
  BY DEF TypeInv, TypeOK, DbTypeOK, ledgerVars, unstakeVars
<1>4. IngestTypeOK'
  BY JobStep DEF TypeInv, TypeOK, IngestTypeOK
<1>5. ApiTypeOK'
  BY DEF TypeInv, TypeOK, ApiTypeOK, apiVars
<1>6. LocalOK'
  BY JobStep DEF TypeInv, LocalOK, apiVars, unstakeVars
<1> QED
  BY <1>3, <1>4, <1>5, <1>6 DEF TypeInv, TypeOK

LEMMA ReadTipType ==
  ASSUME TypeInv, UNCHANGED apiVars, NEW p \in Ingesters, ReadTip(p)
  PROVE  TypeInv'
<1>1. Fits(Job("start", 0, 1, Tip))
  BY TipType, JobFits
<1>2. launches' \in Nat
  BY DEF ReadTip, TypeInv, TypeOK, IngestTypeOK
<1> QED
  BY <1>1, <1>2, LoopType DEF ReadTip, TypeInv, TypeOK, DbTypeOK

LEMMA WatcherTickType ==
  ASSUME TypeInv, UNCHANGED apiVars, WatcherTick
  PROVE  TypeInv'
<1>0. Watcher \in Ingesters
  BY DEF Ingesters
<1>1. Fits(IF complete /\ last < ing[Watcher].tip
           THEN Walk(last + 1, ing[Watcher].tip) ELSE IdleJob)
  <2>1. ing[Watcher].tip \in Nat /\ ing[Watcher].tip <= Tip /\ last + 1 \in Nat
    BY <1>0, TipType, OwnJob
  <2>2. last + 1 <= ing[Watcher].tip => Fits(Walk(last + 1, ing[Watcher].tip))
    BY <2>1, JobFits
  <2>3. Fits(IdleJob)
    BY <2>1, JobFits
  <2>4. last < ing[Watcher].tip => last + 1 <= ing[Watcher].tip
    BY <2>1, TipType
  <2> QED
    BY <2>2, <2>3, <2>4
<1>2. launches' \in Nat
  BY DEF WatcherTick, TypeInv, TypeOK, IngestTypeOK
<1> QED
  BY <1>0, <1>1, <1>2, LoopType DEF WatcherTick, TypeInv, TypeOK, DbTypeOK

LEMMA SnapshotLoopType ==
  ASSUME TypeInv, UNCHANGED apiVars, NEW s \in Snapshots,
         SnapshotStart(s) \/ SnapshotRefresh(s) \/ SnapshotComplete(s)
  PROVE  TypeInv'
<1>0. s \in Ingesters
  BY DEF Ingesters
<1>1. launches' \in Nat
  BY DEF SnapshotStart, SnapshotRefresh, SnapshotComplete, TypeInv, TypeOK, IngestTypeOK
<1>2. CASE SnapshotStart(s)
  <2>1. Fits(IF StartHeight <= ing[s].tip THEN Walk(StartHeight, ing[s].tip)
             ELSE Job("finish", 0, 1, ing[s].tip))
    <3>1. ing[s].tip \in Nat /\ ing[s].tip <= Tip /\ StartHeight \in Nat
      BY <1>0, TipType, OwnJob DEF StartHeight
    <3>2. StartHeight <= ing[s].tip => Fits(Walk(StartHeight, ing[s].tip))
      BY <3>1, JobFits
    <3>3. Fits(Job("finish", 0, 1, ing[s].tip))
      BY <3>1, JobFits
    <3> QED
      BY <3>2, <3>3
  <2> QED
    BY <1>0, <1>1, <1>2, <2>1, LoopType DEF SnapshotStart, TypeInv, TypeOK, DbTypeOK
<1>3. CASE SnapshotRefresh(s)
  <2>1. Fits(IF Tip > ing[s].tip THEN Walk(ing[s].tip + 1, Tip)
             ELSE Job("finish", 0, 1, ing[s].tip))
    <3>1. ing[s].tip \in Nat /\ ing[s].tip <= Tip /\ Tip \in Nat /\ Tip <= Tip
      BY <1>0, TipType, OwnJob
    <3>2. ing[s].tip + 1 <= Tip => Fits(Walk(ing[s].tip + 1, Tip))
      BY <3>1, JobFits
    <3>3. Fits(Job("finish", 0, 1, ing[s].tip))
      BY <3>1, JobFits
    <3> QED
      BY <3>1, <3>2, <3>3
  <2> QED
    BY <1>0, <1>1, <1>3, <2>1, LoopType DEF SnapshotRefresh, TypeInv, TypeOK, DbTypeOK
<1>4. CASE SnapshotComplete(s)
  <2>1. Fits(IdleJob)
    BY TipType, JobFits
  <2>2. watcher_state' \in [last_processed_height : Nat, snapshot_complete : BOOLEAN]
    BY <1>4 DEF SnapshotComplete, TypeInv, TypeOK, DbTypeOK
  <2> QED
    BY <1>0, <1>1, <1>4, <2>1, <2>2, LoopType DEF SnapshotComplete
<1> QED
  BY <1>2, <1>3, <1>4

\* A step of _apply_single_tx: the session's writes change, the loop moves on.
LEMMA TxStepType ==
  ASSUME TypeInv, UNCHANGED apiVars, NEW p \in Ingesters, HasTx(p), NextTx(p),
         NEW w \in Writes, w.ready \subseteq txn[p].ready, txn' = [txn EXCEPT ![p] = w]
  PROVE  TypeInv'
<1>1. Fits(Job("apply", ing[p].h, ing[p].i + 1, ing[p].tip))
  BY OwnJob DEF Fits, Job, Jobs, Active, HasTx
<1>2. DbTypeOK'
  BY DEF NextTx, TypeInv, TypeOK, DbTypeOK, ledgerVars, unstakeVars
<1>3. txn' \in [Ingesters -> Writes]
  BY DEF TypeInv, TypeOK, IngestTypeOK
<1>4. IngestTypeOK'
  BY <1>1, <1>3, JobStep DEF NextTx, TypeInv, TypeOK, IngestTypeOK
<1>5. ApiTypeOK'
  BY DEF TypeInv, TypeOK, ApiTypeOK, apiVars
<1>6. \A q \in Ingesters : txn[q].ready' \subseteq txn[q].ready
  BY DEF TypeInv, TypeOK, IngestTypeOK
<1>7. LocalOK'
  BY <1>1, <1>6, JobStep DEF NextTx, TypeInv, LocalOK, apiVars, unstakeVars
<1> QED
  BY <1>2, <1>4, <1>5, <1>7 DEF TypeInv, TypeOK

LEMMA OwnWrites == ASSUME TypeInv, NEW p \in Ingesters PROVE txn[p] \in Writes
BY DEF TypeInv, TypeOK, IngestTypeOK

LEMMA EventWritesType ==
  ASSUME TypeInv, NEW p \in Ingesters, NEW e \in Event
  PROVE  /\ EventWrites(p, e) \in Writes
         /\ EventWrites(p, e).ready = txn[p].ready
         /\ EventWrites(p, e).inflows = txn[p].inflows
         /\ EventWrites(p, e).reward = txn[p].reward
         /\ EventWrites(p, e).events = txn[p].events \cup {e}
<1> DEFINE a == e.address
           new == AmountAfter(e, AmountSeen(p, a))
<1>1. a \in Addrs
  BY DEF Event
<1>2. new \in Nat
  BY <1>1, SeenType, AmountAfterType DEF TypeInv
<1>3. txn[p] \in Writes
  BY OwnWrites
<1> HIDE DEF new
<1>4. AmountWrite(p, a, new) \in [Addrs -> Nat \cup {Clean}]
  BY <1>1, <1>2, <1>3 DEF AmountWrite, Writes
<1>5. TierWrite(p, a, new) \in [Addrs -> TierNames \cup {"clean"}]
  BY <1>1, <1>2, <1>3, TierForType DEF TierWrite, Writes
<1>6. EventWrites(p, e) = [txn[p] EXCEPT !.events = txn[p].events \cup {e},
                             !.amount = AmountWrite(p, a, new),
                             !.tier = TierWrite(p, a, new)]
  BY DEF EventWrites, new
<1>7. EventWrites(p, e) =
        [events |-> txn[p].events \cup {e}, amount |-> AmountWrite(p, a, new),
         tier |-> TierWrite(p, a, new), reward |-> txn[p].reward,
         inflows |-> txn[p].inflows, ready |-> txn[p].ready]
  BY <1>3, <1>6 DEF Writes
<1> QED
  BY <1>3, <1>4, <1>5, <1>7 DEF Writes

LEMMA RewardWritesType ==
  ASSUME TypeInv, NEW p \in Ingesters, NEW amount \in Nat, NEW stake \in [Addrs -> Nat]
  PROVE  /\ RewardWrites(p, amount, stake) \in Writes
         /\ RewardWrites(p, amount, stake).ready = txn[p].ready
         /\ RewardWrites(p, amount, stake).events = txn[p].events
         /\ RewardWrites(p, amount, stake).inflows =
              txn[p].inflows \cup {InflowRow(ing[p].h, amount, stake)}
<1> DEFINE share == Shares(amount, stake)
           row == InflowRow(ing[p].h, amount, stake)
           re == [a \in Addrs |-> IF share[a] = 0 THEN txn[p].reward[a]
                                   ELSE RewardSeen(p, a) + share[a]]
<1>1. share \in [Addrs -> Nat]
  BY SharesType
<1>2. row \in Inflow
  BY OwnJob, InflowRowType
<1>3. txn[p] \in Writes
  BY OwnWrites
<1>4. re \in [Addrs -> Nat \cup {Clean}]
  <2>1. txn[p].reward \in [Addrs -> Nat \cup {Clean}]
    BY <1>3 DEF Writes
  <2>2. \A a \in Addrs : RewardSeen(p, a) \in Nat
    BY SeenType DEF TypeInv
  <2> HIDE DEF share
  <2>3. \A a \in Addrs : re[a] \in Nat \cup {Clean}
    BY <1>1, <2>1, <2>2
  <2> QED
    BY <2>3
<1>5. RewardWrites(p, amount, stake) =
        [txn[p] EXCEPT !.reward = re, !.inflows = txn[p].inflows \cup {row}]
  BY DEF RewardWrites
<1> HIDE DEF re, row
<1>6. RewardWrites(p, amount, stake) =
        [events |-> txn[p].events, amount |-> txn[p].amount, tier |-> txn[p].tier,
         reward |-> re, inflows |-> txn[p].inflows \cup {row}, ready |-> txn[p].ready]
  BY <1>3, <1>5 DEF Writes
<1>7. txn[p].inflows \cup {row} \in SUBSET Inflow
  BY <1>2, <1>3 DEF Writes
<1>8. RewardWrites(p, amount, stake) \in Writes
  BY <1>3, <1>4, <1>6, <1>7 DEF Writes
<1> QED
  BY <1>6, <1>8 DEF row

LEMMA RecordEventType ==
  ASSUME TypeInv, UNCHANGED apiVars, NEW p \in Ingesters, RecordEvent(p)
  PROVE  TypeInv'
<1>1. CurEvent(p) \in Event
  BY TxOfType DEF RecordEvent, HasTx, Active
<1> QED
  BY <1>1, EventWritesType, TxStepType DEF RecordEvent

\* What CreditRewards distributes, and by which stakes.
LEMMA InflowType ==
  ASSUME TypeInv, NEW p \in Ingesters, HasTx(p)
  PROVE  TxOf(p).amount \in Nat /\ [a \in Addrs |-> AmountSeen(p, a)] \in [Addrs -> Nat]
<1>1. TxOf(p).amount \in Nat
  BY TxOfType DEF HasTx, Active, Tx
<1>2. [a \in Addrs |-> AmountSeen(p, a)] \in [Addrs -> Nat]
  BY SeenType DEF TypeInv
<1> QED
  BY <1>1, <1>2

LEMMA CreditRewardsType ==
  ASSUME TypeInv, UNCHANGED apiVars, NEW p \in Ingesters, CreditRewards(p)
  PROVE  TypeInv'
<1> DEFINE w == RewardWrites(p, TxOf(p).amount, [a \in Addrs |-> AmountSeen(p, a)])
<1>1. w \in Writes /\ w.ready = txn[p].ready
  BY InflowType, RewardWritesType DEF CreditRewards
<1>2. txn' = [txn EXCEPT ![p] = w] /\ HasTx(p) /\ NextTx(p)
  BY DEF CreditRewards
<1> HIDE DEF w
<1> QED
  BY <1>1, <1>2, TxStepType

LEMMA IgnoreTxType ==
  ASSUME TypeInv, UNCHANGED apiVars, NEW p \in Ingesters, IgnoreTx(p)
  PROVE  TypeInv'
<1>1. txn' = [txn EXCEPT ![p] = txn[p]]
  BY DEF IgnoreTx, TypeInv, TypeOK, IngestTypeOK
<1> QED
  BY <1>1, OwnWrites, TxStepType DEF IgnoreTx

LEMMA DuplicateEventType ==
  ASSUME TypeInv, UNCHANGED apiVars, NEW p \in Ingesters, DuplicateEvent(p)
  PROVE  TypeInv'
BY NoWritesType, TxStepType DEF DuplicateEvent

LEMMA MineType ==
  ASSUME TypeInv, UNCHANGED apiVars, NEW b \in Blocks, Mine(b)
  PROVE  TypeInv'
<1>1. b \in Seq(Tx) /\ chain \in Seq(Seq(Tx)) /\ chain # <<>>
  BY BlockAssumption DEF TypeInv, TypeOK, DbTypeOK
<1>2. chain' \in Seq(Seq(Tx)) /\ chain' # <<>> /\ Len(chain') = Len(chain) + 1
  BY <1>1, AppendProperties DEF Mine
<1>3. DbTypeOK'
  BY <1>2 DEF Mine, TypeInv, TypeOK, DbTypeOK, ledgerVars, unstakeVars
<1>4. IngestTypeOK'
  BY DEF Mine, TypeInv, TypeOK, IngestTypeOK, ingestVars
<1>5. ApiTypeOK'
  BY DEF TypeInv, TypeOK, ApiTypeOK, apiVars
<1>6. Tip' = Tip + 1 /\ Tip \in Nat
  BY <1>2, TipType DEF Tip
<1>7. \A p \in Ingesters : ing[p].tip \in Nat
  BY OwnJob
<1>8. LocalOK'
  BY <1>6, <1>7 DEF Mine, TypeInv, LocalOK, apiVars, unstakeVars, ingestVars
<1> QED
  BY <1>3, <1>4, <1>5, <1>8 DEF TypeInv, TypeOK

\* A step that leaves the tables alone and gives an ingester a job and writes.
LEMMA SessionType ==
  ASSUME TypeInv, UNCHANGED apiVars, NEW p \in Ingesters, NEW j, Fits(j),
         NEW w \in Writes, w.ready \subseteq DOMAIN unstake_requests,
         ing' = [ing EXCEPT ![p] = j], txn' = [txn EXCEPT ![p] = w],
         UNCHANGED <<chain, watcher_state, ledgerVars, unstakeVars, launches>>,
         fails' \in Nat
  PROVE  TypeInv'
<1>1. DbTypeOK'
  BY DEF TypeInv, TypeOK, DbTypeOK, ledgerVars, unstakeVars
<1>2. txn' \in [Ingesters -> Writes]
  BY DEF TypeInv, TypeOK, IngestTypeOK
<1>3. IngestTypeOK'
  BY <1>2, JobStep DEF TypeInv, TypeOK, IngestTypeOK
<1>4. ApiTypeOK'
  BY DEF TypeInv, TypeOK, ApiTypeOK, apiVars
<1>5. \A q \in Ingesters : txn[q].ready' \subseteq DOMAIN unstake_requests
  BY DEF TypeInv, TypeOK, IngestTypeOK, LocalOK
<1>6. LocalOK'
  BY <1>5, JobStep DEF TypeInv, LocalOK, apiVars, unstakeVars
<1> QED
  BY <1>1, <1>3, <1>4, <1>6 DEF TypeInv, TypeOK

LEMMA UnlockUnstakesType ==
  ASSUME TypeInv, UNCHANGED apiVars, UnlockUnstakes
  PROVE  TypeInv'
<1> DEFINE R == Unlocked(ing[Watcher].h)
           w == [txn[Watcher] EXCEPT !.ready = R]
           j == Job("commit", ing[Watcher].h, ing[Watcher].i, ing[Watcher].tip)
<1>0. Watcher \in Ingesters
  BY DEF Ingesters
<1>1. R \subseteq DOMAIN unstake_requests /\ DOMAIN unstake_requests \subseteq Nat
  BY DEF Unlocked, TypeInv, TypeOK, DbTypeOK
<1>2. Fits(j)
  BY <1>0, OwnJob DEF UnlockUnstakes, AllTxsDone, Fits, Job, Jobs, Active
<1>3. txn' = [txn EXCEPT ![Watcher] = w]
  BY DEF UnlockUnstakes
<1>4. ing' = [ing EXCEPT ![Watcher] = j]
  BY DEF UnlockUnstakes
<1> HIDE DEF R, j
<1>5. w \in Writes /\ w.ready = R
  BY <1>0, <1>1, OwnWrites DEF Writes
<1> HIDE DEF w
<1>6. fails' \in Nat
  BY DEF UnlockUnstakes, TypeInv, TypeOK, IngestTypeOK
<1> QED
  BY <1>0, <1>1, <1>2, <1>3, <1>4, <1>5, <1>6, SessionType DEF UnlockUnstakes

LEMMA AbandonType ==
  ASSUME TypeInv, UNCHANGED apiVars, NEW p \in Ingesters, IntegrityAbort(p) \/ Fail(p)
  PROVE  TypeInv'
<1>1. Fits(IdleJob)
  BY TipType, JobFits
<1>2. fails' \in Nat
  BY DEF IntegrityAbort, Fail, TypeInv, TypeOK, IngestTypeOK
<1>3. NoWrites.ready \subseteq DOMAIN unstake_requests
  BY NoWritesType
<1>4. Abandon(p)
  BY DEF IntegrityAbort, Fail
<1> QED
  BY <1>1, <1>2, <1>3, <1>4, NoWritesType, SessionType DEF Abandon

LEMMA RequestType ==
  ASSUME TypeInv, NEW r \in DOMAIN unstake_requests
  PROVE  unstake_requests[r] \in Request /\ r \in Nat
BY DEF TypeInv, TypeOK, DbTypeOK

\* A request stays well typed when its status changes.
LEMMA StatusType ==
  ASSUME NEW q \in Request, NEW st \in {"PENDING", "READY", "CANCELLED"}
  PROVE  [q EXCEPT !.status = st] \in Request
<1>1. [q EXCEPT !.status = st] =
        [address |-> q.address, amount |-> q.amount,
         unlock_height |-> q.unlock_height, status |-> st]
  BY DEF Request
<1> QED
  BY <1>1 DEF Request

\* A refund has the address and the amount of its request.
LEMMA RefundType ==
  ASSUME TypeInv, NEW r \in DOMAIN unstake_requests
  PROVE  RefundOf(r) \in Payout
<1>1. unstake_requests[r] \in Request /\ r \in Nat
  BY RequestType
<1> QED
  BY <1>1 DEF RefundOf, Payout, Request

\* The job of an ingester after a block.
LEMMA AfterBlockJob ==
  ASSUME TypeInv, NEW p \in Ingesters, AtCommit(p)
  PROVE  Fits(IF ing[p].h < ing[p].tip THEN Walk(ing[p].h + 1, ing[p].tip)
              ELSE IF p = Watcher THEN IdleJob ELSE Job("refresh", 0, 1, ing[p].tip))
<1>1. ing[p].h \in Nat /\ ing[p].tip \in Nat /\ ing[p].tip <= Tip
  BY OwnJob
<1>2. ing[p].h + 1 <= ing[p].tip => Fits(Walk(ing[p].h + 1, ing[p].tip))
  BY <1>1, JobFits
<1>3. Fits(IdleJob) /\ Fits(Job("refresh", 0, 1, ing[p].tip))
  BY <1>1, JobFits
<1> QED
  BY <1>1, <1>2, <1>3

LEMMA CommitBlockType ==
  ASSUME TypeInv, UNCHANGED apiVars, NEW p \in Ingesters, CommitBlock(p)
  PROVE  TypeInv'
<1>0. TypeOK /\ LocalOK /\ txn[p] \in Writes
  BY OwnWrites DEF TypeInv
<1>1. stakers' \in [Addrs -> [staked_amount : Nat, tier : TierNames]]
  <2>1. \A a \in Addrs : [staked_amount |-> AmountSeen(p, a), tier |-> TierSeen(p, a)]
                           \in [staked_amount : Nat, tier : TierNames]
    BY <1>0, SeenType
  <2> QED
    BY <2>1 DEF CommitBlock
<1>2. validator_rewards' \in [Addrs -> Nat]
  <2>1. \A a \in Addrs : RewardSeen(p, a) \in Nat
    BY <1>0, SeenType
  <2> QED
    BY <2>1 DEF CommitBlock
<1>3. unstake_requests' \in Seq(Request) /\ DOMAIN unstake_requests' = DOMAIN unstake_requests
  <2>1. unstake_requests \in Seq(Request)
    BY <1>0 DEF TypeOK, DbTypeOK
  <2>2. \A r \in DOMAIN unstake_requests :
          [unstake_requests[r] EXCEPT !.status = "READY"] \in Request
    BY RequestType, StatusType
  <2>3. \A r \in DOMAIN unstake_requests : unstake_requests[r] \in Request
    BY <2>1
  <2>4. DOMAIN unstake_requests = 1..Len(unstake_requests) /\ Len(unstake_requests) \in Nat
    BY <2>1
  <2>5. unstake_requests' \in [1..Len(unstake_requests) -> Request]
    BY <2>2, <2>3, <2>4 DEF CommitBlock
  <2> QED
    BY <2>4, <2>5, SeqDef
<1>4. pending_payouts' \subseteq Payout
  <2>1. txn[p].ready \subseteq DOMAIN unstake_requests
    BY <1>0 DEF LocalOK
  <2>2. Enqueued(p) \subseteq Payout
    BY <2>1, RefundType DEF Enqueued
  <2> QED
    BY <1>0, <2>2 DEF CommitBlock, TypeOK, DbTypeOK
<1>5. watcher_state' \in [last_processed_height : Nat, snapshot_complete : BOOLEAN]
  BY <1>0, OwnJob DEF CommitBlock, TypeOK, DbTypeOK
<1>6. stake_events' \subseteq Event /\ reward_pool_inflows' \subseteq Inflow
  BY <1>0 DEF CommitBlock, TypeOK, DbTypeOK, Writes
<1>7. DbTypeOK'
  BY <1>0, <1>1, <1>2, <1>3, <1>4, <1>5, <1>6 DEF CommitBlock, TypeOK, DbTypeOK
<1>8. /\ ing' \in [Ingesters -> Jobs]
      /\ \A q \in Ingesters :
           /\ ing[q].i' >= 1 /\ ing[q].tip' <= Tip'
           /\ ing[q].pc' \in Active => ing[q].h' <= ing[q].tip'
  <2> DEFINE j == IF ing[p].h < ing[p].tip THEN Walk(ing[p].h + 1, ing[p].tip)
                  ELSE IF p = Watcher THEN IdleJob ELSE Job("refresh", 0, 1, ing[p].tip)
  <2>1. Fits(j)
    BY AfterBlockJob DEF CommitBlock
  <2>2. ing' = [ing EXCEPT ![p] = j] /\ chain' = chain
    BY DEF CommitBlock
  <2> HIDE DEF j
  <2> QED
    BY <2>1, <2>2, JobStep
<1>9. txn' \in [Ingesters -> Writes]
  BY <1>0, NoWritesType DEF CommitBlock, TypeOK, IngestTypeOK
<1>10. IngestTypeOK'
  BY <1>0, <1>8, <1>9 DEF CommitBlock, TypeOK, IngestTypeOK
<1>11. ApiTypeOK'
  BY <1>0 DEF TypeOK, ApiTypeOK, apiVars
<1>12. \A q \in Ingesters : txn[q].ready' \subseteq DOMAIN unstake_requests
  BY <1>0, NoWritesType DEF CommitBlock, TypeOK, IngestTypeOK, LocalOK
<1>13. LocalOK'
  BY <1>0, <1>3, <1>8, <1>12 DEF LocalOK, apiVars
<1> QED
  BY <1>7, <1>10, <1>11, <1>13 DEF TypeInv, TypeOK

-----------------------------------------------------------------------------
(* Types: the handlers *)

\* What a handler may know.
Sound(j) ==
  /\ j \in HandlerStates
  /\ j.pc \in {"unstake", "unstake_commit"} => j.arg <= j.amount
  /\ j.pc \in {"cancel", "cancel_height", "cancel_commit"} =>
       j.arg \in DOMAIN unstake_requests

LEMMA IdleSound == Sound(IdleHandler)
BY DEF Sound, IdleHandler, Handling, HandlerStates, TierNames, Addrs

LEMMA OwnState == ASSUME TypeInv, NEW k \in Handlers PROVE Sound(hand[k])
BY DEF TypeInv, TypeOK, ApiTypeOK, LocalOK, Sound

\* A handler learns something; no table changes.
LEMMA HandType ==
  ASSUME TypeInv, UNCHANGED ingestVars, NEW k \in Handlers, NEW j, Sound(j),
         hand' = [hand EXCEPT ![k] = j], requests' \in Nat,
         UNCHANGED <<chain, watcher_state, ledgerVars, unstakeVars>>
  PROVE  TypeInv'
<1>1. DbTypeOK'
  BY DEF TypeInv, TypeOK, DbTypeOK, ledgerVars, unstakeVars
<1>2. IngestTypeOK'
  BY DEF TypeInv, TypeOK, IngestTypeOK, ingestVars
<1>3. ApiTypeOK'
  BY DEF TypeInv, TypeOK, ApiTypeOK, Sound
<1>4. LocalOK'
  BY DEF TypeInv, TypeOK, ApiTypeOK, LocalOK, Sound, ingestVars, unstakeVars, Tip
<1> QED
  BY <1>1, <1>2, <1>3, <1>4 DEF TypeInv, TypeOK

LEMMA BeginType ==
  ASSUME TypeInv, UNCHANGED ingestVars, NEW k \in Handlers, NEW j, Sound(j), Begin(k, j)
  PROVE  TypeInv'
<1>1. requests' \in Nat
  BY DEF Begin, TypeInv, TypeOK, ApiTypeOK
<1> QED
  BY <1>1, HandType DEF Begin

LEMMA GotoType ==
  ASSUME TypeInv, UNCHANGED ingestVars, NEW k \in Handlers, NEW j, Sound(j), Goto(k, j)
  PROVE  TypeInv'
<1>1. requests' \in Nat
  BY DEF Goto, TypeInv, TypeOK, ApiTypeOK
<1> QED
  BY <1>1, HandType DEF Goto

LEMMA StakerType ==
  ASSUME TypeInv, NEW a \in Addrs
  PROVE  /\ stakers[a].staked_amount \in Nat /\ stakers[a].tier \in TierNames
         /\ validator_rewards[a] \in Nat
BY DEF TypeInv, TypeOK, DbTypeOK

LEMMA LoadType ==
  ASSUME TypeInv, UNCHANGED ingestVars, NEW k \in Handlers,
         \/ \E a \in Accounts, m \in UserAmounts : UnstakeLoad(k, a, m)
         \/ \E r \in DOMAIN unstake_requests : CancelLoad(k, r)
         \/ \E a \in Accounts : ClaimLoad(k, a)
  PROVE  TypeInv'
<1>0. Accounts \subseteq Addrs /\ UserAmounts \subseteq Nat
  BY RequestAssumption DEF Addrs
<1> USE DEF Sound, Handling, HandlerStates
<1>1. ASSUME NEW a \in Accounts, NEW m \in UserAmounts, UnstakeLoad(k, a, m)
      PROVE  TypeInv'
  <2>1. m <= stakers[a].staked_amount
    BY <1>0, <1>1, StakerType DEF UnstakeLoad
  <2>2. Sound(Handling("unstake", a, m, stakers[a].staked_amount, stakers[a].tier, 0))
    BY <1>0, <2>1, StakerType
  <2> QED
    BY <1>1, <2>2, BeginType DEF UnstakeLoad
<1>2. ASSUME NEW r \in DOMAIN unstake_requests, CancelLoad(k, r)
      PROVE  TypeInv'
  <2>1. Sound(Handling("cancel", unstake_requests[r].address, r, 0, "None", 0))
    BY RequestType DEF Request, TierNames
  <2> QED
    BY <1>2, <2>1, BeginType DEF CancelLoad
<1>3. ASSUME NEW a \in Accounts, ClaimLoad(k, a)
      PROVE  TypeInv'
  <2>1. Sound(Handling("claim", a, 0, validator_rewards[a], "None", 0))
    BY <1>0, StakerType DEF TierNames
  <2> QED
    BY <1>3, <2>1, BeginType DEF ClaimLoad
<1> QED
  BY <1>1, <1>2, <1>3

\* _current_height moves a handler on, or ends it.
LEMMA ReadHeightType ==
  ASSUME TypeInv, UNCHANGED ingestVars, NEW k \in Handlers,
         UnstakeHeight(k) \/ CancelHeight(k) \/ ClaimHeight(k)
  PROVE  TypeInv'
<1> DEFINE j(to) == Handling(to, hand[k].address, hand[k].arg, hand[k].amount,
                             hand[k].tier, last)
<1>1. PICK to \in {"unstake_commit", "cancel_commit", "claim_commit"} :
        /\ to = "unstake_commit" => hand[k].pc = "unstake"
        /\ to = "cancel_commit" => hand[k].pc = "cancel_height"
        /\ Goto(k, IF complete THEN j(to) ELSE IdleHandler)
  BY DEF UnstakeHeight, CancelHeight, ClaimHeight, ReadHeight
<1>2. Sound(hand[k]) /\ last \in Nat
  BY OwnState, TipType
<1>3. Sound(j(to))
  BY <1>1, <1>2 DEF Sound, Handling, HandlerStates
<1> HIDE DEF j
<1>4. complete => Goto(k, j(to))
  BY <1>1
<1>5. ~complete => Goto(k, IdleHandler)
  BY <1>1
<1> QED
  BY <1>3, <1>4, <1>5, GotoType, IdleSound

LEMMA CancelLoadStakerType ==
  ASSUME TypeInv, UNCHANGED ingestVars, NEW k \in Handlers, CancelLoadStaker(k)
  PROVE  TypeInv'
<1> DEFINE a == hand[k].address
           j == Handling("cancel_height", a, hand[k].arg, stakers[a].staked_amount,
                         stakers[a].tier, 0)
<1>1. Sound(hand[k]) /\ a \in Addrs /\ hand[k].pc = "cancel"
  BY OwnState DEF Sound, HandlerStates, CancelLoadStaker
<1>2. Goto(k, j)
  BY DEF CancelLoadStaker
<1>3. Sound(j)
  BY <1>1, StakerType DEF Sound, Handling, HandlerStates
<1> HIDE DEF j
<1> QED
  BY <1>2, <1>3, GotoType

LEMMA EndType ==
  ASSUME TypeInv, UNCHANGED ingestVars, NEW k \in Handlers, ClaimRefused(k) \/ HandlerAbort(k)
  PROVE  TypeInv'
BY IdleSound, GotoType DEF ClaimRefused, HandlerAbort

\* StakerUpdate writes a well typed row.
LEMMA StakerUpdateType ==
  ASSUME TypeInv, NEW k \in Handlers, NEW n \in Nat, StakerUpdate(k, n)
  PROVE  stakers' \in [Addrs -> [staked_amount : Nat, tier : TierNames]]
<1> DEFINE a == hand[k].address
           row == [staked_amount |-> n,
                   tier |-> IF tier_for(n) = hand[k].tier THEN stakers[a].tier
                                                          ELSE tier_for(n)]
<1>1. a \in Addrs
  BY OwnState DEF Sound, HandlerStates
<1>2. row \in [staked_amount : Nat, tier : TierNames]
  BY <1>1, StakerType, TierForType
<1>3. stakers' = [stakers EXCEPT ![a] = row]
  BY DEF StakerUpdate
<1> HIDE DEF row
<1> QED
  BY <1>1, <1>2, <1>3 DEF TypeInv, TypeOK, DbTypeOK

\* The two commits: a staker row, a table of requests that has not shrunk, and
\* the handler is done.
LEMMA WriteType ==
  ASSUME TypeInv, UNCHANGED ingestVars, NEW k \in Handlers,
         stakers' \in [Addrs -> [staked_amount : Nat, tier : TierNames]],
         unstake_requests' \in Seq(Request),
         DOMAIN unstake_requests \subseteq DOMAIN unstake_requests',
         hand' = [hand EXCEPT ![k] = IdleHandler],
         UNCHANGED <<chain, watcher_state, stake_events, validator_rewards,
                     reward_pool_inflows, pending_payouts, requests>>
  PROVE  TypeInv'
<1>1. DbTypeOK'
  BY DEF TypeInv, TypeOK, DbTypeOK
<1>2. IngestTypeOK'
  BY DEF TypeInv, TypeOK, IngestTypeOK, ingestVars
<1>3. IdleHandler \in HandlerStates /\ IdleHandler.pc = "idle"
  BY IdleSound DEF Sound, IdleHandler, Handling
<1>4. ApiTypeOK'
  BY <1>3 DEF TypeInv, TypeOK, ApiTypeOK
<1>5. \A q \in Handlers : hand'[q] = hand[q] \/ hand'[q].pc = "idle"
  BY <1>3 DEF TypeInv, TypeOK, ApiTypeOK
<1>6. LocalOK'
  BY <1>5 DEF TypeInv, LocalOK, ingestVars, Tip
<1> QED
  BY <1>1, <1>2, <1>4, <1>6 DEF TypeInv, TypeOK

LEMMA UnstakeCommitType ==
  ASSUME TypeInv, UNCHANGED ingestVars, NEW k \in Handlers, UnstakeCommit(k)
  PROVE  TypeInv'
<1> DEFINE q == [address |-> hand[k].address, amount |-> hand[k].arg,
                 unlock_height |-> hand[k].height + Cooldown, status |-> "PENDING"]
<1>1. Sound(hand[k]) /\ hand[k].pc = "unstake_commit"
  BY OwnState DEF UnstakeCommit
<1>2. hand[k].amount - hand[k].arg \in Nat
  BY <1>1 DEF Sound, HandlerStates
<1>3. stakers' \in [Addrs -> [staked_amount : Nat, tier : TierNames]]
  BY <1>2, StakerUpdateType DEF UnstakeCommit
<1>4. q \in Request
  BY <1>1, BlockAssumption DEF Sound, HandlerStates, Request
<1>5. unstake_requests' = Append(unstake_requests, q)
  BY DEF UnstakeCommit
<1>6. unstake_requests \in Seq(Request)
  BY DEF TypeInv, TypeOK, DbTypeOK
<1> HIDE DEF q
<1>7. /\ unstake_requests' \in Seq(Request)
      /\ DOMAIN unstake_requests \subseteq DOMAIN unstake_requests'
  BY <1>4, <1>5, <1>6, AppendProperties
<1> QED
  BY <1>3, <1>7, WriteType DEF UnstakeCommit

LEMMA CancelCommitType ==
  ASSUME TypeInv, UNCHANGED ingestVars, NEW k \in Handlers, CancelCommit(k)
  PROVE  TypeInv'
<1> DEFINE r == hand[k].arg
           q == [unstake_requests[r] EXCEPT !.status = "CANCELLED"]
<1>1. Sound(hand[k]) /\ r \in DOMAIN unstake_requests
  BY OwnState DEF CancelCommit, Sound
<1>2. hand[k].amount + unstake_requests[r].amount \in Nat
  BY <1>1, RequestType DEF Sound, HandlerStates, Request
<1>3. stakers' \in [Addrs -> [staked_amount : Nat, tier : TierNames]]
  BY <1>2, StakerUpdateType DEF CancelCommit
<1>4. q \in Request
  BY <1>1, RequestType, StatusType
<1>5. unstake_requests' = [unstake_requests EXCEPT ![r] = q]
  BY DEF CancelCommit
<1>6. unstake_requests \in Seq(Request)
  BY DEF TypeInv, TypeOK, DbTypeOK
<1> HIDE DEF q
<1>7. /\ unstake_requests' \in Seq(Request)
      /\ DOMAIN unstake_requests' = DOMAIN unstake_requests
  BY <1>1, <1>4, <1>5, <1>6
<1> QED
  BY <1>3, <1>7, WriteType DEF CancelCommit

-----------------------------------------------------------------------------
LEMMA NextType == TypeInv /\ [Next]_vars => TypeInv'
<1> SUFFICES ASSUME TypeInv, [Next]_vars PROVE TypeInv'
  OBVIOUS
<1>1. CASE IngestNext /\ UNCHANGED apiVars
  <2> USE <1>1
  <2>1. ASSUME NEW p \in Ingesters, IngestStep(p) PROVE TypeInv'
    BY <2>1, IgnoreTxType, RecordEventType, DuplicateEventType, CreditRewardsType,
       CommitBlockType, AbandonType DEF IngestStep
  <2>2. CASE WatcherStep
    BY <2>1, <2>2, WatcherTickType, UnlockUnstakesType DEF WatcherStep, Ingesters
  <2>3. ASSUME NEW s \in Snapshots, SnapshotStep(s) PROVE TypeInv'
    BY <2>1, <2>3, SnapshotLoopType DEF SnapshotStep, Ingesters
  <2> QED
    BY <2>2, <2>3, MineType, ReadTipType, AbandonType DEF IngestNext, IngestWork
<1>2. CASE ApiNext /\ UNCHANGED ingestVars
  BY <1>2, LoadType, ReadHeightType, CancelLoadStakerType, EndType, UnstakeCommitType,
     CancelCommitType DEF ApiNext, HandlerStep
<1>3. CASE UNCHANGED vars
  <2>1. TypeOK'
    BY <1>3 DEF TypeInv, TypeOK, DbTypeOK, IngestTypeOK, ApiTypeOK, vars, ledgerVars,
                unstakeVars, ingestVars, apiVars
  <2>2. LocalOK'
    BY <1>3 DEF TypeInv, LocalOK, Tip, vars, unstakeVars, ingestVars, apiVars
  <2> QED
    BY <2>1, <2>2 DEF TypeInv
<1> QED
  BY <1>1, <1>2, <1>3 DEF Next

\* Every table keeps its type whatever the interleaving of ingesters and
\* handlers; in particular no stake becomes negative: request_unstake never
\* subtracts more than it has read, and the ledger clamps refunds at 0.
THEOREM TypeCorrect == Spec => []TypeOK
<1>1. TypeInv => TypeOK
  BY DEF TypeInv
<1> QED
  BY <1>1, InitType, NextType, PTL DEF Spec
=============================================================================

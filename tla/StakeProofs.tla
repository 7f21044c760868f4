---------------------------- MODULE StakeProofs ----------------------------
(***************************************************************************)
(* What the stakes are worth, for any number of accounts, ingesters,       *)
(* handlers and blocks: when the writers of one staker take turns,         *)
(* amounts, tiers, events and requests stay in step; and without calls the *)
(* ledger implements a sequential replay of the chain.                     *)
(***************************************************************************)
EXTENDS RewardProofs

-----------------------------------------------------------------------------
(* Sessions do not share events *)

\* A session with the writes w has no event of a.
Untouched(w, a) == \A e \in w.events : e.address # a

\* An event is in the ledger or in one session, and a session has changed no
\* staker of whom it has no event.
Apart ==
  \A p \in Ingesters :
    /\ txn[p].events \cap stake_events = {}
    /\ \A q \in Ingesters \ {p} : txn[p].events \cap txn[q].events = {}
    /\ \A a \in Addrs : Untouched(txn[p], a) =>
         txn[p].amount[a] = Clean /\ txn[p].tier[a] = "clean"

\* The writes that concern stakers.
SameStakes(w, v) == v.events = w.events /\ v.amount = w.amount /\ v.tier = w.tier

\* What the steps do to stakers and to the sessions that write them.
LEMMA StepKinds ==
  ASSUME TypeInv, [Next]_vars
  PROVE  \/ /\ UNCHANGED <<stakers, stake_events, unstakeVars>>
            /\ \A p \in Ingesters : SameStakes(txn[p], txn'[p])
         \/ /\ UNCHANGED <<stakers, stake_events, unstakeVars, apiVars>>
            /\ \E p \in Ingesters : txn' = [txn EXCEPT ![p] = NoWrites]
         \/ UNCHANGED apiVars /\ \E p \in Ingesters : RecordEvent(p) \/ CommitBlock(p)
         \/ UNCHANGED ingestVars /\ \E k \in Handlers : UnstakeCommit(k) \/ CancelCommit(k)
<1>0. Watcher \in Ingesters /\ Snapshots \subseteq Ingesters /\ txn \in [Ingesters -> Writes]
  BY DEF Ingesters, TypeInv, TypeOK, IngestTypeOK
<1>1. CASE IngestNext /\ UNCHANGED apiVars
  <2>1. ASSUME txn' = txn, UNCHANGED <<ledgerVars, unstakeVars>>
        PROVE  UNCHANGED <<stakers, stake_events, unstakeVars>>
               /\ \A p \in Ingesters : SameStakes(txn[p], txn'[p])
    BY <2>1 DEF SameStakes, ledgerVars
  <2>2. CASE \E b \in Blocks : Mine(b)
    BY <2>1, <2>2 DEF Mine, ingestVars
  <2>3. CASE \/ WatcherTick
             \/ \E p \in Ingesters : ReadTip(p) \/ IgnoreTx(p)
             \/ \E s \in Snapshots : SnapshotStart(s) \/ SnapshotRefresh(s) \/ SnapshotComplete(s)
    BY <2>1, <2>3 DEF WatcherTick, ReadTip, IgnoreTx, NextTx, SnapshotStart, SnapshotRefresh,
       SnapshotComplete
  <2>4. CASE \E p \in Ingesters : DuplicateEvent(p) \/ IntegrityAbort(p) \/ Fail(p)
    BY <1>1, <2>4 DEF DuplicateEvent, NextTx, IntegrityAbort, Fail, Abandon, ledgerVars
  <2>5. CASE UnlockUnstakes
    <3>1. txn' = [txn EXCEPT ![Watcher].ready = Unlocked(ing[Watcher].h)]
          /\ UNCHANGED <<stakers, stake_events, unstakeVars>>
      BY <2>5 DEF UnlockUnstakes, ledgerVars
    <3>2. \A p \in Ingesters : SameStakes(txn[p], txn'[p])
      BY <1>0, <3>1 DEF SameStakes, Writes
    <3> QED
      BY <3>1, <3>2
  <2>6. ASSUME NEW p \in Ingesters, CreditRewards(p)
        PROVE  UNCHANGED <<stakers, stake_events, unstakeVars>>
               /\ \A q \in Ingesters : SameStakes(txn[q], txn'[q])
    <3>1. PICK w : /\ txn' = [txn EXCEPT ![p] = w]
                   /\ w = RewardWrites(p, TxOf(p).amount, [a \in Addrs |-> AmountSeen(p, a)])
      BY <2>6 DEF CreditRewards
    <3>2. SameStakes(txn[p], w)
      BY <1>0, <3>1 DEF SameStakes, RewardWrites, Writes
    <3>3. UNCHANGED <<stakers, stake_events, unstakeVars>>
      BY <2>6 DEF CreditRewards, NextTx, ledgerVars
    <3>4. \A q \in Ingesters : SameStakes(txn[q], txn'[q])
      BY <1>0, <3>1, <3>2 DEF SameStakes
    <3> QED
      BY <3>3, <3>4
  <2>7. \/ \E b \in Blocks : Mine(b)
        \/ WatcherTick \/ UnlockUnstakes
        \/ \E p \in Ingesters : ReadTip(p) \/ Fail(p) \/ IgnoreTx(p) \/ RecordEvent(p)
             \/ DuplicateEvent(p) \/ CreditRewards(p) \/ CommitBlock(p) \/ IntegrityAbort(p)
        \/ \E s \in Snapshots : SnapshotStart(s) \/ SnapshotRefresh(s) \/ SnapshotComplete(s)
    BY <1>0, <1>1 DEF IngestNext, IngestWork, WatcherStep, SnapshotStep, IngestStep
  <2> QED
    BY <1>1, <2>2, <2>3, <2>4, <2>5, <2>6, <2>7
<1>2. CASE ApiNext /\ UNCHANGED ingestVars
  <2>1. CASE \E k \in Handlers : UnstakeCommit(k) \/ CancelCommit(k)
    BY <1>2, <2>1
  <2>2. CASE \A k \in Handlers : ~UnstakeCommit(k) /\ ~CancelCommit(k)
    <3>1. UNCHANGED <<stakers, stake_events, unstakeVars, txn>>
      BY <1>2, <2>2 DEF ApiNext, HandlerStep, UnstakeLoad, CancelLoad, ClaimLoad, Begin, Goto,
         ReadHeight, UnstakeHeight, CancelLoadStaker, CancelHeight, ClaimHeight, ClaimRefused,
         HandlerAbort, ledgerVars, ingestVars
    <3> QED
      BY <3>1 DEF SameStakes
  <2> QED
    BY <2>1, <2>2
<1>3. CASE UNCHANGED vars
  BY <1>3 DEF vars, ledgerVars, ingestVars, SameStakes
<1> QED
  BY <1>1, <1>2, <1>3 DEF Next

\* The session after the event of a transaction.
LEMMA RecordWrites ==
  ASSUME TypeInv, NEW p \in Ingesters, RecordEvent(p)
  PROVE  /\ CurEvent(p) \in Event /\ EventWrites(p, CurEvent(p)) \in Writes
         /\ txn' = [txn EXCEPT ![p] = EventWrites(p, CurEvent(p))]
         /\ EventWrites(p, CurEvent(p)).events = txn[p].events \cup {CurEvent(p)}
         /\ \A a \in Addrs \ {CurEvent(p).address} :
              /\ EventWrites(p, CurEvent(p)).amount[a] = txn[p].amount[a]
              /\ EventWrites(p, CurEvent(p)).tier[a] = txn[p].tier[a]
         /\ Recordable(TxOf(p)) /\ TxOf(p) \in Tx
         /\ UNCHANGED <<stakers, stake_events, unstakeVars, chain>>
<1>1. ing[p].pc \in Active /\ HasTx(p)
  BY DEF RecordEvent, HasTx, Active
<1>2. CurEvent(p) \in Event /\ TxOf(p) \in Tx
  BY <1>1, TxOfType
<1> PICK e, n : e = CurEvent(p) /\ n = AmountAfter(e, AmountSeen(p, e.address))
  OBVIOUS
<1>3. txn[p] \in Writes
  BY OwnWrites
<1>4. /\ EventWrites(p, e).amount = AmountWrite(p, e.address, n)
      /\ EventWrites(p, e).tier = TierWrite(p, e.address, n)
  BY <1>3 DEF EventWrites, Writes
<1>5. ASSUME NEW a \in Addrs \ {e.address}
      PROVE  /\ EventWrites(p, e).amount[a] = txn[p].amount[a]
             /\ EventWrites(p, e).tier[a] = txn[p].tier[a]
  BY <1>3, <1>4 DEF AmountWrite, TierWrite, Writes
<1> QED
  BY <1>2, <1>5, EventWritesType DEF RecordEvent, NextTx, ledgerVars

LEMMA NoWritesStakes ==
  NoWrites.events = {} /\ \A a \in Addrs : NoWrites.amount[a] = Clean /\ NoWrites.tier[a] = "clean"
BY DEF NoWrites

LEMMA ApartNext == TypeInv /\ Apart /\ [Next]_vars => Apart'
<1> SUFFICES ASSUME TypeInv, Apart, [Next]_vars PROVE Apart'
  OBVIOUS
<1>0. txn \in [Ingesters -> Writes]
  BY DEF TypeInv, TypeOK, IngestTypeOK
<1>1. CASE stake_events' = stake_events /\ \A p \in Ingesters : SameStakes(txn[p], txn'[p])
  BY <1>1 DEF Apart, SameStakes, Untouched
<1>2. ASSUME stake_events' = stake_events, NEW p \in Ingesters, txn' = [txn EXCEPT ![p] = NoWrites]
      PROVE  Apart'
  BY <1>0, <1>2, NoWritesStakes DEF Apart, Untouched
<1>3. ASSUME NEW p \in Ingesters, RecordEvent(p) PROVE Apart'
  <2>1. CurEvent(p) \notin stake_events
        /\ \A q \in Ingesters \ {p} : CurEvent(p) \notin txn[q].events
    BY <1>3 DEF RecordEvent, Insertable
  <2>2. PICK w : /\ w.events = txn[p].events \cup {CurEvent(p)}
                 /\ \A a \in Addrs \ {CurEvent(p).address} :
                      w.amount[a] = txn[p].amount[a] /\ w.tier[a] = txn[p].tier[a]
                 /\ txn' = [txn EXCEPT ![p] = w] /\ stake_events' = stake_events
    BY <1>3, RecordWrites
  <2>3. ASSUME NEW a \in Addrs, Untouched(w, a)
        PROVE  w.amount[a] = Clean /\ w.tier[a] = "clean"
    <3>1. a # CurEvent(p).address /\ Untouched(txn[p], a)
      BY <2>2, <2>3 DEF Untouched
    <3> QED
      BY <2>2, <3>1 DEF Apart
  <2>4. /\ txn'[p] = w /\ \A q \in Ingesters \ {p} : txn'[q] = txn[q]
    BY <1>0, <2>2
  <2> QED
    BY <2>1, <2>2, <2>3, <2>4 DEF Apart, Untouched
<1>4. ASSUME NEW p \in Ingesters, CommitBlock(p) PROVE Apart'
  <2>1. stake_events' = stake_events \cup txn[p].events /\ txn' = [txn EXCEPT ![p] = NoWrites]
    BY <1>4 DEF CommitBlock
  <2> QED
    BY <1>0, <2>1, NoWritesStakes DEF Apart, Untouched
<1>5. CASE UNCHANGED ingestVars /\ \E k \in Handlers : UnstakeCommit(k) \/ CancelCommit(k)
  BY <1>5 DEF Apart, Untouched, UnstakeCommit, CancelCommit, ingestVars
<1> QED
  BY <1>1, <1>2, <1>3, <1>4, <1>5, StepKinds

LEMMA ApartInit == Init => Apart
BY NoWritesStakes DEF Init, DbInit, IngestInit, Apart, Untouched

\* Only one session at a time has events to commit: another one of the same
\* block would wait for its rows, and any other block below or above is in the
\* ledger, or not reached, as long as this one is not.
LEMMA SoleWriter ==
  ASSUME TypeInv, IngestInv, Apart, NEW p \in Ingesters, CommitBlock(p), txn[p].events # {},
         NEW q \in Ingesters, q # p
  PROVE  txn[q].events = {}
<1>1. AtCommit(p) /\ ing[p].pc \in Active /\ ing[p].h \in Nat /\ ing[q].h \in Nat
  BY OwnJob DEF CommitBlock, AtCommit, AllTxsDone, Active
<1>2. ~BlockRecorded(ing[p].h)
  BY <1>1, InBlock DEF Apart, BlockRecorded
<1>3. Keys(ing[p].h) \subseteq txn[p].events
  BY <1>1, <1>2, BlockComplete
<1>4. CASE ing[q].pc \notin Active
  BY <1>4, RestWrites
<1>5. CASE ing[q].pc \in Active
  <2>1. txn[q].events \subseteq Keys(ing[q].h)
        /\ \A g \in 0..(ing[q].h - 1) : BlockRecorded(g)
    BY <1>5, InBlock
  <2>2. CASE ing[q].h = ing[p].h
    BY <1>3, <2>1, <2>2 DEF Apart
  <2>3. CASE ing[q].h < ing[p].h
    <3>1. BlockRecorded(ing[q].h)
      BY <1>1, <2>3, InBlock
    <3> QED
      BY <2>1, <3>1 DEF BlockRecorded, Apart
  <2>4. CASE ing[q].h > ing[p].h
    BY <1>1, <1>2, <2>1, <2>4
  <2> QED
    BY <1>1, <2>2, <2>3, <2>4
<1> QED
  BY <1>4, <1>5

\* A session without events of a staker reads the committed row.
LEMMA UntouchedSeen ==
  ASSUME Apart, NEW p \in Ingesters, NEW a \in Addrs, Untouched(txn[p], a)
  PROVE  AmountSeen(p, a) = stakers[a].staked_amount /\ TierSeen(p, a) = stakers[a].tier
BY DEF Apart, AmountSeen, TierSeen

LEMMA CleanSeen ==
  ASSUME Apart, NEW p \in Ingesters, txn[p].events = {}, NEW a \in Addrs
  PROVE  AmountSeen(p, a) = stakers[a].staked_amount /\ TierSeen(p, a) = stakers[a].tier
BY UntouchedSeen DEF Untouched

\* What a session reads after an event.
LEMMA RecordSeen ==
  ASSUME TypeInv, NEW p \in Ingesters, RecordEvent(p), NEW a \in Addrs,
         NEW n, n = AmountAfter(CurEvent(p), AmountSeen(p, CurEvent(p).address))
  PROVE  /\ a = CurEvent(p).address => AmountSeen(p, a)' = n /\ TierSeen(p, a)' = tier_for(n)
         /\ a # CurEvent(p).address =>
              AmountSeen(p, a)' = AmountSeen(p, a) /\ TierSeen(p, a)' = TierSeen(p, a)
         /\ n \in Nat
<1> PICK e : e = CurEvent(p)
  OBVIOUS
<1>1. e \in Event /\ e.address \in Addrs /\ n = AmountAfter(e, AmountSeen(p, e.address))
  BY RecordWrites DEF Event
<1>2. n \in Nat /\ tier_for(n) # "clean"
  <2>1. n \in Nat
    BY <1>1, SeenType, AmountAfterType DEF TypeInv
  <2>2. tier_for(n) \in TierNames
    BY <2>1, TierForType
  <2> QED
    BY <2>1, <2>2 DEF TierNames, TIERS
<1>3. txn \in [Ingesters -> Writes] /\ txn[p] \in Writes
  BY DEF TypeInv, TypeOK, IngestTypeOK
<1>4. txn'[p] = EventWrites(p, e) /\ stakers' = stakers
  BY <1>3, RecordWrites
<1>5. txn'[p].amount = AmountWrite(p, e.address, n) /\ txn'[p].tier = TierWrite(p, e.address, n)
  BY <1>1, <1>3, <1>4 DEF EventWrites, Writes
<1>6. txn[p].amount \in [Addrs -> Nat \cup {Clean}]
      /\ txn[p].tier \in [Addrs -> TierNames \cup {"clean"}]
  BY <1>3 DEF Writes
<1>7. a = e.address => AmountSeen(p, a)' = n
  BY <1>1, <1>2, <1>4, <1>5, <1>6 DEF AmountSeen, AmountWrite, Clean
<1>8. a = e.address => TierSeen(p, a)' = tier_for(n)
  BY <1>1, <1>2, <1>4, <1>5, <1>6 DEF TierSeen, TierWrite
<1>9. a # e.address => AmountSeen(p, a)' = AmountSeen(p, a)
  BY <1>1, <1>4, <1>5, <1>6 DEF AmountSeen, AmountWrite
<1>10. a # e.address => TierSeen(p, a)' = TierSeen(p, a)
  BY <1>1, <1>4, <1>5, <1>6 DEF TierSeen, TierWrite
<1> QED
  BY <1>2, <1>7, <1>8, <1>9, <1>10
-----------------------------------------------------------------------------
(* The writers of a staker one after the other *)

\* A handler from the moment it has read a staker until it commits.
Holding == {"unstake", "unstake_commit", "cancel_height", "cancel_commit"}

\* What a handler has read of a staker is still so.
HandFresh ==
  \A k \in Handlers : hand[k].pc \in Holding =>
    /\ hand[k].amount = stakers[hand[k].address].staked_amount
    /\ hand[k].tier = stakers[hand[k].address].tier

\* A commit of a block that changes stakers finds every other session without
\* events.
LEMMA CommitAlone ==
  ASSUME TypeInv, IngestInv, Apart, NEW p \in Ingesters, CommitBlock(p)
  PROVE  \/ txn[p].events = {} /\ UNCHANGED <<stakers, stake_events>>
         \/ \A q \in Ingesters \ {p} : txn[q].events = {}
<1>1. CASE txn[p].events = {}
  <2>1. \A a \in Addrs : AmountSeen(p, a) = stakers[a].staked_amount
                         /\ TierSeen(p, a) = stakers[a].tier
    BY <1>1, CleanSeen
  <2>2. stakers \in [Addrs -> [staked_amount : Nat, tier : TierNames]]
    BY DEF TypeInv, TypeOK, DbTypeOK
  <2>3. stakers' = stakers
    BY <2>1, <2>2 DEF CommitBlock
  <2> QED
    BY <1>1, <2>3 DEF CommitBlock
<1>2. CASE txn[p].events # {}
  BY <1>2, SoleWriter
<1> QED
  BY <1>1, <1>2

\* The commit of a block leaves the stakers alone of whom it has no event.
LEMMA CommitElsewhere ==
  ASSUME TypeInv, Apart, NEW p \in Ingesters, CommitBlock(p), NEW a \in Addrs,
         Untouched(txn[p], a)
  PROVE  stakers'[a] = stakers[a]
<1>1. stakers[a] \in [staked_amount : Nat, tier : TierNames]
  BY DEF TypeInv, TypeOK, DbTypeOK
<1>2. stakers'[a] = [staked_amount |-> AmountSeen(p, a), tier |-> TierSeen(p, a)]
  BY DEF CommitBlock
<1> QED
  BY <1>1, <1>2, UntouchedSeen

\* A handler at work on a staker finds no session with events of it or refunds
\* to it, and no other handler at work on it.
LEMMA HandlerAlone ==
  ASSUME TypeInv, RowsApart, NEW k \in Handlers, hand[k].pc \in Staking
  PROVE  /\ hand[k].address \in Addrs
         /\ \A p \in Ingesters : Untouched(txn[p], hand[k].address)
         /\ \A p \in Ingesters : \A r \in txn[p].ready :
              unstake_requests[r].address # hand[k].address
         /\ \A l \in Handlers \ {k} :
              hand[l].pc \in Staking => hand[l].address # hand[k].address
BY OwnState DEF RowsApart, Untouched, Sound, HandlerStates

\* The row a handler writes.
LEMMA UpdatedStaker ==
  ASSUME TypeInv, NEW k \in Handlers, NEW n, StakerUpdate(k, n)
  PROVE  /\ hand[k].address \in Addrs
         /\ stakers'[hand[k].address].staked_amount = n
         /\ hand[k].tier = stakers[hand[k].address].tier =>
              stakers'[hand[k].address].tier = tier_for(n)
         /\ \A a \in Addrs \ {hand[k].address} : stakers'[a] = stakers[a]
<1> PICK a, t : /\ a = hand[k].address
                /\ t = IF tier_for(n) = hand[k].tier THEN stakers[a].tier ELSE tier_for(n)
  OBVIOUS
<1>1. a \in Addrs
  BY OwnState DEF Sound, HandlerStates
<1>2. stakers' = [stakers EXCEPT ![a] = [staked_amount |-> n, tier |-> t]]
  BY DEF StakerUpdate
<1>3. DOMAIN stakers = Addrs
  BY DEF TypeInv, TypeOK, DbTypeOK
<1>4. stakers'[a].staked_amount = n /\ stakers'[a].tier = t
  BY <1>1, <1>2, <1>3
<1>5. \A b \in Addrs \ {a} : stakers'[b] = stakers[b]
  BY <1>2, <1>3
<1> QED
  BY <1>1, <1>4, <1>5

\* The steps of handlers other than the two commits.
LEMMA HandFreshReads ==
  ASSUME TypeInv, HandFresh, [Next]_vars, UNCHANGED stakers
  PROVE  HandFresh'
<1>0. hand \in [Handlers -> HandlerStates]
  BY DEF TypeInv, TypeOK, ApiTypeOK
<1>1. CASE hand' = hand
  BY <1>1 DEF HandFresh
<1>2. CASE hand' # hand
  <2>1. PICK k \in Handlers :
          \/ \E a \in Accounts, m \in UserAmounts : UnstakeLoad(k, a, m)
          \/ \E r \in DOMAIN unstake_requests : CancelLoad(k, r)
          \/ \E a \in Accounts : ClaimLoad(k, a)
          \/ HandlerStep(k) \/ HandlerAbort(k)
    BY <1>2 DEF Next, ApiNext, vars, apiVars
  <2>2. PICK j : hand' = [hand EXCEPT ![k] = j]
    BY <2>1 DEF UnstakeLoad, CancelLoad, ClaimLoad, HandlerStep, HandlerAbort, Begin, Goto,
       ReadHeight, UnstakeHeight, UnstakeCommit, CancelLoadStaker, CancelHeight, CancelCommit,
       ClaimHeight, ClaimRefused
  <2>3. \A l \in Handlers \ {k} : hand'[l] = hand[l]
    BY <1>0, <2>2
  <2>4. ASSUME hand'[k].pc \in Holding
        PROVE  /\ hand'[k].amount = stakers[hand'[k].address].staked_amount
               /\ hand'[k].tier = stakers[hand'[k].address].tier
    <3>1. CASE \E a \in Accounts, m \in UserAmounts : UnstakeLoad(k, a, m)
      BY <1>0, <3>1 DEF UnstakeLoad, Begin, Handling
    <3>2. CASE CancelLoadStaker(k)
      BY <1>0, <3>2 DEF CancelLoadStaker, Goto, Handling
    <3>3. CASE UnstakeHeight(k) \/ CancelHeight(k)
      <4>1. CASE complete
        <5>1. hand'[k].address = hand[k].address /\ hand'[k].amount = hand[k].amount
              /\ hand'[k].tier = hand[k].tier /\ hand[k].pc \in Holding
          BY <1>0, <3>3, <4>1 DEF UnstakeHeight, CancelHeight, ReadHeight, Goto, Handling, Holding
        <5> QED
          BY <5>1 DEF HandFresh
      <4>2. CASE ~complete
        BY <1>0, <2>4, <3>3, <4>2 DEF UnstakeHeight, CancelHeight, ReadHeight, Goto, Handling,
           IdleHandler, Holding
      <4> QED
        BY <4>1, <4>2
    <3>4. CASE \/ \E r \in DOMAIN unstake_requests : CancelLoad(k, r)
               \/ \E a \in Accounts : ClaimLoad(k, a)
               \/ ClaimHeight(k) \/ ClaimRefused(k) \/ HandlerAbort(k)
               \/ UnstakeCommit(k) \/ CancelCommit(k)
      BY <1>0, <2>4, <3>4 DEF CancelLoad, ClaimLoad, ClaimHeight, ClaimRefused, HandlerAbort,
         UnstakeCommit, CancelCommit, Begin, ReadHeight, Goto, Handling, IdleHandler, Holding
    <3> QED
      BY <2>1, <3>1, <3>2, <3>3, <3>4 DEF HandlerStep
  <2> QED
    BY <2>3, <2>4 DEF HandFresh
<1> QED
  BY <1>1, <1>2

LEMMA HandFreshNext ==
  ASSUME TypeInv, IngestInv, Apart, RowsApart, HandFresh, [Next]_vars
  PROVE  HandFresh'
<1>0. hand \in [Handlers -> HandlerStates] /\ Holding \subseteq Staking
  BY DEF TypeInv, TypeOK, ApiTypeOK, Holding, Staking
<1>1. ASSUME NEW p \in Ingesters, CommitBlock(p), UNCHANGED apiVars PROVE HandFresh'
  <2>1. ASSUME NEW k \in Handlers, hand[k].pc \in Holding
        PROVE  stakers'[hand[k].address] = stakers[hand[k].address]
    BY <1>0, <1>1, <2>1, HandlerAlone, CommitElsewhere
  <2> QED
    BY <1>1, <2>1 DEF HandFresh, apiVars
<1>2. ASSUME NEW k \in Handlers, UnstakeCommit(k) \/ CancelCommit(k) PROVE HandFresh'
  <2>1. hand' = [hand EXCEPT ![k] = IdleHandler] /\ hand[k].pc \in Staking
    BY <1>2 DEF UnstakeCommit, CancelCommit, Staking
  <2>2. PICK n : StakerUpdate(k, n)
    BY <1>2 DEF UnstakeCommit, CancelCommit
  <2>3. ASSUME NEW l \in Handlers, hand'[l].pc \in Holding
        PROVE  /\ hand'[l].amount = stakers'[hand'[l].address].staked_amount
               /\ hand'[l].tier = stakers'[hand'[l].address].tier
    <3>1. l # k
      BY <1>0, <2>1, <2>3 DEF IdleHandler, Handling, Holding
    <3>2. hand'[l] = hand[l] /\ hand[l].pc \in Holding
      BY <1>0, <2>1, <2>3, <3>1
    <3>3. hand[l].address \in Addrs \ {hand[k].address}
      BY <1>0, <2>1, <3>1, <3>2, HandlerAlone
    <3>4. stakers'[hand[l].address] = stakers[hand[l].address]
      BY <2>2, <3>3, UpdatedStaker
    <3> QED
      BY <3>2, <3>4 DEF HandFresh
  <2> QED
    BY <2>3 DEF HandFresh
<1>3. ASSUME NEW p \in Ingesters, RecordEvent(p) PROVE HandFresh'
  BY <1>3, RecordWrites, HandFreshReads
<1> QED
  BY <1>1, <1>2, <1>3, StepKinds, HandFreshReads

-----------------------------------------------------------------------------
(* The tier a staker has *)

TiersOK ==
  TierCacheFresh /\ \A p \in Ingesters, a \in Addrs : TierSeen(p, a) = tier_for(AmountSeen(p, a))

\* What a session reads only depends on the stakers and on its own writes.
LEMMA SameSeen ==
  ASSUME NEW p \in Ingesters, SameStakes(txn[p], txn'[p]), UNCHANGED stakers, NEW a \in Addrs
  PROVE  AmountSeen(p, a)' = AmountSeen(p, a) /\ TierSeen(p, a)' = TierSeen(p, a)
BY DEF SameStakes, AmountSeen, TierSeen

\* A session without writes reads the stakers.
LEMMA EmptySeen ==
  ASSUME NEW p \in Ingesters,
         \A a \in Addrs : txn'[p].amount[a] = Clean /\ txn'[p].tier[a] = "clean", NEW a \in Addrs
  PROVE  AmountSeen(p, a)' = stakers'[a].staked_amount /\ TierSeen(p, a)' = stakers'[a].tier
BY DEF AmountSeen, TierSeen

LEMMA TiersNext ==
  ASSUME TypeInv, IngestInv, Apart, RowsApart, HandFresh, TiersOK, [Next]_vars
  PROVE  TiersOK'
<1>0. txn \in [Ingesters -> Writes]
  BY DEF TypeInv, TypeOK, IngestTypeOK
<1>1. CASE UNCHANGED stakers /\ \A p \in Ingesters : SameStakes(txn[p], txn'[p])
  BY <1>1, SameSeen DEF TiersOK, TierCacheFresh
<1>2. ASSUME UNCHANGED stakers, NEW p \in Ingesters, txn' = [txn EXCEPT ![p] = NoWrites]
      PROVE  TiersOK'
  <2>1. \A a \in Addrs : TierSeen(p, a)' = tier_for(AmountSeen(p, a)')
    BY <1>0, <1>2, NoWritesStakes, EmptySeen DEF TiersOK, TierCacheFresh
  <2>2. \A q \in Ingesters \ {p} : SameStakes(txn[q], txn'[q])
    BY <1>0, <1>2 DEF SameStakes
  <2>3. TierCacheFresh'
    BY <1>2 DEF TiersOK, TierCacheFresh
  <2> QED
    BY <1>2, <2>1, <2>2, <2>3, SameSeen DEF TiersOK
<1>3. ASSUME NEW p \in Ingesters, RecordEvent(p) PROVE TiersOK'
  <2>1. UNCHANGED stakers /\ \A q \in Ingesters \ {p} : SameStakes(txn[q], txn'[q])
    BY <1>0, <1>3, RecordWrites DEF SameStakes
  <2>2. \A a \in Addrs : TierSeen(p, a)' = tier_for(AmountSeen(p, a)')
    BY <1>3, RecordSeen DEF TiersOK
  <2>3. TierCacheFresh'
    BY <2>1 DEF TiersOK, TierCacheFresh
  <2> QED
    BY <2>1, <2>2, <2>3, SameSeen DEF TiersOK
<1>4. ASSUME NEW p \in Ingesters, CommitBlock(p) PROVE TiersOK'
  <2>1. txn' = [txn EXCEPT ![p] = NoWrites]
        /\ stakers' = [a \in Addrs |-> [staked_amount |-> AmountSeen(p, a),
                                        tier |-> TierSeen(p, a)]]
    BY <1>4 DEF CommitBlock
  <2>2. CASE UNCHANGED stakers
    BY <1>2, <2>1, <2>2
  <2>3. CASE ~UNCHANGED stakers
    <3>1. \A q \in Ingesters \ {p} : txn[q].events = {} /\ txn'[q] = txn[q]
      BY <1>0, <1>4, <2>1, <2>3, CommitAlone
    <3>2. \A q \in Ingesters : \A a \in Addrs :
            txn'[q].amount[a] = Clean /\ txn'[q].tier[a] = "clean"
      BY <1>0, <2>1, <3>1, NoWritesStakes DEF Apart, Untouched
    <3>3. TierCacheFresh'
      BY <2>1 DEF TiersOK, TierCacheFresh
    <3> QED
      BY <3>2, <3>3, EmptySeen DEF TiersOK, TierCacheFresh
  <2> QED
    BY <2>2, <2>3
<1>5. ASSUME UNCHANGED ingestVars, NEW k \in Handlers, UnstakeCommit(k) \/ CancelCommit(k)
      PROVE  TiersOK'
  <2>1. hand[k].pc \in Holding /\ hand[k].pc \in Staking /\ txn' = txn
    BY <1>5 DEF UnstakeCommit, CancelCommit, Holding, Staking, ingestVars
  <2>2. PICK n : StakerUpdate(k, n)
    BY <1>5 DEF UnstakeCommit, CancelCommit
  <2>3. TierCacheFresh'
    BY <2>1, <2>2, UpdatedStaker DEF HandFresh, TiersOK, TierCacheFresh
  <2>4. ASSUME NEW q \in Ingesters, NEW a \in Addrs
        PROVE  TierSeen(q, a)' = tier_for(AmountSeen(q, a)')
    <3>1. CASE a = hand[k].address
      <4>1. txn'[q].amount[a] = Clean /\ txn'[q].tier[a] = "clean"
        BY <2>1, <3>1, HandlerAlone DEF Apart
      <4>2. AmountSeen(q, a)' = stakers'[a].staked_amount /\ TierSeen(q, a)' = stakers'[a].tier
        BY <4>1 DEF AmountSeen, TierSeen
      <4> QED
        BY <2>3, <4>2 DEF TierCacheFresh
    <3>2. CASE a # hand[k].address
      <4>1. stakers'[a] = stakers[a]
        BY <2>2, <3>2, UpdatedStaker
      <4>2. AmountSeen(q, a)' = AmountSeen(q, a) /\ TierSeen(q, a)' = TierSeen(q, a)
        BY <2>1, <4>1 DEF AmountSeen, TierSeen
      <4> QED
        BY <4>2 DEF TiersOK
    <3> QED
      BY <3>1, <3>2
  <2> QED
    BY <2>3, <2>4 DEF TiersOK
<1> QED
  BY <1>1, <1>2, <1>3, <1>4, <1>5, StepKinds

LockedInv == TypeInv /\ IngestInv /\ Apart /\ RowsApart /\ HandFresh /\ TiersOK

LEMMA LockedInit == Init => LockedInv
<1> SUFFICES ASSUME Init PROVE LockedInv
  OBVIOUS
<1>1. RowsApart /\ HandFresh
  BY DEF Init, ApiInit, IdleHandler, Handling, RowsApart, Staking, HandFresh, Holding
<1>2. \A a \in Addrs : stakers[a].staked_amount = 0 /\ stakers[a].tier = "None"
  BY DEF Init, DbInit
<1>3. tier_for(0) = "None"
  BY DEF tier_for
<1>4. \A p \in Ingesters : txn[p].events = {}
  BY NoWritesStakes DEF Init, IngestInit
<1>5. TiersOK
  BY <1>2, <1>3, <1>4, ApartInit, CleanSeen DEF TiersOK, TierCacheFresh
<1> QED
  BY <1>1, <1>5, InitType, IngestInitInv, ApartInit DEF LockedInv

LEMMA LockedNext == LockedInv /\ [Next /\ RowsApart']_vars => LockedInv'
<1> SUFFICES ASSUME LockedInv, [Next /\ RowsApart']_vars PROVE LockedInv'
  OBVIOUS
<1>1. [Next]_vars
  OBVIOUS
<1>2. RowsApart'
  BY DEF LockedInv, RowsApart, vars, ingestVars, apiVars, unstakeVars
<1> QED
  BY <1>1, <1>2, NextType, NextIngestInv, ApartNext, HandFreshNext, TiersNext DEF LockedInv

LEMMA LockedInvHolds == LockedSpec => []LockedInv
BY LockedInit, LockedNext, PTL DEF LockedSpec

\* _refresh_tier_cache, in the ledger and in the handlers: with any number of
\* ingesters side by side, failing and restarting, and any number of handlers,
\* the stored tier is that of the stored amount, if the handlers and the blocks
\* of one staker take turns.
THEOREM TiersFresh == LockedSpec => []TierCacheFresh
<1>1. LockedInv => TierCacheFresh
  BY DEF LockedInv, TiersOK
<1> QED
  BY <1>1, LockedInvHolds, PTL
-----------------------------------------------------------------------------
(* Sums of events and of requests *)

\* The events of type t of a among the events E, and what they add up to.
Moved(E, a, t) == {e \in E : e.address = a /\ e.event_type = t}
Units(E, a, t) == Total([e \in Moved(E, a, t) |-> e.amount])

LEMMA MovedFinite ==
  ASSUME NEW E, IsFiniteSet(E), NEW a, NEW t
  PROVE  IsFiniteSet(Moved(E, a, t))
<1>1. Moved(E, a, t) \subseteq E
  BY DEF Moved
<1> QED
  BY <1>1, FS_Subset

LEMMA MovedAmounts ==
  ASSUME NEW E, E \subseteq Event, NEW a, NEW t
  PROVE  [e \in Moved(E, a, t) |-> e.amount] \in [Moved(E, a, t) -> Nat]
<1>1. \A e \in Moved(E, a, t) : e.amount \in Nat
  BY DEF Moved, Event
<1> QED
  BY <1>1

LEMMA UnitsType ==
  ASSUME NEW E, E \subseteq Event, IsFiniteSet(E), NEW a, NEW t
  PROVE  Units(E, a, t) \in Nat
<1>1. IsFiniteSet(Moved(E, a, t))
  BY MovedFinite
<1>2. [e \in Moved(E, a, t) |-> e.amount] \in [Moved(E, a, t) -> Nat]
  BY MovedAmounts
<1> QED
  BY <1>1, <1>2, TotalType DEF Units

LEMMA UnitsNone == \A a, t : Units({}, a, t) = 0
<1> TAKE a, t
<1>1. Moved({}, a, t) = {}
  BY DEF Moved
<1>2. DOMAIN [e \in Moved({}, a, t) |-> e.amount] = {}
  BY <1>1
<1> QED
  BY <1>2, TotalNone DEF Units

LEMMA UnitsUnion ==
  ASSUME NEW E, E \subseteq Event, IsFiniteSet(E), NEW F, F \subseteq Event, IsFiniteSet(F),
         E \cap F = {}, NEW a, NEW t
  PROVE  Units(E \cup F, a, t) = Units(E, a, t) + Units(F, a, t)
<1> PICK T : T = Moved(E, a, t)
  OBVIOUS
<1> PICK U : U = Moved(F, a, t)
  OBVIOUS
<1>1. Moved(E \cup F, a, t) = T \cup U /\ T \cap U = {}
  BY DEF Moved
<1>2. IsFiniteSet(T)
  BY MovedFinite
<1>3. IsFiniteSet(U)
  BY MovedFinite
<1> DEFINE f == [e \in T \cup U |-> e.amount]
<1>4. f \in [T \cup U -> Nat]
  BY DEF Moved, Event
<1>5. [e \in T |-> f[e]] = [e \in T |-> e.amount] /\ [e \in U |-> f[e]] = [e \in U |-> e.amount]
  OBVIOUS
<1> HIDE DEF f
<1>6. Total(f) = Total([e \in T |-> f[e]]) + Total([e \in U |-> f[e]])
  BY <1>1, <1>2, <1>3, <1>4, TotalUnion
<1>7. Units(E \cup F, a, t) = Total(f)
  BY <1>1 DEF Units, f
<1>8. Units(E, a, t) = Total([e \in T |-> e.amount])
  BY DEF Units
<1>9. Units(F, a, t) = Total([e \in U |-> e.amount])
  BY DEF Units
<1> QED
  BY <1>5, <1>6, <1>7, <1>8, <1>9

LEMMA UnitsOne ==
  ASSUME NEW e \in Event, NEW a, NEW t
  PROVE  Units({e}, a, t) = IF e.address = a /\ e.event_type = t THEN e.amount ELSE 0
<1>1. CASE e.address = a /\ e.event_type = t
  <2>1. Moved({e}, a, t) = {e}
    BY <1>1 DEF Moved
  <2> DEFINE f == [d \in {e} |-> d.amount]
  <2>2. f \in [{e} -> Nat] /\ f[e] = e.amount
    BY DEF Event
  <2> HIDE DEF f
  <2>3. Total(f) = e.amount
    BY <2>2, TotalOne
  <2> QED
    BY <1>1, <2>1, <2>3 DEF Units, f
<1>2. CASE ~(e.address = a /\ e.event_type = t)
  <2>1. Moved({e}, a, t) = {}
    BY <1>2 DEF Moved
  <2>2. DOMAIN [d \in Moved({e}, a, t) |-> d.amount] = {}
    BY <2>1
  <2> QED
    BY <1>2, <2>2, TotalNone DEF Units
<1> QED
  BY <1>1, <1>2

\* One more event.
LEMMA UnitsAdd ==
  ASSUME NEW E, E \subseteq Event, IsFiniteSet(E), NEW e \in Event, e \notin E, NEW a, NEW t
  PROVE  Units(E \cup {e}, a, t) =
           Units(E, a, t) + IF e.address = a /\ e.event_type = t THEN e.amount ELSE 0
<1>1. IsFiniteSet({e}) /\ {e} \subseteq Event /\ E \cap {e} = {}
  BY FS_Singleton
<1>2. Units(E \cup {e}, a, t) = Units(E, a, t) + Units({e}, a, t)
  BY <1>1, UnitsUnion
<1> QED
  BY <1>2, UnitsOne

\* The requests of a in the table R that are not cancelled, and their sum.
OpenIn(R, a) == {r \in DOMAIN R : R[r].address = a /\ R[r].status # "CANCELLED"}
OpenSum(R, a) == Total([r \in OpenIn(R, a) |-> R[r].amount])

LEMMA OpenPart ==
  ASSUME NEW R \in Seq(Request), NEW a
  PROVE  IsFiniteSet(OpenIn(R, a)) /\ [r \in OpenIn(R, a) |-> R[r].amount] \in [OpenIn(R, a) -> Nat]
<1>1. DOMAIN R = 1..Len(R) /\ Len(R) \in Nat
  OBVIOUS
<1>2. IsFiniteSet(DOMAIN R)
  BY <1>1, FS_Interval
<1>3. OpenIn(R, a) \subseteq DOMAIN R
  BY DEF OpenIn
<1>4. IsFiniteSet(OpenIn(R, a))
  BY <1>2, <1>3, FS_Subset
<1>5. \A r \in DOMAIN R : R[r] \in Request
  OBVIOUS
<1>6. \A r \in DOMAIN R : R[r].amount \in Nat
  BY <1>5 DEF Request
<1> QED
  BY <1>3, <1>4, <1>6

LEMMA OpenSumType ==
  ASSUME NEW R \in Seq(Request), NEW a
  PROVE  OpenSum(R, a) \in Nat
BY OpenPart, TotalType DEF OpenSum

\* Two tables with the same open requests.
LEMMA OpenSumSame ==
  ASSUME NEW R, NEW Q, NEW a, OpenIn(R, a) = OpenIn(Q, a),
         \A r \in OpenIn(R, a) : R[r].amount = Q[r].amount
  PROVE  OpenSum(R, a) = OpenSum(Q, a)
<1>1. [r \in OpenIn(R, a) |-> R[r].amount] = [r \in OpenIn(Q, a) |-> Q[r].amount]
  OBVIOUS
<1> QED
  BY <1>1 DEF OpenSum

\* Q has one more open request of a than R.
LEMMA OpenSumAdd ==
  ASSUME NEW R \in Seq(Request), NEW Q \in Seq(Request), NEW a, NEW x, x \notin OpenIn(R, a),
         OpenIn(Q, a) = OpenIn(R, a) \cup {x}, \A r \in OpenIn(R, a) : R[r].amount = Q[r].amount
  PROVE  OpenSum(Q, a) = OpenSum(R, a) + Q[x].amount
<1> PICK T : T = OpenIn(R, a)
  OBVIOUS
<1> DEFINE f == [r \in T \cup {x} |-> Q[r].amount]
<1>1. IsFiniteSet(T) /\ x \notin T
  BY OpenPart
<1>2. f \in [T \cup {x} -> Nat]
  BY OpenPart
<1>3. [r \in T |-> f[r]] = [r \in T |-> R[r].amount] /\ f[x] = Q[x].amount
  OBVIOUS
<1> HIDE DEF f
<1>4. Total(f) = Total([r \in T |-> f[r]]) + f[x]
  BY <1>1, <1>2, TotalAdd
<1>5. OpenSum(Q, a) = Total(f)
  BY DEF OpenSum, f
<1>6. OpenSum(R, a) = Total([r \in T |-> R[r].amount])
  BY DEF OpenSum
<1> QED
  BY <1>3, <1>4, <1>5, <1>6

\* Q is R with one more request that is not cancelled.
LEMMA OpenSumNew ==
  ASSUME NEW R \in Seq(Request), NEW Q \in Seq(Request), NEW x, Q[x].status # "CANCELLED",
         DOMAIN Q = DOMAIN R \cup {x}, x \notin DOMAIN R, \A r \in DOMAIN R : Q[r] = R[r], NEW a
  PROVE  OpenSum(Q, a) = OpenSum(R, a) + IF Q[x].address = a THEN Q[x].amount ELSE 0
<1>1. \A r \in OpenIn(R, a) : R[r].amount = Q[r].amount
  BY DEF OpenIn
<1>2. CASE Q[x].address = a
  <2>1. OpenIn(Q, a) = OpenIn(R, a) \cup {x} /\ x \notin OpenIn(R, a)
    BY <1>2 DEF OpenIn
  <2>2. OpenSum(Q, a) = OpenSum(R, a) + Q[x].amount
    BY <1>1, <2>1, OpenSumAdd
  <2> QED
    BY <1>2, <2>2
<1>3. CASE Q[x].address # a
  <2>1. OpenIn(R, a) = OpenIn(Q, a)
    BY <1>3 DEF OpenIn
  <2>2. OpenSum(R, a) = OpenSum(Q, a)
    BY <1>1, <2>1, OpenSumSame
  <2>3. OpenSum(R, a) \in Nat
    BY OpenSumType
  <2> QED
    BY <1>3, <2>2, <2>3
<1> QED
  BY <1>2, <1>3

\* Q is R with request x cancelled.
LEMMA OpenSumCancel ==
  ASSUME NEW R \in Seq(Request), NEW Q \in Seq(Request), NEW x \in DOMAIN R,
         R[x].status # "CANCELLED", Q[x].status = "CANCELLED", DOMAIN Q = DOMAIN R,
         \A r \in DOMAIN R \ {x} : Q[r] = R[r], NEW a
  PROVE  OpenSum(R, a) = OpenSum(Q, a) + IF R[x].address = a THEN R[x].amount ELSE 0
<1>1. \A r \in OpenIn(Q, a) : Q[r].amount = R[r].amount
  BY DEF OpenIn
<1>2. CASE R[x].address = a
  <2>1. OpenIn(R, a) = OpenIn(Q, a) \cup {x} /\ x \notin OpenIn(Q, a)
    BY <1>2 DEF OpenIn
  <2>2. OpenSum(R, a) = OpenSum(Q, a) + R[x].amount
    BY <1>1, <2>1, OpenSumAdd
  <2> QED
    BY <1>2, <2>2
<1>3. CASE R[x].address # a
  <2>1. OpenIn(Q, a) = OpenIn(R, a)
    BY <1>3 DEF OpenIn
  <2>2. OpenSum(Q, a) = OpenSum(R, a)
    BY <1>1, <2>1, OpenSumSame
  <2>3. OpenSum(Q, a) \in Nat
    BY OpenSumType
  <2> QED
    BY <1>3, <2>2, <2>3
<1> QED
  BY <1>2, <1>3

-----------------------------------------------------------------------------
(* Requests under way *)

Cancelling == {"cancel", "cancel_height", "cancel_commit"}

\* A request that a handler is about to cancel, or the watcher is about to
\* refund, is not cancelled, and the handler works for its owner.
RequestsOK ==
  /\ \A k \in Handlers : hand[k].pc \in Cancelling =>
       /\ unstake_requests[hand[k].arg].status # "CANCELLED"
       /\ unstake_requests[hand[k].arg].address = hand[k].address
  /\ \A p \in Ingesters : \A r \in txn[p].ready : unstake_requests[r].status # "CANCELLED"

\* What a session is about to refund: as before, nothing, or what the query of
\* process_unlocked_unstakes has found.
LEMMA ReadyStep ==
  ASSUME TypeInv, [Next]_vars, NEW p \in Ingesters, NEW r \in txn'[p].ready
  PROVE  r \in txn[p].ready \/ unstake_requests[r].status = "PENDING"
<1>0. Watcher \in Ingesters /\ Snapshots \subseteq Ingesters /\ txn \in [Ingesters -> Writes]
  BY DEF Ingesters, TypeInv, TypeOK, IngestTypeOK
<1>1. CASE txn'[p].ready = txn[p].ready \/ txn'[p] = NoWrites
  BY <1>1 DEF NoWrites
<1>2. CASE UnlockUnstakes
  <2>1. txn'[p].ready = txn[p].ready \/ txn'[p].ready = Unlocked(ing[Watcher].h)
    BY <1>0, <1>2 DEF UnlockUnstakes, Writes
  <2> QED
    BY <2>1 DEF Unlocked
<1>3. ASSUME NEW q \in Ingesters, RecordEvent(q) PROVE txn'[p].ready = txn[p].ready
  <2>1. EventWrites(q, CurEvent(q)).ready = txn[q].ready
        /\ txn' = [txn EXCEPT ![q] = EventWrites(q, CurEvent(q))]
    BY <1>3, RecordWrites, EventWritesType
  <2> QED
    BY <1>0, <2>1
<1>4. ASSUME NEW q \in Ingesters, CreditRewards(q) PROVE txn'[p].ready = txn[p].ready
  <2>1. PICK w : /\ txn' = [txn EXCEPT ![q] = w]
                 /\ w = RewardWrites(q, TxOf(q).amount, [a \in Addrs |-> AmountSeen(q, a)])
    BY <1>4 DEF CreditRewards
  <2>2. w.ready = txn[q].ready
    BY <1>0, <2>1 DEF RewardWrites, Writes
  <2> QED
    BY <1>0, <2>1, <2>2
<1>5. ASSUME NEW q \in Ingesters,
             DuplicateEvent(q) \/ CommitBlock(q) \/ IntegrityAbort(q) \/ Fail(q)
      PROVE  txn'[p] = txn[p] \/ txn'[p] = NoWrites
  <2>1. txn' = [txn EXCEPT ![q] = NoWrites]
    BY <1>5 DEF DuplicateEvent, CommitBlock, IntegrityAbort, Fail, Abandon
  <2> QED
    BY <1>0, <2>1
<1>6. CASE txn' = txn
  BY <1>1, <1>6
<1>7. \/ txn' = txn \/ UnlockUnstakes
      \/ \E q \in Ingesters : RecordEvent(q) \/ CreditRewards(q) \/ DuplicateEvent(q)
                              \/ CommitBlock(q) \/ IntegrityAbort(q) \/ Fail(q)
  BY <1>0 DEF Next, IngestNext, IngestWork, Mine, WatcherStep, SnapshotStep, IngestStep,
     WatcherTick, ReadTip, IgnoreTx, SnapshotStart, SnapshotRefresh, SnapshotComplete,
     ingestVars, vars
<1> QED
  BY <1>1, <1>2, <1>3, <1>4, <1>5, <1>6, <1>7

\* A handler that is cancelling was so before, on the same request, or has just
\* found it PENDING or READY.
LEMMA CancellingStep ==
  ASSUME TypeInv, [Next]_vars, NEW k \in Handlers, hand'[k].pc \in Cancelling
  PROVE  \/ /\ hand[k].pc \in Cancelling
            /\ hand'[k].arg = hand[k].arg /\ hand'[k].address = hand[k].address
         \/ /\ hand'[k].arg \in DOMAIN unstake_requests
            /\ unstake_requests[hand'[k].arg].status # "CANCELLED"
            /\ unstake_requests[hand'[k].arg].address = hand'[k].address
<1>0. hand \in [Handlers -> HandlerStates]
  BY DEF TypeInv, TypeOK, ApiTypeOK
<1>1. CASE hand'[k] = hand[k]
  BY <1>1
<1>2. CASE hand'[k] # hand[k]
  <2>1. PICK l \in Handlers :
          \/ \E a \in Accounts, m \in UserAmounts : UnstakeLoad(l, a, m)
          \/ \E r \in DOMAIN unstake_requests : CancelLoad(l, r)
          \/ \E a \in Accounts : ClaimLoad(l, a)
          \/ HandlerStep(l) \/ HandlerAbort(l)
    BY <1>2 DEF Next, ApiNext, vars, apiVars
  <2>2. \E j : hand' = [hand EXCEPT ![l] = j]
    BY <2>1 DEF UnstakeLoad, CancelLoad, ClaimLoad, HandlerStep, HandlerAbort, Begin, Goto,
       ReadHeight, UnstakeHeight, UnstakeCommit, CancelLoadStaker, CancelHeight, CancelCommit,
       ClaimHeight, ClaimRefused
  <2>3. l = k
    BY <1>0, <1>2, <2>2
  <2>4. CASE \E r \in DOMAIN unstake_requests : CancelLoad(k, r)
    BY <1>0, <2>4 DEF CancelLoad, Begin, Handling
  <2>5. CASE CancelLoadStaker(k)
    BY <1>0, <2>5 DEF CancelLoadStaker, Goto, Handling, Cancelling
  <2>6. CASE CancelHeight(k)
    BY <1>0, <2>6 DEF CancelHeight, ReadHeight, Goto, Handling, IdleHandler, Cancelling
  <2>7. CASE \/ \E a \in Accounts, m \in UserAmounts : UnstakeLoad(k, a, m)
             \/ \E a \in Accounts : ClaimLoad(k, a)
             \/ UnstakeHeight(k) \/ ClaimHeight(k) \/ ClaimRefused(k) \/ HandlerAbort(k)
             \/ UnstakeCommit(k) \/ CancelCommit(k)
    <3>1. hand'[k].pc \notin Cancelling
      BY <1>0, <2>7 DEF UnstakeLoad, ClaimLoad, UnstakeHeight, ClaimHeight, ClaimRefused,
         HandlerAbort, UnstakeCommit, CancelCommit, Begin, ReadHeight, Goto, Handling,
         IdleHandler, Cancelling
    <3> QED
      BY <3>1
  <2> QED
    BY <2>1, <2>3, <2>4, <2>5, <2>6, <2>7 DEF HandlerStep
<1> QED
  BY <1>1, <1>2

LEMMA RequestsNext ==
  ASSUME TypeInv, RowsApart, RequestsOK, [Next]_vars
  PROVE  RequestsOK'
<1>0. /\ hand \in [Handlers -> HandlerStates] /\ unstake_requests \in Seq(Request)
      /\ \A p \in Ingesters : txn[p].ready \subseteq DOMAIN unstake_requests
      /\ \A k \in Handlers : hand[k].pc \in Cancelling => hand[k].arg \in DOMAIN unstake_requests
  BY DEF TypeInv, TypeOK, ApiTypeOK, DbTypeOK, LocalOK, Cancelling
<1>1. CASE UNCHANGED unstake_requests
  BY <1>1, ReadyStep, CancellingStep DEF RequestsOK
<1>2. ASSUME NEW p \in Ingesters, CommitBlock(p) PROVE RequestsOK'
  <2>1. \A r \in DOMAIN unstake_requests :
          /\ unstake_requests'[r].address = unstake_requests[r].address
          /\ unstake_requests[r].status # "CANCELLED" => unstake_requests'[r].status # "CANCELLED"
    BY <1>0, <1>2, RequestType DEF CommitBlock, Request
  <2>2. \A q \in Ingesters : \A r \in txn'[q].ready : r \in txn[q].ready
    BY <1>2 DEF CommitBlock, NoWrites, TypeInv, TypeOK, IngestTypeOK
  <2> QED
    BY <1>0, <2>1, <2>2, CancellingStep DEF RequestsOK
<1>3. ASSUME UNCHANGED ingestVars, NEW k \in Handlers, UnstakeCommit(k) \/ CancelCommit(k)
      PROVE  RequestsOK'
  <2>1. hand' = [hand EXCEPT ![k] = IdleHandler] /\ hand[k].pc \in Staking /\ txn' = txn
    BY <1>3 DEF UnstakeCommit, CancelCommit, Staking, ingestVars
  <2>2. ASSUME NEW r \in DOMAIN unstake_requests,
               unstake_requests[r].address # hand[k].address \/ UnstakeCommit(k)
        PROVE  unstake_requests'[r] = unstake_requests[r]
    <3>1. CASE UnstakeCommit(k)
      <4>1. PICK q : unstake_requests' = Append(unstake_requests, q)
        BY <3>1 DEF UnstakeCommit
      <4> QED
        BY <1>0, <4>1
    <3>2. CASE CancelCommit(k)
      <4>1. hand[k].pc \in Cancelling
            /\ unstake_requests' = [unstake_requests EXCEPT ![hand[k].arg].status = "CANCELLED"]
        BY <3>2 DEF CancelCommit, Cancelling
      <4>2. CASE UnstakeCommit(k)
        BY <3>1, <4>2
      <4>3. CASE unstake_requests[r].address # hand[k].address
        <5>1. r # hand[k].arg
          BY <4>1, <4>3 DEF RequestsOK
        <5> QED
          BY <1>0, <4>1, <5>1
      <4> QED
        BY <2>2, <4>2, <4>3
    <3> QED
      BY <1>3, <3>1, <3>2
  <2>3. ASSUME NEW l \in Handlers, hand'[l].pc \in Cancelling
        PROVE  /\ unstake_requests'[hand'[l].arg].status # "CANCELLED"
               /\ unstake_requests'[hand'[l].arg].address = hand'[l].address
    <3>1. l # k
      BY <1>0, <2>1, <2>3 DEF IdleHandler, Handling, Cancelling
    <3>2. hand'[l] = hand[l] /\ hand[l].pc \in Cancelling /\ hand[l].pc \in Staking
      BY <1>0, <2>1, <2>3, <3>1 DEF Cancelling, Staking
    <3>3. hand[l].address # hand[k].address
      BY <2>1, <3>1, <3>2, HandlerAlone
    <3>4. unstake_requests'[hand[l].arg] = unstake_requests[hand[l].arg]
      BY <1>0, <2>2, <3>2, <3>3 DEF RequestsOK
    <3> QED
      BY <3>2, <3>4 DEF RequestsOK
  <2>4. ASSUME NEW p \in Ingesters, NEW r \in txn'[p].ready
        PROVE  unstake_requests'[r].status # "CANCELLED"
    <3>1. r \in txn[p].ready /\ r \in DOMAIN unstake_requests
      BY <1>0, <2>1
    <3>2. unstake_requests'[r] = unstake_requests[r]
      BY <2>1, <2>2, <3>1, HandlerAlone
    <3> QED
      BY <3>1, <3>2 DEF RequestsOK
  <2> QED
    BY <2>3, <2>4 DEF RequestsOK
<1>4. ASSUME NEW p \in Ingesters, RecordEvent(p) PROVE RequestsOK'
  BY <1>1, <1>4, RecordWrites DEF unstakeVars
<1> QED
  BY <1>1, <1>2, <1>3, <1>4, StepKinds DEF unstakeVars

-----------------------------------------------------------------------------
(* What the stakes add up to *)

\* The rows of a session are of transactions it is done with.
Ordered ==
  \A p \in Ingesters : \A e \in txn[p].events : e.tx_hash[2] < ing[p].i

LEMMA OrderedNext ==
  ASSUME TypeInv, IngestInv, Ordered, [Next]_vars
  PROVE  Ordered'
<1>0. /\ Watcher \in Ingesters /\ Snapshots \subseteq Ingesters
      /\ txn \in [Ingesters -> Writes] /\ ing \in [Ingesters -> Jobs]
      /\ \A p \in Ingesters : ing[p].i \in Nat
  BY OwnJob DEF Ingesters, TypeInv, TypeOK, IngestTypeOK
<1>1. ASSUME NEW p \in Ingesters, \A q \in Ingesters \ {p} : ing'[q] = ing[q] /\ txn'[q] = txn[q],
             \A e \in txn'[p].events : e.tx_hash[2] < ing'[p].i
      PROVE  Ordered'
  BY <1>1 DEF Ordered
<1>2. ASSUME NEW p \in Ingesters,
             \/ ReadTip(p) \/ (p = Watcher /\ WatcherTick)
             \/ SnapshotStart(p) \/ SnapshotRefresh(p) \/ SnapshotComplete(p)
      PROVE  Ordered'
  <2>1. ing[p].pc \notin Active /\ txn' = txn /\ \E j : ing' = [ing EXCEPT ![p] = j]
    BY <1>2 DEF ReadTip, WatcherTick, SnapshotStart, SnapshotRefresh, SnapshotComplete, Active
  <2>2. txn'[p].events = {}
    BY <2>1, RestWrites
  <2> QED
    BY <1>0, <1>1, <2>1, <2>2
<1>3. ASSUME NEW p \in Ingesters,
             DuplicateEvent(p) \/ CommitBlock(p) \/ IntegrityAbort(p) \/ Fail(p)
      PROVE  Ordered'
  <2>1. txn' = [txn EXCEPT ![p] = NoWrites] /\ \E j : ing' = [ing EXCEPT ![p] = j]
    BY <1>3 DEF DuplicateEvent, NextTx, CommitBlock, IntegrityAbort, Fail, Abandon
  <2> QED
    BY <1>0, <1>1, <2>1, NoneWritten
<1>4. ASSUME NEW p \in Ingesters, IgnoreTx(p) \/ CreditRewards(p) PROVE Ordered'
  <2>1. ing' = [ing EXCEPT ![p] = Job("apply", ing[p].h, ing[p].i + 1, ing[p].tip)]
    BY <1>4 DEF IgnoreTx, CreditRewards, NextTx
  <2>2. ing'[p].i = ing[p].i + 1 /\ \A q \in Ingesters \ {p} : ing'[q] = ing[q]
    BY <1>0, <2>1 DEF Job
  <2>3. \E w : txn' = [txn EXCEPT ![p] = w] /\ w.events = txn[p].events
    <3>1. CASE IgnoreTx(p)
      BY <3>1, SameTxn DEF IgnoreTx
    <3>2. CASE CreditRewards(p)
      <4>1. PICK w : /\ txn' = [txn EXCEPT ![p] = w]
                     /\ w = RewardWrites(p, TxOf(p).amount, [a \in Addrs |-> AmountSeen(p, a)])
        BY <3>2 DEF CreditRewards
      <4>2. w.events = txn[p].events
        BY <1>0, <4>1 DEF RewardWrites, Writes
      <4> QED
        BY <4>1, <4>2
    <3> QED
      BY <1>4, <3>1, <3>2
  <2>4. txn'[p].events = txn[p].events /\ \A q \in Ingesters \ {p} : txn'[q] = txn[q]
    BY <1>0, <2>3
  <2>5. \A e \in txn'[p].events : e.tx_hash[2] < ing'[p].i
    <3> TAKE e \in txn'[p].events
    <3>1. e \in Event /\ e.tx_hash[2] < ing[p].i
      BY <1>0, <2>4 DEF Ordered, Writes
    <3>2. e.tx_hash[2] \in Nat
      BY <3>1 DEF Event
    <3> QED
      BY <1>0, <2>2, <3>1, <3>2
  <2> QED
    BY <1>1, <2>2, <2>4, <2>5
<1>5. ASSUME NEW p \in Ingesters, RecordEvent(p) PROVE Ordered'
  <2>1. ing' = [ing EXCEPT ![p] = Job("apply", ing[p].h, ing[p].i + 1, ing[p].tip)]
    BY <1>5 DEF RecordEvent, NextTx
  <2>2. ing'[p].i = ing[p].i + 1 /\ \A q \in Ingesters \ {p} : ing'[q] = ing[q]
    BY <1>0, <2>1 DEF Job
  <2>3. txn'[p].events = txn[p].events \cup {CurEvent(p)}
        /\ \A q \in Ingesters \ {p} : txn'[q] = txn[q]
    BY <1>0, <1>5, RecordWrites
  <2>4. CurEvent(p).tx_hash[2] = ing[p].i
    BY DEF CurEvent, EventOf
  <2>5. \A e \in txn'[p].events : e.tx_hash[2] < ing'[p].i
    <3> TAKE e \in txn'[p].events
    <3>1. CASE e = CurEvent(p)
      BY <1>0, <2>2, <2>4, <3>1
    <3>2. CASE e \in txn[p].events
      <4>1. e \in Event /\ e.tx_hash[2] < ing[p].i
        BY <1>0, <3>2 DEF Ordered, Writes
      <4>2. e.tx_hash[2] \in Nat
        BY <4>1 DEF Event
      <4> QED
        BY <1>0, <2>2, <4>1, <4>2
    <3> QED
      BY <2>3, <3>1, <3>2
  <2> QED
    BY <1>1, <2>2, <2>3, <2>5
<1>6. CASE UnlockUnstakes
  <2>1. /\ \A p \in Ingesters : txn'[p].events = txn[p].events
        /\ \A p \in Ingesters : ing'[p].i = ing[p].i
    BY <1>0, <1>6 DEF UnlockUnstakes, Writes, Job
  <2> QED
    BY <2>1 DEF Ordered
<1>7. CASE UNCHANGED <<ing, txn>>
  BY <1>7 DEF Ordered
<1>8. \/ UNCHANGED <<ing, txn>> \/ UnlockUnstakes \/ WatcherTick
      \/ \E p \in Ingesters : ReadTip(p) \/ Fail(p) \/ IgnoreTx(p) \/ RecordEvent(p)
           \/ DuplicateEvent(p) \/ CreditRewards(p) \/ CommitBlock(p) \/ IntegrityAbort(p)
      \/ \E s \in Snapshots : SnapshotStart(s) \/ SnapshotRefresh(s) \/ SnapshotComplete(s)
  BY <1>0 DEF Next, IngestNext, IngestWork, Mine, WatcherStep, SnapshotStep, IngestStep,
     ingestVars, vars
<1> QED
  BY <1>0, <1>2, <1>3, <1>4, <1>5, <1>6, <1>7, <1>8

\* What session p reads of a is what is committed and its own deposits, less
\* no more than its own withdrawals: they stop at zero.
SeenWithin(p, a) ==
  /\ AmountSeen(p, a) <= stakers[a].staked_amount + Units(txn[p].events, a, "STAKE")
  /\ stakers[a].staked_amount + Units(txn[p].events, a, "STAKE")
       <= AmountSeen(p, a) + Units(txn[p].events, a, "UNSTAKE")

SessionSums ==
  \A p \in Ingesters : IsFiniteSet(txn[p].events) /\ \A a \in Addrs : SeenWithin(p, a)

\* What is committed, with what is on its way out, is what was deposited, less
\* no more than what was withdrawn.
StakeWithin(a) ==
  /\ stakers[a].staked_amount + Unstaking(a) <= Deposited(a)
  /\ Deposited(a) <= stakers[a].staked_amount + Unstaking(a) + Withdrawn(a)

LedgerSums == IsFiniteSet(stake_events) /\ \A a \in Addrs : StakeWithin(a)

AccountInv == Ordered /\ RequestsOK /\ SessionSums /\ LedgerSums

\* The row of a transaction is a new one.
LEMMA NewRow ==
  ASSUME TypeInv, Ordered, NEW p \in Ingesters, RecordEvent(p)
  PROVE  CurEvent(p) \notin txn[p].events
<1>1. ing[p].i \in Nat
  BY OwnJob
<1>2. CurEvent(p).tx_hash[2] = ing[p].i
  BY DEF CurEvent, EventOf
<1> QED
  BY <1>1, <1>2 DEF Ordered

\* Sessions that did not change, next to stakers that did not.
LEMMA SumsStay ==
  ASSUME SessionSums, NEW p \in Ingesters, SameStakes(txn[p], txn'[p]), NEW a \in Addrs,
         stakers'[a] = stakers[a]
  PROVE  IsFiniteSet(txn'[p].events) /\ SeenWithin(p, a)'
<1>1. txn'[p].events = txn[p].events /\ txn'[p].amount = txn[p].amount
  BY DEF SameStakes
<1>2. AmountSeen(p, a)' = AmountSeen(p, a)
  BY <1>1 DEF AmountSeen
<1> QED
  BY <1>1, <1>2 DEF SessionSums, SeenWithin

\* Sessions without writes, next to any stakers.
LEMMA SumsEmpty ==
  ASSUME NEW p \in Ingesters, txn'[p].events = {}, NEW a \in Addrs, txn'[p].amount[a] = Clean,
         stakers'[a].staked_amount \in Nat
  PROVE  IsFiniteSet(txn'[p].events) /\ SeenWithin(p, a)'
<1>1. IsFiniteSet(txn'[p].events)
  BY FS_EmptySet
<1>2. AmountSeen(p, a)' = stakers'[a].staked_amount
  BY DEF AmountSeen
<1>3. Units(txn'[p].events, a, "STAKE") = 0 /\ Units(txn'[p].events, a, "UNSTAKE") = 0
  BY UnitsNone
<1> QED
  BY <1>1, <1>2, <1>3 DEF SeenWithin

\* Sessions without events of a staker, next to any row of it.
LEMMA SumsUntouched ==
  ASSUME Apart, SessionSums, NEW p \in Ingesters, txn'[p] = txn[p], NEW a \in Addrs,
         Untouched(txn[p], a), stakers'[a].staked_amount \in Nat
  PROVE  IsFiniteSet(txn'[p].events) /\ SeenWithin(p, a)'
<1>1. IsFiniteSet(txn'[p].events)
  BY DEF SessionSums
<1>2. AmountSeen(p, a)' = stakers'[a].staked_amount
  BY DEF AmountSeen, Apart
<1>3. \A t : Units(txn'[p].events, a, t) = 0
  <2> TAKE t
  <2>1. Moved(txn'[p].events, a, t) = {}
    BY DEF Moved, Untouched
  <2>2. DOMAIN [e \in Moved(txn'[p].events, a, t) |-> e.amount] = {}
    BY <2>1
  <2> QED
    BY <2>2, TotalNone DEF Units
<1> QED
  BY <1>1, <1>2, <1>3 DEF SeenWithin

\* The session that has recorded an event: a deposit is added, a withdrawal
\* taken off as far as it goes.
LEMMA SumsRecord ==
  ASSUME TypeInv, Ordered, SessionSums, NEW p \in Ingesters, RecordEvent(p), NEW a \in Addrs
  PROVE  IsFiniteSet(txn'[p].events) /\ SeenWithin(p, a)'
<1> PICK e, E : e = CurEvent(p) /\ E = txn[p].events
  OBVIOUS
<1>1. /\ e \in Event /\ e \notin E /\ E \subseteq Event
      /\ e.amount \in Nat /\ e.address \in Addrs /\ e.event_type \in {"STAKE", "UNSTAKE"}
  BY NewRow, RecordWrites, OwnWrites DEF Event, Writes
<1>2. txn'[p].events = E \cup {e} /\ stakers' = stakers
  BY RecordWrites DEF TypeInv, TypeOK, IngestTypeOK
<1>3. IsFiniteSet(E) /\ SeenWithin(p, a)
  BY DEF SessionSums
<1>4. IsFiniteSet(txn'[p].events)
  BY <1>2, <1>3, FS_AddElement
<1> PICK n, old, S : /\ n = AmountAfter(e, AmountSeen(p, e.address))
                     /\ old = AmountSeen(p, a) /\ S = stakers[a].staked_amount
  OBVIOUS
<1> PICK D, W : D = Units(E, a, "STAKE") /\ W = Units(E, a, "UNSTAKE")
  OBVIOUS
<1>5. old \in Nat /\ S \in Nat
  BY SeenType DEF TypeInv, TypeOK, DbTypeOK
<1>6. D \in Nat /\ W \in Nat
  BY <1>1, <1>3, UnitsType
<1>7. old <= S + D /\ S + D <= old + W
  BY <1>3 DEF SeenWithin
<1>8. /\ Units(E \cup {e}, a, "STAKE")
           = D + IF e.address = a /\ e.event_type = "STAKE" THEN e.amount ELSE 0
      /\ Units(E \cup {e}, a, "UNSTAKE")
           = W + IF e.address = a /\ e.event_type = "UNSTAKE" THEN e.amount ELSE 0
  BY <1>1, <1>3, UnitsAdd
<1>9. CASE e.address # a
  <2>1. AmountSeen(p, a)' = old
    BY <1>9, RecordSeen
  <2>2. Units(E \cup {e}, a, "STAKE") = D /\ Units(E \cup {e}, a, "UNSTAKE") = W
    BY <1>6, <1>8, <1>9
  <2> QED
    BY <1>2, <1>4, <1>7, <2>1, <2>2 DEF SeenWithin
<1>10. CASE e.address = a
  <2>1. AmountSeen(p, a)' = n /\ n = AmountAfter(e, old)
    BY <1>10, RecordSeen
  <2>2. CASE e.event_type = "STAKE"
    <3>1. n = old + e.amount
      BY <2>1, <2>2 DEF AmountAfter
    <3>2. Units(E \cup {e}, a, "STAKE") = D + e.amount /\ Units(E \cup {e}, a, "UNSTAKE") = W
      BY <1>6, <1>8, <1>10, <2>2
    <3>3. n <= S + (D + e.amount) /\ S + (D + e.amount) <= n + W
      BY <1>1, <1>5, <1>6, <1>7, <3>1
    <3> QED
      BY <1>2, <1>4, <2>1, <3>2, <3>3 DEF SeenWithin
  <2>3. CASE e.event_type = "UNSTAKE"
    <3>1. n <= old /\ old <= n + e.amount /\ n \in Nat
      BY <1>1, <1>5, <2>1, <2>3 DEF AmountAfter
    <3>2. Units(E \cup {e}, a, "STAKE") = D /\ Units(E \cup {e}, a, "UNSTAKE") = W + e.amount
      BY <1>6, <1>8, <1>10, <2>3
    <3>3. n <= S + D /\ S + D <= n + (W + e.amount)
      BY <1>1, <1>5, <1>6, <1>7, <3>1
    <3> QED
      BY <1>2, <1>4, <2>1, <3>2, <3>3 DEF SeenWithin
  <2> QED
    BY <1>1, <2>2, <2>3
<1> QED
  BY <1>9, <1>10

LEMMA SessionSumsNext ==
  ASSUME TypeInv, TypeInv', IngestInv, Apart, RowsApart, Ordered, SessionSums, [Next]_vars
  PROVE  SessionSums'
<1>0. /\ txn \in [Ingesters -> Writes]
      /\ \A a \in Addrs : stakers'[a].staked_amount \in Nat
      /\ \E a : a \in Addrs
  BY DEF TypeInv, TypeOK, IngestTypeOK, DbTypeOK, Addrs
<1>1. ASSUME \A p \in Ingesters, a \in Addrs : IsFiniteSet(txn'[p].events) /\ SeenWithin(p, a)'
      PROVE  SessionSums'
  BY <1>0, <1>1 DEF SessionSums
<1>2. CASE UNCHANGED stakers /\ \A p \in Ingesters : SameStakes(txn[p], txn'[p])
  BY <1>1, <1>2, SumsStay
<1>3. ASSUME UNCHANGED stakers, NEW p \in Ingesters, txn' = [txn EXCEPT ![p] = NoWrites]
      PROVE  SessionSums'
  <2>1. txn'[p] = NoWrites /\ \A q \in Ingesters \ {p} : SameStakes(txn[q], txn'[q])
    BY <1>0, <1>3 DEF SameStakes
  <2>2. ASSUME NEW q \in Ingesters, NEW a \in Addrs
        PROVE  IsFiniteSet(txn'[q].events) /\ SeenWithin(q, a)'
    <3>1. CASE q = p
      BY <1>0, <2>1, <3>1, NoWritesStakes, SumsEmpty
    <3>2. CASE q # p
      BY <1>3, <2>1, <3>2, SumsStay
    <3> QED
      BY <3>1, <3>2
  <2> QED
    BY <1>1, <2>2
<1>4. ASSUME NEW p \in Ingesters, RecordEvent(p) PROVE SessionSums'
  <2>1. UNCHANGED stakers /\ \A q \in Ingesters \ {p} : SameStakes(txn[q], txn'[q])
    BY <1>0, <1>4, RecordWrites DEF SameStakes
  <2> QED
    BY <1>1, <1>4, <2>1, SumsStay, SumsRecord
<1>5. ASSUME NEW p \in Ingesters, CommitBlock(p) PROVE SessionSums'
  <2>1. txn' = [txn EXCEPT ![p] = NoWrites]
    BY <1>5 DEF CommitBlock
  <2>2. CASE UNCHANGED stakers
    BY <1>3, <2>1, <2>2
  <2>3. CASE ~UNCHANGED stakers
    <3>1. \A q \in Ingesters \ {p} : txn[q].events = {} /\ txn'[q] = txn[q]
      BY <1>0, <1>5, <2>1, <2>3, CommitAlone
    <3>2. \A q \in Ingesters : txn'[q].events = {} /\ \A a \in Addrs : txn'[q].amount[a] = Clean
      BY <1>0, <2>1, <3>1, NoWritesStakes DEF Apart, Untouched
    <3> QED
      BY <1>0, <1>1, <3>2, SumsEmpty
  <2> QED
    BY <2>2, <2>3
<1>6. ASSUME UNCHANGED ingestVars, NEW k \in Handlers, UnstakeCommit(k) \/ CancelCommit(k)
      PROVE  SessionSums'
  <2>1. hand[k].pc \in Staking /\ txn' = txn
    BY <1>6 DEF UnstakeCommit, CancelCommit, Staking, ingestVars
  <2>2. PICK n : StakerUpdate(k, n)
    BY <1>6 DEF UnstakeCommit, CancelCommit
  <2>3. ASSUME NEW q \in Ingesters, NEW a \in Addrs
        PROVE  IsFiniteSet(txn'[q].events) /\ SeenWithin(q, a)'
    <3>1. CASE a = hand[k].address
      BY <1>0, <2>1, <3>1, HandlerAlone, SumsUntouched
    <3>2. CASE a # hand[k].address
      <4>1. stakers'[a] = stakers[a] /\ SameStakes(txn[q], txn'[q])
        BY <2>1, <2>2, <3>2, UpdatedStaker DEF SameStakes
      <4> QED
        BY <4>1, SumsStay
    <3> QED
      BY <3>1, <3>2
  <2> QED
    BY <1>1, <2>3
<1> QED
  BY <1>2, <1>3, <1>4, <1>5, <1>6, StepKinds

LEMMA SumNames ==
  \A a : /\ Deposited(a) = Units(stake_events, a, "STAKE")
         /\ Withdrawn(a) = Units(stake_events, a, "UNSTAKE")
         /\ Unstaking(a) = OpenSum(unstake_requests, a)
BY DEF Deposited, Withdrawn, Units, Moved, Unstaking, OpenRequests, OpenSum, OpenIn

LEMMA SumNamesNext ==
  \A a : /\ Deposited(a)' = Units(stake_events', a, "STAKE")
         /\ Withdrawn(a)' = Units(stake_events', a, "UNSTAKE")
         /\ Unstaking(a)' = OpenSum(unstake_requests', a)
BY DEF Deposited, Withdrawn, Units, Moved, Unstaking, OpenRequests, OpenSum, OpenIn

\* The sums of a staker, in the numbers they are made of.
LEMMA SumTypes ==
  ASSUME TypeInv, IsFiniteSet(stake_events), NEW a \in Addrs
  PROVE  /\ stakers[a].staked_amount \in Nat /\ OpenSum(unstake_requests, a) \in Nat
         /\ Units(stake_events, a, "STAKE") \in Nat /\ Units(stake_events, a, "UNSTAKE") \in Nat
<1>1. stake_events \subseteq Event /\ unstake_requests \in Seq(Request)
  BY DEF TypeInv, TypeOK, DbTypeOK
<1> QED
  BY <1>1, StakerType, OpenSumType, UnitsType

\* A step that keeps the stake and what is on its way out together the same,
\* and the events.
LEMMA HeldStays ==
  ASSUME LedgerSums, stake_events' = stake_events,
         \A a \in Addrs : stakers'[a].staked_amount + OpenSum(unstake_requests', a)
                            = stakers[a].staked_amount + OpenSum(unstake_requests, a)
  PROVE  LedgerSums'
<1>1. ASSUME NEW a \in Addrs PROVE StakeWithin(a)'
  <2>1. StakeWithin(a)
    BY DEF LedgerSums
  <2>2. /\ Deposited(a)' = Deposited(a) /\ Withdrawn(a)' = Withdrawn(a)
        /\ stakers'[a].staked_amount + Unstaking(a)' = stakers[a].staked_amount + Unstaking(a)
    BY SumNames, SumNamesNext
  <2> QED
    BY <2>1, <2>2 DEF StakeWithin
<1> QED
  BY <1>1 DEF LedgerSums

\* The commit of a block moves the events of the session to the ledger and
\* leaves the open requests open.
LEMMA SumsCommit ==
  ASSUME TypeInv, Apart, RequestsOK, SessionSums, LedgerSums, NEW p \in Ingesters, CommitBlock(p)
  PROVE  LedgerSums'
<1> PICK E : E = txn[p].events
  OBVIOUS
<1>1. /\ stake_events' = stake_events \cup E /\ stake_events \cap E = {}
      /\ stake_events \subseteq Event /\ E \subseteq Event
  BY OwnWrites DEF CommitBlock, Apart, TypeInv, TypeOK, DbTypeOK, Writes
<1>2. IsFiniteSet(E) /\ IsFiniteSet(stake_events)
  BY DEF SessionSums, LedgerSums
<1>3. IsFiniteSet(stake_events')
  BY <1>1, <1>2, FS_Union
<1>4. ASSUME NEW a \in Addrs PROVE StakeWithin(a)'
  <2> PICK S, new, D, W : /\ S = stakers[a].staked_amount /\ new = AmountSeen(p, a)
                          /\ D = Units(E, a, "STAKE") /\ W = Units(E, a, "UNSTAKE")
    OBVIOUS
  <2> PICK held, dep, wd : /\ held = OpenSum(unstake_requests, a)
                           /\ dep = Units(stake_events, a, "STAKE")
                           /\ wd = Units(stake_events, a, "UNSTAKE")
    OBVIOUS
  <2>1. stakers'[a].staked_amount = new
    BY DEF CommitBlock
  <2>2. Units(stake_events', a, "STAKE") = dep + D /\ Units(stake_events', a, "UNSTAKE") = wd + W
    BY <1>1, <1>2, UnitsUnion
  <2>3. OpenSum(unstake_requests', a) = held
    <3>1. DOMAIN unstake_requests' = DOMAIN unstake_requests
          /\ \A r \in DOMAIN unstake_requests :
               /\ unstake_requests'[r].address = unstake_requests[r].address
               /\ unstake_requests'[r].amount = unstake_requests[r].amount
               /\ unstake_requests'[r].status # unstake_requests[r].status =>
                    unstake_requests'[r].status = "READY" /\ unstake_requests[r].status # "CANCELLED"
      BY RequestType DEF CommitBlock, Request, RequestsOK
    <3>2. OpenIn(unstake_requests, a) = OpenIn(unstake_requests', a)
      BY <3>1 DEF OpenIn
    <3>3. \A r \in OpenIn(unstake_requests, a) :
            unstake_requests[r].amount = unstake_requests'[r].amount
      BY <3>1 DEF OpenIn
    <3> QED
      BY <3>2, <3>3, OpenSumSame
  <2>4. S + held <= dep /\ dep <= S + held + wd
    BY SumNames DEF LedgerSums, StakeWithin
  <2>5. new <= S + D /\ S + D <= new + W
    BY DEF SessionSums, SeenWithin
  <2>6. S \in Nat /\ held \in Nat /\ dep \in Nat /\ wd \in Nat
    BY <1>2, SumTypes
  <2>7. D \in Nat /\ W \in Nat
    BY <1>1, <1>2, UnitsType
  <2>8. new \in Nat
    BY SeenType DEF TypeInv
  <2>9. new + held <= dep + D /\ dep + D <= new + held + (wd + W)
    BY <2>4, <2>5, <2>6, <2>7, <2>8
  <2> QED
    BY <2>1, <2>2, <2>3, <2>9, SumNamesNext DEF StakeWithin
<1> QED
  BY <1>3, <1>4 DEF LedgerSums

\* A request locks what it takes from the stake.
LEMMA SumsUnstake ==
  ASSUME TypeInv, TypeInv', HandFresh, LedgerSums, NEW k \in Handlers, UnstakeCommit(k)
  PROVE  LedgerSums'
<1> PICK R, Q, x, m, n : /\ R = unstake_requests /\ Q = unstake_requests' /\ x = Len(R) + 1
                         /\ m = hand[k].arg /\ n = hand[k].amount - hand[k].arg
  OBVIOUS
<1>1. R \in Seq(Request) /\ Q \in Seq(Request)
  BY DEF TypeInv, TypeOK, DbTypeOK
<1>2. PICK q : /\ q.address = hand[k].address /\ q.amount = hand[k].arg /\ q.status = "PENDING"
               /\ Q = Append(R, q)
  BY DEF UnstakeCommit
<1>3. /\ DOMAIN Q = DOMAIN R \cup {x} /\ x \notin DOMAIN R /\ \A r \in DOMAIN R : Q[r] = R[r]
      /\ Q[x].status # "CANCELLED" /\ Q[x].address = hand[k].address /\ Q[x].amount = m
  BY <1>1, <1>2
<1>4. /\ hand[k].amount = stakers[hand[k].address].staked_amount
      /\ m \in Nat /\ hand[k].amount \in Nat
  BY OwnState DEF HandFresh, Holding, UnstakeCommit, Sound, HandlerStates
<1>5. StakerUpdate(k, n) /\ stake_events' = stake_events
  BY DEF UnstakeCommit
<1>6. ASSUME NEW a \in Addrs
      PROVE  stakers'[a].staked_amount + OpenSum(Q, a) = stakers[a].staked_amount + OpenSum(R, a)
  <2>1. OpenSum(Q, a) = OpenSum(R, a) + IF Q[x].address = a THEN Q[x].amount ELSE 0
    BY <1>1, <1>3, OpenSumNew
  <2>3. OpenSum(R, a) \in Nat /\ stakers[a].staked_amount \in Nat
    BY <1>1, OpenSumType, StakerType
  <2>4. CASE a = hand[k].address
    <3>1. stakers'[a].staked_amount = n
      BY <1>5, <2>4, UpdatedStaker
    <3>2. OpenSum(Q, a) = OpenSum(R, a) + m
      BY <1>3, <2>1, <2>4
    <3> QED
      BY <1>4, <2>3, <2>4, <3>1, <3>2
  <2>5. CASE a # hand[k].address
    <3>1. stakers'[a] = stakers[a]
      BY <1>5, <2>5, UpdatedStaker
    <3>2. OpenSum(Q, a) = OpenSum(R, a)
      BY <1>3, <2>1, <2>3, <2>5
    <3> QED
      BY <3>1, <3>2
  <2> QED
    BY <2>4, <2>5
<1> QED
  BY <1>5, <1>6, HeldStays

\* A cancellation gives back what the request had locked.
LEMMA SumsCancel ==
  ASSUME TypeInv, TypeInv', HandFresh, RequestsOK, LedgerSums, NEW k \in Handlers, CancelCommit(k)
  PROVE  LedgerSums'
<1> PICK R, Q, x, n : /\ R = unstake_requests /\ Q = unstake_requests' /\ x = hand[k].arg
                      /\ n = hand[k].amount + unstake_requests[hand[k].arg].amount
  OBVIOUS
<1>1. R \in Seq(Request) /\ Q \in Seq(Request) /\ x \in DOMAIN R
  BY OwnState DEF TypeInv, TypeOK, DbTypeOK, Sound, CancelCommit
<1>2. R[x].status # "CANCELLED" /\ R[x].address = hand[k].address /\ R[x].amount \in Nat
  BY <1>1, RequestType DEF RequestsOK, Cancelling, CancelCommit, Request
<1>3. /\ DOMAIN Q = DOMAIN R /\ \A r \in DOMAIN R \ {x} : Q[r] = R[r]
      /\ Q[x].status = "CANCELLED"
  BY <1>1, RequestType DEF CancelCommit, Request
<1>4. /\ hand[k].amount = stakers[hand[k].address].staked_amount /\ hand[k].amount \in Nat
      /\ n = hand[k].amount + R[x].amount
  BY OwnState DEF HandFresh, Holding, CancelCommit, Sound, HandlerStates
<1>5. StakerUpdate(k, n) /\ stake_events' = stake_events
  BY DEF CancelCommit
<1>6. ASSUME NEW a \in Addrs
      PROVE  stakers'[a].staked_amount + OpenSum(Q, a) = stakers[a].staked_amount + OpenSum(R, a)
  <2>1. OpenSum(R, a) = OpenSum(Q, a) + IF R[x].address = a THEN R[x].amount ELSE 0
    BY <1>1, <1>2, <1>3, OpenSumCancel
  <2>3. OpenSum(Q, a) \in Nat /\ stakers[a].staked_amount \in Nat
    BY <1>1, OpenSumType, StakerType
  <2>4. CASE a = hand[k].address
    <3>1. stakers'[a].staked_amount = n
      BY <1>5, <2>4, UpdatedStaker
    <3>2. OpenSum(R, a) = OpenSum(Q, a) + R[x].amount
      BY <1>2, <2>1, <2>4
    <3> QED
      BY <1>2, <1>4, <2>3, <2>4, <3>1, <3>2
  <2>5. CASE a # hand[k].address
    <3>1. stakers'[a] = stakers[a]
      BY <1>5, <2>5, UpdatedStaker
    <3>2. OpenSum(R, a) = OpenSum(Q, a)
      BY <1>2, <2>1, <2>3, <2>5
    <3> QED
      BY <3>1, <3>2
  <2> QED
    BY <2>4, <2>5
<1> QED
  BY <1>5, <1>6, HeldStays

LEMMA LedgerSumsNext ==
  ASSUME TypeInv, TypeInv', Apart, HandFresh, RequestsOK, SessionSums, LedgerSums, [Next]_vars
  PROVE  LedgerSums'
<1>1. CASE UNCHANGED <<stakers, stake_events, unstakeVars>>
  BY <1>1, HeldStays DEF unstakeVars
<1>2. ASSUME NEW p \in Ingesters, RecordEvent(p) PROVE LedgerSums'
  BY <1>1, <1>2, RecordWrites
<1> QED
  BY <1>1, <1>2, SumsCommit, SumsUnstake, SumsCancel, StepKinds

LEMMA AccountInit == Init => AccountInv
<1> SUFFICES ASSUME Init PROVE AccountInv
  OBVIOUS
<1>1. /\ \A a \in Addrs : stakers[a].staked_amount = 0
      /\ stake_events = {} /\ unstake_requests = <<>>
      /\ \A p \in Ingesters : txn[p] = NoWrites
      /\ \A k \in Handlers : hand[k].pc = "idle"
  BY DEF Init, DbInit, IngestInit, ApiInit, IdleHandler, Handling
<1>2. Ordered /\ RequestsOK
  BY <1>1 DEF Ordered, RequestsOK, Cancelling, NoWrites
<1>3. IsFiniteSet({}) /\ \A a, t : Units({}, a, t) = 0
  BY FS_EmptySet, UnitsNone
<1>4. SessionSums
  <2>1. \A p \in Ingesters : txn[p].events = {}
    BY <1>1, NoWritesStakes
  <2>2. \A p \in Ingesters, a \in Addrs : AmountSeen(p, a) = 0
    BY <1>1, <2>1, ApartInit, CleanSeen
  <2>3. ASSUME NEW p \in Ingesters, NEW a \in Addrs PROVE SeenWithin(p, a)
    <3>1. AmountSeen(p, a) = 0 /\ stakers[a].staked_amount = 0
      BY <1>1, <2>2
    <3>2. Units(txn[p].events, a, "STAKE") = 0 /\ Units(txn[p].events, a, "UNSTAKE") = 0
      BY <1>3, <2>1
    <3> QED
      BY <3>1, <3>2 DEF SeenWithin
  <2> QED
    BY <1>3, <2>1, <2>3 DEF SessionSums
<1>5. LedgerSums
  <2>1. ASSUME NEW a \in Addrs PROVE OpenSum(unstake_requests, a) = 0
    <3>1. DOMAIN [r \in OpenIn(unstake_requests, a) |-> unstake_requests[r].amount] = {}
      BY <1>1 DEF OpenIn
    <3> QED
      BY <3>1, TotalNone DEF OpenSum
  <2>2. ASSUME NEW a \in Addrs PROVE StakeWithin(a)
    BY <1>1, <1>3, <2>1, SumNames DEF StakeWithin
  <2> QED
    BY <1>1, <1>3, <2>2 DEF LedgerSums
<1> QED
  BY <1>2, <1>4, <1>5 DEF AccountInv

LEMMA AccountNext ==
  ASSUME LockedInv, AccountInv, [Next /\ RowsApart']_vars
  PROVE  AccountInv'
<1>1. [Next]_vars /\ TypeInv'
  BY LockedNext DEF LockedInv
<1>2. Ordered'
  BY <1>1, OrderedNext DEF AccountInv, LockedInv
<1>3. RequestsOK'
  BY <1>1, RequestsNext DEF AccountInv, LockedInv
<1>4. SessionSums'
  BY <1>1, SessionSumsNext DEF AccountInv, LockedInv
<1>5. LedgerSums'
  BY <1>1, LedgerSumsNext DEF AccountInv, LockedInv
<1> QED
  BY <1>2, <1>3, <1>4, <1>5 DEF AccountInv

\* The two properties are arithmetic on these sums.
LEMMA AccountsMatch ==
  ASSUME TypeInv, AccountInv
  PROVE  StakeWithinEvents /\ UnstakesBacked
<1>1. ASSUME NEW a \in Addrs
      PROVE  /\ Deposited(a) - Withdrawn(a) <= stakers[a].staked_amount + Unstaking(a)
             /\ stakers[a].staked_amount + Unstaking(a) <= Deposited(a)
             /\ Unstaking(a) <= Deposited(a)
  <2> PICK S, held, dep, wd : /\ S = stakers[a].staked_amount /\ held = Unstaking(a)
                              /\ dep = Deposited(a) /\ wd = Withdrawn(a)
    OBVIOUS
  <2>1. S \in Nat /\ held \in Nat /\ dep \in Nat /\ wd \in Nat
    BY SumTypes, SumNames DEF AccountInv, LedgerSums
  <2>2. S + held <= dep /\ dep <= S + held + wd
    BY DEF AccountInv, LedgerSums, StakeWithin
  <2> QED
    BY <2>1, <2>2
<1> QED
  BY <1>1 DEF StakeWithinEvents, UnstakesBacked

LEMMA AccountInvHolds == LockedSpec => [](LockedInv /\ AccountInv)
<1>1. Init => LockedInv /\ AccountInv
  BY LockedInit, AccountInit
<1>2. LockedInv /\ AccountInv /\ [Next /\ RowsApart']_vars => LockedInv' /\ AccountInv'
  BY LockedNext, AccountNext
<1> QED
  BY <1>1, <1>2, PTL DEF LockedSpec

\* apply_block_transactions, request_unstake and cancel_unstake: with any
\* number of ingesters side by side, failing and restarting, and any number of
\* handlers, the stake of an address and what it has asked to unstake are never
\* more than it has deposited, and less by no more than it has been paid back,
\* if the handlers and the blocks of one staker take turns.
THEOREM StakesWithinEvents == LockedSpec => []StakeWithinEvents
<1>1. LockedInv /\ AccountInv => StakeWithinEvents
  BY AccountsMatch DEF LockedInv
<1> QED
  BY <1>1, AccountInvHolds, PTL

\* request_unstake's check of the stake: nobody unstakes more than was
\* deposited, refunds or not, if the handlers and the blocks of one staker take
\* turns.
THEOREM UnstakesAreBacked == LockedSpec => []UnstakesBacked
<1>1. LockedInv /\ AccountInv => UnstakesBacked
  BY AccountsMatch DEF LockedInv
<1> QED
  BY <1>1, AccountInvHolds, PTL

-----------------------------------------------------------------------------
(* The fold over a block *)

\* g is the fold of AfterTx over the first n transactions of a block.
Folds(g, L, block, h, n) ==
  /\ g = [i \in 0..n |-> g[i]] /\ g[0] = L
  /\ \A i \in 1..n : g[i] = AfterTx(g[i - 1], block[i], h, i)

LEMMA LeastNatural ==
  ASSUME NEW S, S \subseteq Nat, S # {}
  PROVE  \E m \in S : \A n \in S : ~(n < m)
<1>1. PICK m \in S : \A n \in S : <<n, m>> \notin OpToRel(<, Nat)
  BY NatLessThanWellFounded, WFMin
<1>2. \A n \in S : ~(n < m)
  BY <1>1 DEF OpToRel
<1> QED
  BY <1>2

\* There is such a fold: a shortest block without one would have one.
LEMMA FoldExists ==
  ASSUME NEW L, NEW block, NEW h, NEW n \in Nat
  PROVE  \E g : Folds(g, L, block, h, n)
<1> DEFINE bad == {m \in Nat : \A g : ~Folds(g, L, block, h, m)}
<1> SUFFICES ASSUME n \in bad PROVE FALSE
  OBVIOUS
<1>1. PICK m \in bad : \A k \in bad : ~(k < m)
  BY LeastNatural
<1>2. m # 0
  <2>1. Folds([i \in {0} |-> L], L, block, h, 0)
    BY DEF Folds
  <2> QED
    BY <2>1
<1>3. m - 1 \in Nat /\ m - 1 \notin bad
  BY <1>1, <1>2
<1>4. PICK g : Folds(g, L, block, h, m - 1)
  BY <1>3
<1> DEFINE f == [i \in 0..m |-> IF i = m THEN AfterTx(g[m - 1], block[m], h, m) ELSE g[i]]
<1>5. f = [i \in 0..m |-> f[i]]
  OBVIOUS
<1>6. f[0] = L /\ f[m] = AfterTx(f[m - 1], block[m], h, m)
  BY <1>2, <1>3, <1>4 DEF Folds
<1>7. \A i \in 0..(m - 1) : f[i] = g[i]
  BY <1>3
<1> HIDE DEF f
<1>8. ASSUME NEW i \in 1..m PROVE f[i] = AfterTx(f[i - 1], block[i], h, i)
  <2>1. CASE i # m
    <3>1. i \in 1..(m - 1) /\ i - 1 \in 0..(m - 1) /\ i \in 0..(m - 1)
      BY <1>3, <2>1
    <3>2. g[i] = AfterTx(g[i - 1], block[i], h, i)
      BY <1>4, <3>1 DEF Folds
    <3> QED
      BY <1>7, <3>1, <3>2
  <2> QED
    BY <1>6, <2>1
<1>9. Folds(f, L, block, h, m)
  BY <1>5, <1>6, <1>8 DEF Folds
<1> QED
  BY <1>9

\* After is that fold.
LEMMA AfterFolds ==
  ASSUME NEW L, NEW block, NEW h, Len(block) \in Nat
  PROVE  Folds(After(L, block, h), L, block, h, Len(block))
<1>1. PICK g : Folds(g, L, block, h, Len(block))
  BY FoldExists
<1>2. g = [i \in 0..Len(block) |-> IF i = 0 THEN L ELSE AfterTx(g[i - 1], block[i], h, i)]
  BY <1>1 DEF Folds
<1>3. After(L, block, h) =
        [i \in 0..Len(block) |->
           IF i = 0 THEN L ELSE AfterTx(After(L, block, h)[i - 1], block[i], h, i)]
  BY <1>2 DEF After
<1> QED
  BY <1>3 DEF Folds

-----------------------------------------------------------------------------
(* The ledger as a session reads it *)

Seen(p) ==
  [stakers |-> [a \in Addrs |-> [staked_amount |-> AmountSeen(p, a), tier |-> TierSeen(p, a)]],
   stake_events |-> stake_events \cup txn[p].events,
   validator_rewards |-> [a \in Addrs |-> RewardSeen(p, a)],
   reward_pool_inflows |-> reward_pool_inflows \cup txn[p].inflows]

\* A session in the middle of a block reads the ledger that a replay has there,
\* or the block is in the ledger already.
FoldOK(p) ==
  ing[p].pc \in Active =>
    /\ ing[p].i <= Len(BlockOf(p)) + 1
    /\ \/ BlockRecorded(ing[p].h)
       \/ Seen(p) = After(Ledger, BlockOf(p), ing[p].h)[ing[p].i - 1]

FoldInv == \A p \in Ingesters : FoldOK(p)

\* A session without writes reads the committed ledger.
LEMMA SeenClean ==
  ASSUME TypeInv, RewardInv, Apart, NEW p \in Ingesters, txn[p].events = {}, txn[p].inflows = {}
  PROVE  Seen(p) = Ledger
<1>1. \A a \in Addrs : AmountSeen(p, a) = stakers[a].staked_amount /\ TierSeen(p, a) = stakers[a].tier
  BY CleanSeen
<1>2. \A a \in Addrs : RewardSeen(p, a) = validator_rewards[a]
  BY DEF RewardInv, RewardsOK, RewardSeen
<1>3. stakers \in [Addrs -> [staked_amount : Nat, tier : TierNames]]
      /\ validator_rewards \in [Addrs -> Nat]
  BY DEF TypeInv, TypeOK, DbTypeOK
<1>4. stakers = [a \in Addrs |-> [staked_amount |-> AmountSeen(p, a), tier |-> TierSeen(p, a)]]
  BY <1>1, <1>3
<1>5. validator_rewards = [a \in Addrs |-> RewardSeen(p, a)]
  BY <1>2, <1>3
<1> QED
  BY <1>4, <1>5 DEF Seen, Ledger

\* A walk begins with the ledger of the blocks before.
LEMMA WalkFolds ==
  ASSUME TypeInv, NEW p \in Ingesters, Seen(p) = Ledger, ing[p].pc \in Active, ing[p].i = 1
  PROVE  FoldOK(p)
<1>1. Len(BlockOf(p)) \in Nat
  BY TxOfType
<1>2. After(Ledger, BlockOf(p), ing[p].h)[0] = Ledger
  BY <1>1, AfterFolds DEF Folds
<1> QED
  BY <1>1, <1>2 DEF FoldOK

\* A transaction of the block: the session then reads what AfterTx gives.
LEMMA TxFolds ==
  ASSUME TypeInv, NEW p \in Ingesters, FoldOK(p), HasTx(p), NextTx(p),
         BlockRecorded(ing[p].h) \/ Seen(p)' = AfterTx(Seen(p), TxOf(p), ing[p].h, ing[p].i)
  PROVE  FoldOK(p)'
<1> PICK B, h, i : B = BlockOf(p) /\ h = ing[p].h /\ i = ing[p].i
  OBVIOUS
<1>1. ing[p].pc \in Active /\ Len(B) \in Nat /\ i \in 1..Len(B) /\ h \in Nat
  BY TxOfType, OwnJob DEF HasTx, Active
<1>2. ing'[p].pc \in Active /\ ing'[p].h = h /\ ing'[p].i = i + 1 /\ BlockOf(p)' = B
  BY DEF NextTx, Job, Active, BlockOf, TypeInv, TypeOK, IngestTypeOK
<1>3. Ledger' = Ledger /\ (BlockRecorded(h) => BlockRecorded(h)')
  BY RecordedStays DEF NextTx, ledgerVars, Ledger
<1>4. ASSUME ~BlockRecorded(h) PROVE Seen(p)' = After(Ledger, B, h)[i]
  <2>1. Seen(p) = After(Ledger, B, h)[i - 1]
    BY <1>1, <1>4 DEF FoldOK
  <2>2. After(Ledger, B, h)[i] = AfterTx(After(Ledger, B, h)[i - 1], B[i], h, i)
    BY <1>1, AfterFolds DEF Folds
  <2> QED
    BY <1>4, <2>1, <2>2 DEF TxOf
<1>5. ASSUME ~BlockRecorded(h)'
      PROVE  Seen(p)' = After(Ledger', B, h)[i]
  BY <1>3, <1>4, <1>5
<1>6. (BlockRecorded(ing[p].h))' = BlockRecorded(h)'
  BY <1>2
<1> QED
  BY <1>1, <1>2, <1>5, <1>6 DEF FoldOK

-----------------------------------------------------------------------------
(* The transactions of a block *)

\* What a session reads stays when its writes to the ledger and the ledger do.
LEMMA SeenStays ==
  ASSUME NEW p \in Ingesters, SameStakes(txn[p], txn'[p]), txn'[p].reward = txn[p].reward,
         txn'[p].inflows = txn[p].inflows, UNCHANGED ledgerVars
  PROVE  Seen(p)' = Seen(p)
<1>1. \A a \in Addrs : /\ AmountSeen(p, a)' = AmountSeen(p, a) /\ TierSeen(p, a)' = TierSeen(p, a)
                       /\ RewardSeen(p, a)' = RewardSeen(p, a)
  BY SameSeen DEF ledgerVars, RewardSeen
<1> QED
  BY <1>1 DEF Seen, SameStakes, ledgerVars

\* The four tables as one record.
Tables(S, E, V, F) ==
  [stakers |-> S, stake_events |-> E, validator_rewards |-> V, reward_pool_inflows |-> F]

LEMMA CreditedTables ==
  ASSUME NEW S, NEW E, NEW V, NEW F, NEW e, NEW n, n = AmountAfter(e, S[e.address].staked_amount)
  PROVE  Credited(Tables(S, E, V, F), e) =
           Tables([S EXCEPT ![e.address] = [staked_amount |-> n, tier |-> tier_for(n)]],
                  E \cup {e}, V, F)
<1> PICK L : L = Tables(S, E, V, F)
  OBVIOUS
<1> PICK x : x = [staked_amount |-> n, tier |-> tier_for(n)]
  OBVIOUS
<1>1. L.stakers = S /\ L.stake_events = E
  BY DEF Tables
<1>2. Credited(L, e) = [L EXCEPT !.stake_events = L.stake_events \cup {e}, !.stakers[e.address] = x]
  BY <1>1 DEF Credited
<1> PICK s : s = [S EXCEPT ![e.address] = x]
  OBVIOUS
<1> PICK d : d = E \cup {e}
  OBVIOUS
<1>3. Credited(L, e) = [L EXCEPT !.stake_events = d, !.stakers = s]
  BY <1>1, <1>2
<1>4. [L EXCEPT !.stake_events = d] = Tables(S, d, V, F)
  BY DEF Tables
<1>5. [Tables(S, d, V, F) EXCEPT !.stakers = s] = Tables(s, d, V, F)
  BY DEF Tables
<1> QED
  BY <1>3, <1>4, <1>5

LEMMA DistributedTables ==
  ASSUME NEW S, NEW E, NEW V, NEW F, NEW h, NEW m, NEW stake,
         stake = [a \in Addrs |-> S[a].staked_amount]
  PROVE  Distributed(Tables(S, E, V, F), h, m) =
           Tables(S, E, [a \in Addrs |-> V[a] + Shares(m, stake)[a]],
                  F \cup {InflowRow(h, m, stake)})
<1> PICK L : L = Tables(S, E, V, F)
  OBVIOUS
<1>1. L.stakers = S /\ L.validator_rewards = V /\ L.reward_pool_inflows = F
  BY DEF Tables
<1>2. stake = [a \in Addrs |-> L.stakers[a].staked_amount]
  BY <1>1
<1>v. PICK v : v = [a \in Addrs |-> V[a] + Shares(m, stake)[a]]
  OBVIOUS
<1>f. PICK f : f = F \cup {InflowRow(h, m, stake)}
  OBVIOUS
<1>3. Distributed(L, h, m) = [L EXCEPT !.validator_rewards = v, !.reward_pool_inflows = f]
  BY <1>1, <1>2, <1>v, <1>f DEF Distributed, InflowRow
<1>4. [L EXCEPT !.validator_rewards = v] = Tables(S, E, v, F)
  BY DEF Tables
<1>5. [Tables(S, E, v, F) EXCEPT !.reward_pool_inflows = f] = Tables(S, E, v, f)
  BY DEF Tables
<1> QED
  BY <1>3, <1>4, <1>5, <1>v, <1>f

LEMMA IgnoreFolds ==
  ASSUME TypeInv, NEW p \in Ingesters, FoldOK(p), IgnoreTx(p)
  PROVE  FoldOK(p)'
<1>1. Seen(p)' = Seen(p)
  BY SeenStays DEF IgnoreTx, NextTx, SameStakes
<1>2. IsInflow(TxOf(p)) => \E f \in Seen(p).reward_pool_inflows : f.block_height = ing[p].h
  BY DEF IgnoreTx, InflowDone, Seen
<1>3. AfterTx(Seen(p), TxOf(p), ing[p].h, ing[p].i) = Seen(p)
  BY <1>2 DEF IgnoreTx, AfterTx
<1> QED
  BY <1>1, <1>3, TxFolds DEF IgnoreTx

LEMMA RecordFolds ==
  ASSUME TypeInv, NEW p \in Ingesters, FoldOK(p), RecordEvent(p)
  PROVE  FoldOK(p)'
<1> PICK e : e = CurEvent(p)
  OBVIOUS
<1> PICK n : n = AmountAfter(e, AmountSeen(p, e.address))
  OBVIOUS
<1> PICK S, E, V, F : Seen(p) = Tables(S, E, V, F)
  BY DEF Seen, Tables
<1>1. e \in Event /\ e.address \in Addrs
  BY RecordWrites DEF Event
<1>2. txn'[p] = EventWrites(p, e) /\ UNCHANGED ledgerVars
  BY DEF RecordEvent, NextTx, TypeInv, TypeOK, IngestTypeOK
<1>3. txn'[p].events = txn[p].events \cup {e} /\ txn'[p].inflows = txn[p].inflows
      /\ txn'[p].reward = txn[p].reward
  BY <1>1, <1>2, EventWritesType
<1>4. \A a \in Addrs :
        /\ a = e.address => AmountSeen(p, a)' = n /\ TierSeen(p, a)' = tier_for(n)
        /\ a # e.address => AmountSeen(p, a)' = AmountSeen(p, a) /\ TierSeen(p, a)' = TierSeen(p, a)
  BY RecordSeen
<1>5. S = [a \in Addrs |-> [staked_amount |-> AmountSeen(p, a), tier |-> TierSeen(p, a)]]
      /\ E = stake_events \cup txn[p].events
      /\ V = [a \in Addrs |-> RewardSeen(p, a)] /\ F = reward_pool_inflows \cup txn[p].inflows
  BY DEF Seen, Tables
<1>6. AfterTx(Seen(p), TxOf(p), ing[p].h, ing[p].i) = Credited(Seen(p), e)
  BY DEF RecordEvent, AfterTx, CurEvent
<1>7. Credited(Seen(p), e) =
        Tables([S EXCEPT ![e.address] = [staked_amount |-> n, tier |-> tier_for(n)]],
               E \cup {e}, V, F)
  BY <1>1, <1>5, CreditedTables
<1>8. [a \in Addrs |-> [staked_amount |-> AmountSeen(p, a)', tier |-> TierSeen(p, a)']]
        = [S EXCEPT ![e.address] = [staked_amount |-> n, tier |-> tier_for(n)]]
  BY <1>1, <1>4, <1>5
<1>9. [a \in Addrs |-> RewardSeen(p, a)'] = V
  BY <1>2, <1>3, <1>5 DEF RewardSeen, ledgerVars
<1>10. stake_events' \cup txn'[p].events = E \cup {e}
       /\ reward_pool_inflows' \cup txn'[p].inflows = F
  BY <1>2, <1>3, <1>5 DEF ledgerVars
<1>11. Seen(p)' = Tables([S EXCEPT ![e.address] = [staked_amount |-> n, tier |-> tier_for(n)]],
                         E \cup {e}, V, F)
  BY <1>8, <1>9, <1>10 DEF Seen, Tables
<1> QED
  BY <1>6, <1>7, <1>11, TxFolds DEF RecordEvent

LEMMA CreditFolds ==
  ASSUME TypeInv, NEW p \in Ingesters, FoldOK(p), CreditRewards(p)
  PROVE  FoldOK(p)'
<1> PICK m : m = TxOf(p).amount
  OBVIOUS
<1> PICK stake : stake = [a \in Addrs |-> AmountSeen(p, a)]
  OBVIOUS
<1> PICK share : share = Shares(m, stake)
  OBVIOUS
<1> PICK row : row = InflowRow(ing[p].h, m, stake)
  OBVIOUS
<1> PICK S, E, V, F : Seen(p) = Tables(S, E, V, F)
  BY DEF Seen, Tables
<1>1. m \in Nat /\ stake \in [Addrs -> Nat] /\ HasTx(p) /\ IsInflow(TxOf(p)) /\ ~InflowDone(p)
  BY InflowType DEF CreditRewards
<1>2. share \in [Addrs -> Nat]
  BY <1>1, SharesType
<1>3. txn'[p] = RewardWrites(p, m, stake) /\ UNCHANGED ledgerVars /\ txn[p] \in Writes
  BY DEF CreditRewards, NextTx, TypeInv, TypeOK, IngestTypeOK
<1>4. /\ SameStakes(txn[p], txn'[p]) /\ txn'[p].inflows = txn[p].inflows \cup {row}
      /\ txn'[p].reward = [a \in Addrs |-> IF share[a] = 0 THEN txn[p].reward[a]
                                           ELSE RewardSeen(p, a) + share[a]]
  BY <1>3 DEF RewardWrites, SameStakes, Writes
<1>5. S = [a \in Addrs |-> [staked_amount |-> AmountSeen(p, a), tier |-> TierSeen(p, a)]]
      /\ E = stake_events \cup txn[p].events
      /\ V = [a \in Addrs |-> RewardSeen(p, a)] /\ F = reward_pool_inflows \cup txn[p].inflows
  BY DEF Seen, Tables
<1>6. AfterTx(Seen(p), TxOf(p), ing[p].h, ing[p].i) = Distributed(Seen(p), ing[p].h, m)
  BY <1>1, InflowNotEvent DEF AfterTx, InflowDone, Seen
<1>7. Distributed(Seen(p), ing[p].h, m) =
        Tables(S, E, [a \in Addrs |-> V[a] + share[a]], F \cup {row})
  <2>1. stake = [a \in Addrs |-> S[a].staked_amount]
    BY <1>5
  <2> QED
    BY <2>1, DistributedTables
<1>8. \A a \in Addrs : RewardSeen(p, a)' = RewardSeen(p, a) + share[a]
  BY <1>2, <1>3, <1>4, SeenType DEF RewardSeen, ledgerVars, Clean, TypeInv
<1>9. [a \in Addrs |-> [staked_amount |-> AmountSeen(p, a)', tier |-> TierSeen(p, a)']] = S
  BY <1>3, <1>4, <1>5, SameSeen DEF ledgerVars
<1>10. [a \in Addrs |-> RewardSeen(p, a)'] = [a \in Addrs |-> V[a] + share[a]]
  BY <1>5, <1>8
<1>11. stake_events' \cup txn'[p].events = E
       /\ reward_pool_inflows' \cup txn'[p].inflows = F \cup {row}
  BY <1>3, <1>4, <1>5 DEF ledgerVars, SameStakes
<1>12. Seen(p)' = Tables(S, E, [a \in Addrs |-> V[a] + share[a]], F \cup {row})
  BY <1>9, <1>10, <1>11 DEF Seen, Tables
<1> QED
  BY <1>6, <1>7, <1>12, TxFolds DEF CreditRewards

\* The row that clashes shows that the block is in the ledger.
LEMMA DuplicateFolds ==
  ASSUME TypeInv, IngestInv, NEW p \in Ingesters, FoldOK(p), DuplicateEvent(p)
  PROVE  FoldOK(p)'
<1>1. HasTx(p) /\ ing[p].pc \in Active /\ NextTx(p)
  BY DEF DuplicateEvent, HasTx, Active
<1>2. CurEvent(p) \in Keys(ing[p].h) /\ CurEvent(p) \in stake_events /\ ing[p].h \in 0..Tip
  BY <1>1, CurEventKey, TxOfType DEF DuplicateEvent
<1>3. BlockRecorded(ing[p].h)
  BY <1>2 DEF IngestInv, BlockAtomic, BlockUntouched
<1> QED
  BY <1>1, <1>3, TxFolds

-----------------------------------------------------------------------------
(* The other steps of ingesters *)

\* A session that is not touched stays in step while the ledger stays.
LEMMA FoldStays ==
  ASSUME TypeInv, NEW q \in Ingesters, FoldOK(q), ing'[q] = ing[q], txn'[q] = txn[q],
         UNCHANGED ledgerVars, chain' = chain
  PROVE  FoldOK(q)'
<1>1. Seen(q)' = Seen(q)
  BY SeenStays DEF SameStakes
<1>2. BlockOf(q)' = BlockOf(q) /\ Ledger' = Ledger
  BY DEF BlockOf, Ledger, ledgerVars
<1>3. BlockRecorded(ing[q].h) => BlockRecorded(ing[q].h)'
  BY DEF BlockRecorded, Keys, HasInflow, InflowRecorded, ledgerVars
<1> QED
  BY <1>1, <1>2, <1>3 DEF FoldOK

\* One ingester moves, the ledger stays.
LEMMA OneFolds ==
  ASSUME TypeInv, FoldInv, NEW p \in Ingesters, NEW j, NEW w, ing' = [ing EXCEPT ![p] = j],
         txn' = [txn EXCEPT ![p] = w], UNCHANGED ledgerVars, chain' = chain, FoldOK(p)'
  PROVE  FoldInv'
<1>1. ASSUME NEW q \in Ingesters, q # p PROVE FoldOK(q)'
  <2>1. ing'[q] = ing[q] /\ txn'[q] = txn[q]
    BY <1>1 DEF TypeInv, TypeOK, IngestTypeOK
  <2> QED
    BY <2>1, FoldStays DEF FoldInv
<1> QED
  BY <1>1 DEF FoldInv

\* At the beginning of a block, or outside one, with an empty session.
AtRest(p) ==
  /\ txn[p].events = {} /\ txn[p].inflows = {}
  /\ ing[p].pc \in Active => ing[p].i = 1

RestOK == \A p \in Ingesters : AtRest(p) => FoldOK(p)

LEMMA RestFolds == TypeInv /\ RewardInv /\ Apart => RestOK
<1> SUFFICES ASSUME TypeInv, RewardInv, Apart, NEW p \in Ingesters, AtRest(p) PROVE FoldOK(p)
  BY DEF RestOK
<1>1. Seen(p) = Ledger
  BY SeenClean DEF AtRest
<1>2. CASE ing[p].pc \in Active
  BY <1>1, <1>2, WalkFolds DEF AtRest
<1> QED
  BY <1>2 DEF FoldOK

LEMMA RestFoldsNext == TypeInv' /\ RewardInv' /\ Apart' => RestOK'
BY RestFolds, PTL

\* The job of p after each step of its loop that is not part of a block.
LEMMA LoopJob ==
  ASSUME TypeInv, NEW p \in Ingesters,
         \/ ReadTip(p) \/ (p = Watcher /\ WatcherTick)
         \/ SnapshotStart(p) \/ SnapshotRefresh(p) \/ SnapshotComplete(p)
  PROVE  /\ \E j : ing' = [ing EXCEPT ![p] = j] /\ j.i = 1
         /\ txn' = txn /\ chain' = chain /\ UNCHANGED ledgerVars /\ ing[p].pc \notin Active
<1>1. CASE ReadTip(p)
  <2>1. PICK j : j = Job("start", 0, 1, Tip) /\ ing' = [ing EXCEPT ![p] = j]
    BY <1>1 DEF ReadTip
  <2>2. j.i = 1
    BY <2>1 DEF Job
  <2> QED
    BY <1>1, <2>1, <2>2 DEF ReadTip, Active
<1>2. CASE p = Watcher /\ WatcherTick
  <2>1. PICK j : /\ ing' = [ing EXCEPT ![p] = j]
                 /\ j = IF complete /\ last < ing[p].tip THEN Walk(last + 1, ing[p].tip)
                        ELSE IdleJob
    BY <1>2 DEF WatcherTick
  <2>2. j.i = 1
    BY <2>1 DEF Walk, IdleJob, Job
  <2> QED
    BY <1>2, <2>1, <2>2 DEF WatcherTick, Active
<1>3. CASE SnapshotStart(p)
  <2>1. PICK j : /\ ing' = [ing EXCEPT ![p] = j]
                 /\ j = IF StartHeight <= ing[p].tip THEN Walk(StartHeight, ing[p].tip)
                        ELSE Job("finish", 0, 1, ing[p].tip)
    BY <1>3 DEF SnapshotStart
  <2>2. j.i = 1
    BY <2>1 DEF Walk, Job
  <2> QED
    BY <1>3, <2>1, <2>2 DEF SnapshotStart, Active
<1>4. CASE SnapshotRefresh(p)
  <2>1. PICK j : /\ ing' = [ing EXCEPT ![p] = j]
                 /\ j = IF Tip > ing[p].tip THEN Walk(ing[p].tip + 1, Tip)
                        ELSE Job("finish", 0, 1, ing[p].tip)
    BY <1>4 DEF SnapshotRefresh
  <2>2. j.i = 1
    BY <2>1 DEF Walk, Job
  <2> QED
    BY <1>4, <2>1, <2>2 DEF SnapshotRefresh, Active
<1>5. CASE SnapshotComplete(p)
  <2>1. PICK j : j = IdleJob /\ ing' = [ing EXCEPT ![p] = j]
    BY <1>5 DEF SnapshotComplete
  <2>2. j.i = 1
    BY <2>1 DEF IdleJob, Job
  <2> QED
    BY <1>5, <2>1, <2>2 DEF SnapshotComplete, Active
<1> QED
  BY <1>1, <1>2, <1>3, <1>4, <1>5

LEMMA LoopFolds ==
  ASSUME TypeInv, IngestInv, FoldInv, TypeInv', RewardInv', Apart', NEW p \in Ingesters,
         \/ ReadTip(p) \/ (p = Watcher /\ WatcherTick)
         \/ SnapshotStart(p) \/ SnapshotRefresh(p) \/ SnapshotComplete(p)
  PROVE  FoldInv' /\ UNCHANGED ledgerVars
<1>1. PICK j : ing' = [ing EXCEPT ![p] = j] /\ j.i = 1
  BY LoopJob
<1>2. txn' = txn /\ chain' = chain /\ UNCHANGED ledgerVars /\ ing[p].pc \notin Active
  BY LoopJob
<1>3. txn'[p].events = {} /\ txn'[p].inflows = {}
  BY <1>2, RestWrites
<1>4. ing'[p] = j
  BY <1>1 DEF TypeInv, TypeOK, IngestTypeOK
<1>5. FoldOK(p)'
  BY <1>1, <1>3, <1>4, RestFoldsNext DEF AtRest, RestOK
<1> QED
  BY <1>1, <1>2, <1>5, SameTxn, OneFolds

LEMMA AbandonFolds ==
  ASSUME TypeInv, FoldInv, NEW p \in Ingesters, IntegrityAbort(p) \/ Fail(p)
  PROVE  FoldInv' /\ UNCHANGED ledgerVars
<1>1. Abandon(p)
  BY DEF IntegrityAbort, Fail
<1>2. ing'[p].pc = "idle"
  BY <1>1 DEF Abandon, IdleJob, Job, TypeInv, TypeOK, IngestTypeOK
<1>3. FoldOK(p)'
  BY <1>2 DEF FoldOK, Active
<1> QED
  BY <1>1, <1>3, OneFolds DEF Abandon

LEMMA UnlockFolds ==
  ASSUME TypeInv, FoldInv, UnlockUnstakes
  PROVE  FoldInv' /\ UNCHANGED ledgerVars
<1> PICK p : p = Watcher
  OBVIOUS
<1>0. p \in Ingesters
  BY DEF Ingesters
<1>1. /\ ing' = [ing EXCEPT ![p] = Job("commit", ing[p].h, ing[p].i, ing[p].tip)]
      /\ txn' = [txn EXCEPT ![p] = [txn[p] EXCEPT !.ready = Unlocked(ing[p].h)]]
      /\ UNCHANGED ledgerVars /\ chain' = chain /\ ing[p].pc \in Active
  BY DEF UnlockUnstakes, AllTxsDone, Active
<1>2. ing'[p].h = ing[p].h /\ ing'[p].i = ing[p].i /\ ing'[p].pc \in Active
  BY <1>0, <1>1 DEF Job, Active, TypeInv, TypeOK, IngestTypeOK
<1>3. SameStakes(txn[p], txn'[p]) /\ txn'[p].reward = txn[p].reward
      /\ txn'[p].inflows = txn[p].inflows
  BY <1>0, <1>1, OwnWrites DEF SameStakes, Writes, TypeInv, TypeOK, IngestTypeOK
<1>4. Seen(p)' = Seen(p)
  BY <1>0, <1>1, <1>3, SeenStays
<1>5. BlockOf(p)' = BlockOf(p) /\ Ledger' = Ledger
  BY <1>1, <1>2 DEF BlockOf, Ledger, ledgerVars
<1>6. BlockRecorded(ing[p].h) => BlockRecorded(ing[p].h)'
  BY <1>1, <1>2 DEF BlockRecorded, Keys, HasInflow, InflowRecorded, ledgerVars
<1>7. FoldOK(p)'
  BY <1>0, <1>1, <1>2, <1>4, <1>5, <1>6 DEF FoldOK, FoldInv
<1> QED
  BY <1>0, <1>1, <1>7, OneFolds

LEMMA TxStepFolds ==
  ASSUME TypeInv, IngestInv, FoldInv, NEW p \in Ingesters,
         IgnoreTx(p) \/ RecordEvent(p) \/ DuplicateEvent(p) \/ CreditRewards(p)
  PROVE  FoldInv' /\ UNCHANGED ledgerVars
<1>1. FoldOK(p)'
  BY IgnoreFolds, RecordFolds, DuplicateFolds, CreditFolds DEF FoldInv
<1>2. NextTx(p) /\ \E w : txn' = [txn EXCEPT ![p] = w]
  BY SameTxn DEF IgnoreTx, RecordEvent, DuplicateEvent, CreditRewards
<1> QED
  BY <1>1, <1>2, OneFolds DEF NextTx

LEMMA MineFolds ==
  ASSUME TypeInv, FoldInv, NEW b \in Blocks, Mine(b)
  PROVE  FoldInv' /\ UNCHANGED ledgerVars
<1>0. /\ chain \in Seq(Seq(Tx)) /\ b \in Seq(Tx) /\ chain' = Append(chain, b)
      /\ UNCHANGED <<ledgerVars, ing, txn>>
  BY BlockAssumption DEF Mine, TypeInv, TypeOK, DbTypeOK, ingestVars
<1>1. \A g \in 0..Tip : chain'[g + 1] = chain[g + 1]
  BY <1>0, TipType, AppendProperties DEF Tip
<1>2. ASSUME NEW p \in Ingesters PROVE FoldOK(p)'
  <2>1. Seen(p)' = Seen(p) /\ Ledger' = Ledger
    BY <1>0, SeenStays DEF SameStakes, Ledger, ledgerVars
  <2>2. ASSUME ing[p].pc \in Active
        PROVE  /\ BlockOf(p)' = BlockOf(p)
               /\ BlockRecorded(ing[p].h) => BlockRecorded(ing[p].h)'
    <3>1. ing[p].h \in 0..Tip
      BY <2>2, TxOfType
    <3>2. chain'[ing[p].h + 1] = chain[ing[p].h + 1]
      BY <1>1, <3>1
    <3> QED
      BY <1>0, <3>2 DEF BlockOf, BlockRecorded, Keys, HasInflow, InflowRecorded, ledgerVars
  <2> QED
    BY <1>0, <1>2, <2>1, <2>2 DEF FoldOK, FoldInv
<1> QED
  BY <1>0, <1>2 DEF FoldInv

-----------------------------------------------------------------------------
(* The commit of a block *)

\* The commit of a block that is in the ledger already changes nothing there.
LEMMA CommitAgain ==
  ASSUME TypeInv, IngestInv, RewardInv, Apart, NEW p \in Ingesters, CommitBlock(p),
         BlockRecorded(ing[p].h)
  PROVE  UNCHANGED ledgerVars
<1>1. ing[p].pc \in Active /\ AtCommit(p)
  BY DEF CommitBlock, AtCommit, AllTxsDone, Active
<1>2. txn[p].events = {}
  BY <1>1, InBlock DEF BlockRecorded, Apart
<1>3. UNCHANGED <<validator_rewards, reward_pool_inflows>>
  BY CommitEffect DEF BlockRecorded
<1>4. \A a \in Addrs : AmountSeen(p, a) = stakers[a].staked_amount /\ TierSeen(p, a) = stakers[a].tier
  BY <1>2, CleanSeen
<1>5. stakers \in [Addrs -> [staked_amount : Nat, tier : TierNames]]
  BY DEF TypeInv, TypeOK, DbTypeOK
<1>6. stakers' = stakers
  BY <1>4, <1>5 DEF CommitBlock
<1> QED
  BY <1>2, <1>3, <1>6 DEF CommitBlock, ledgerVars

\* The commit of a block that is not is one step of the replay.
LEMMA CommitReplays ==
  ASSUME TypeInv, IngestInv, FoldInv, NEW p \in Ingesters, CommitBlock(p),
         ~BlockRecorded(ing[p].h)
  PROVE  ReplayBlock
<1> PICK h : h = ing[p].h
  OBVIOUS
<1>1. ing[p].pc \in Active /\ AtCommit(p)
  BY DEF CommitBlock, AtCommit, AllTxsDone, Active
<1>2. h \in 0..Tip /\ \A g \in 0..(h - 1) : BlockRecorded(g)
  BY <1>1, TxOfType, InBlock
<1>3. BlockUntouched(h)
  BY <1>2 DEF IngestInv, BlockAtomic
<1>4. Ledger' = Seen(p)
  BY DEF CommitBlock, Ledger, Seen
<1>5. ing[p].i > Len(BlockOf(p)) /\ ing[p].i <= Len(BlockOf(p)) + 1 /\ Len(BlockOf(p)) \in Nat
      /\ ing[p].i \in Nat
  BY <1>1, InBlock, TxOfType, OwnJob DEF AtCommit, AllTxsDone, FoldInv, FoldOK
<1>6. ing[p].i - 1 = Len(BlockOf(p))
  BY <1>5
<1>7. Seen(p) = After(Ledger, BlockOf(p), h)[Len(BlockOf(p))]
  BY <1>1, <1>6 DEF FoldInv, FoldOK
<1>8. Ledger' = AfterBlock(Ledger, h)
  BY <1>4, <1>7 DEF AfterBlock, BlockOf
<1> QED
  BY <1>2, <1>3, <1>8 DEF ReplayBlock

\* It puts the block into the ledger.
LEMMA CommitRecords ==
  ASSUME TypeInv, IngestInv, NEW p \in Ingesters, CommitBlock(p), NEW h, h = ing[p].h
  PROVE  BlockRecorded(h)'
<1>1. ing[p].pc \in Active /\ AtCommit(p) /\ chain' = chain
      /\ stake_events' = stake_events \cup txn[p].events
      /\ reward_pool_inflows' = reward_pool_inflows \cup txn[p].inflows
  BY DEF CommitBlock, AtCommit, AllTxsDone, Active
<1>2. CASE BlockRecorded(h)
  BY <1>1, <1>2, RecordedStays
<1>3. CASE ~BlockRecorded(h)
  <2>1. Keys(h) \subseteq txn[p].events
        /\ (HasInflow(h) => InflowRecorded(h) \/ txn[p].inflows # {})
    BY <1>1, <1>3, BlockComplete
  <2>2. \A f \in txn[p].inflows : f.block_height = h
    BY <1>1, InBlock
  <2>3. HasInflow(h) => InflowRecorded(h)'
    BY <1>1, <2>1, <2>2 DEF InflowRecorded
  <2> QED
    BY <1>1, <2>1, <2>3, SameBlock DEF BlockRecorded
<1> QED
  BY <1>2, <1>3

\* Every other session is then at a block that is in the ledger, if this one
\* was not.
LEMMA OthersRecorded ==
  ASSUME TypeInv, IngestInv, NEW p \in Ingesters, CommitBlock(p), ~BlockRecorded(ing[p].h),
         NEW q \in Ingesters, ing[q].pc \in Active, NEW h, h = ing[q].h
  PROVE  BlockRecorded(h)'
<1> PICK g : g = ing[p].h
  OBVIOUS
<1>1. /\ ing[p].pc \in Active /\ chain' = chain /\ g \in Nat /\ h \in Nat
      /\ stake_events \subseteq stake_events' /\ reward_pool_inflows \subseteq reward_pool_inflows'
  BY OwnJob DEF CommitBlock, AtCommit, AllTxsDone, Active
<1>2. CASE h = g
  BY <1>2, CommitRecords
<1>3. CASE h < g
  BY <1>1, <1>3, InBlock, RecordedStays
<1>4. CASE h > g
  BY <1>1, <1>4, InBlock
<1> QED
  BY <1>1, <1>2, <1>3, <1>4

LEMMA CommitFolds ==
  ASSUME TypeInv, IngestInv, RewardInv, Apart, FoldInv, TypeInv', RewardInv', Apart',
         NEW p \in Ingesters, CommitBlock(p)
  PROVE  FoldInv' /\ [ReplayBlock]_ledgerVars
<1>1. PICK j : /\ ing' = [ing EXCEPT ![p] = j]
               /\ j = IF ing[p].h < ing[p].tip THEN Walk(ing[p].h + 1, ing[p].tip)
                      ELSE IF p = Watcher THEN IdleJob ELSE Job("refresh", 0, 1, ing[p].tip)
  BY DEF CommitBlock
<1>2. txn' = [txn EXCEPT ![p] = NoWrites] /\ chain' = chain
  BY DEF CommitBlock
<1>3. FoldOK(p)'
  <2>1. j.i = 1
    BY <1>1 DEF Walk, IdleJob, Job
  <2>2. ing'[p] = j /\ txn'[p] = NoWrites
    BY <1>1, <1>2 DEF TypeInv, TypeOK, IngestTypeOK
  <2> QED
    BY <2>1, <2>2, NoneWritten, RestFoldsNext DEF AtRest, RestOK
<1>4. CASE BlockRecorded(ing[p].h)
  <2>1. UNCHANGED ledgerVars
    BY <1>4, CommitAgain
  <2> QED
    BY <1>1, <1>2, <1>3, <2>1, OneFolds
<1>5. CASE ~BlockRecorded(ing[p].h)
  <2>1. ASSUME NEW q \in Ingesters, q # p PROVE FoldOK(q)'
    <3>1. ing'[q] = ing[q]
      BY <1>1, <2>1 DEF TypeInv, TypeOK, IngestTypeOK
    <3>2. ASSUME ing[q].pc \in Active PROVE BlockRecorded(ing[q].h)'
      BY <1>5, <3>1, <3>2, OthersRecorded
    <3>3. BlockOf(q)' = BlockOf(q)
      BY <1>2, <3>1 DEF BlockOf
    <3> QED
      BY <3>1, <3>2, <3>3 DEF FoldInv, FoldOK
  <2> QED
    BY <1>3, <1>5, <2>1, CommitReplays DEF FoldInv
<1> QED
  BY <1>4, <1>5

-----------------------------------------------------------------------------
(* The replay *)

ReplayInv == TypeInv /\ IngestInv /\ RewardInv /\ Apart /\ FoldInv

LEMMA ReplayStep ==
  ASSUME Handlers = {} PROVE ReplayInv /\ [Next]_vars => ReplayInv' /\ [ReplayBlock]_ledgerVars
<1> SUFFICES ASSUME ReplayInv, [Next]_vars PROVE ReplayInv' /\ [ReplayBlock]_ledgerVars
  OBVIOUS
<1>1. TypeInv /\ IngestInv /\ RewardInv /\ Apart /\ FoldInv
  BY DEF ReplayInv
<1>2. TypeInv' /\ IngestInv' /\ RewardInv' /\ Apart'
  BY <1>1, NextType, NextIngestInv, NextRewards, ApartNext
<1>3. Watcher \in Ingesters /\ Snapshots \subseteq Ingesters
  BY DEF Ingesters
<1>4. FoldInv' /\ [ReplayBlock]_ledgerVars
  <2>1. CASE \E b \in Blocks : Mine(b)
    BY <1>1, <2>1, MineFolds
  <2>2. CASE \E p \in Ingesters : \/ ReadTip(p) \/ (p = Watcher /\ WatcherTick)
                                  \/ SnapshotStart(p) \/ SnapshotRefresh(p) \/ SnapshotComplete(p)
    BY <1>1, <1>2, <2>2, LoopFolds
  <2>3. CASE \E p \in Ingesters : IgnoreTx(p) \/ RecordEvent(p) \/ DuplicateEvent(p)
                                  \/ CreditRewards(p)
    BY <1>1, <2>3, TxStepFolds
  <2>4. CASE UnlockUnstakes
    BY <1>1, <2>4, UnlockFolds
  <2>5. CASE \E p \in Ingesters : CommitBlock(p)
    BY <1>1, <1>2, <2>5, CommitFolds
  <2>6. CASE \E p \in Ingesters : IntegrityAbort(p) \/ Fail(p)
    BY <1>1, <2>6, AbandonFolds
  <2>7. CASE UNCHANGED vars
    <3>1. UNCHANGED ledgerVars /\ chain' = chain /\ ing' = ing /\ txn' = txn
      BY <2>7 DEF vars, ingestVars
    <3> QED
      BY <1>1, <3>1, FoldStays DEF FoldInv
  <2>8. ~ApiNext
    BY DEF ApiNext
  <2> QED
    BY <1>3, <2>1, <2>2, <2>3, <2>4, <2>5, <2>6, <2>7, <2>8
    DEF Next, IngestNext, IngestWork, WatcherStep, SnapshotStep, IngestStep
<1> QED
  BY <1>2, <1>4 DEF ReplayInv

LEMMA ReplayStart == Init => ReplayInv /\ ReplayInit
<1> SUFFICES ASSUME Init PROVE ReplayInv /\ ReplayInit
  OBVIOUS
<1>1. TypeInv /\ IngestInv /\ RewardInv /\ Apart
  BY InitType, IngestInitInv, InitRewards, ApartInit
<1>2. \A p \in Ingesters : ing[p].pc \notin Active
  BY DEF Init, IngestInit, IdleJob, Job, Active
<1>3. FoldInv
  BY <1>2 DEF FoldInv, FoldOK
<1> QED
  BY <1>1, <1>3 DEF ReplayInv, Init, DbInit, ReplayInit

\* apply_block_transactions under session_scope: seen from the ledger tables,
\* any number of watchers' ticks and snapshot commands side by side, with
\* rollbacks, failures and restarts anywhere, are one reader that applies the
\* blocks in order, each whole and once.  The write API is not part of it.
THEOREM IngestersReplay ==
  ASSUME Handlers = {} PROVE Spec => LedgerIsReplay
<1>1. Spec => []ReplayInv
  BY ReplayStart, ReplayStep, PTL DEF Spec
<1>2. ReplayInv /\ [Next]_vars => [ReplayBlock]_ledgerVars
  BY ReplayStep
<1> QED
  BY <1>1, <1>2, ReplayStart, PTL DEF Spec, LedgerIsReplay, ReplaySpec

\* _refresh_tier_cache in the ledger: ingesters alone, however they overlap,
\* keep the stored tier that of the stored amount.
THEOREM IngestersKeepTiers ==
  ASSUME Handlers = {} PROVE Spec => []TierCacheFresh
<1>1. [Next]_vars => [Next /\ RowsApart']_vars
  BY DEF RowsApart
<1> QED
  BY <1>1, TiersFresh, PTL DEF Spec, LockedSpec
=============================================================================

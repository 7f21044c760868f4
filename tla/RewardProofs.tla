---------------------------- MODULE RewardProofs ----------------------------
(***************************************************************************)
(* Conservation of rewards, for any number of stakers, ingesters, handlers *)
(* and inflows.                                                            *)
(***************************************************************************)
EXTENDS IngestProofs

-----------------------------------------------------------------------------
(* Sums over finite sets *)

\* Induction over a finite set: a family Q of subsets of S that has the empty
\* set, and with a set each extension by one element, has S.
LEMMA SubsetInduction ==
  ASSUME NEW S, IsFiniteSet(S), NEW Q, {} \in Q,
         \A T \in SUBSET S, x \in S : T \in Q /\ x \notin T => T \cup {x} \in Q
  PROVE  S \in Q
<1> DEFINE R == StrictSubsetOrdering(S)
           bad == {T \in SUBSET S : T \notin Q}
<1> SUFFICES ASSUME S \notin Q PROVE FALSE
  OBVIOUS
<1>1. IsWellFoundedOn(R, SUBSET S)
  BY FS_StrictSubsetOrderingWellFounded, FS_FiniteSubsetsOfFinite
<1>2. bad \subseteq SUBSET S /\ bad # {}
  OBVIOUS
<1> HIDE DEF R
<1>3. \E T \in bad : \A U \in bad : <<U, T>> \notin R
  BY <1>1, <1>2, WFMin
<1>4. PICK T \in bad : \A U \in bad : <<U, T>> \notin R
  BY <1>3
<1>5. PICK x \in T : TRUE
  OBVIOUS
<1>6. T \ {x} \notin bad
  BY <1>4, <1>5 DEF R, StrictSubsetOrdering
<1>7. T \ {x} \in Q /\ x \notin T \ {x} /\ (T \ {x}) \cup {x} = T
  BY <1>5, <1>6
<1> QED
  BY <1>5, <1>7

\* The units a function holds on its domain.
LEMMA TotalUnits ==
  ASSUME NEW S, IsFiniteSet(S), NEW f \in [S -> Nat]
  PROVE  /\ Total(f) = Cardinality({u \in S \X Nat : u[2] \in 1..f[u[1]]})
         /\ IsFiniteSet({u \in S \X Nat : u[2] \in 1..f[u[1]]})
<1> DEFINE F == [a \in S |-> {a} \X (1..f[a])]
           T == {{a} \X (1..f[a]) : a \in S}
           units == {u \in S \X Nat : u[2] \in 1..f[u[1]]}
<1>1. F \in Surjection(S, T)
  BY DEF Surjection
<1>2. IsFiniteSet(T)
  BY <1>1, FS_Surjection
<1>3. \A a \in S : IsFiniteSet({a} \X (1..f[a]))
  <2> TAKE a \in S
  <2>1. IsFiniteSet({a})
    BY FS_Singleton
  <2>2. IsFiniteSet(1..f[a])
    BY FS_Interval
  <2> QED
    BY <2>1, <2>2, FS_Product
<1>4. IsFiniteSet(UNION T)
  BY <1>2, <1>3, FS_UNION
<1>5. UNION T = units
  <2>1. ASSUME NEW u \in units PROVE u \in UNION T
    <3>1. u \in {u[1]} \X (1..f[u[1]]) /\ u[1] \in S
      OBVIOUS
    <3> QED
      BY <3>1
  <2>2. ASSUME NEW u \in UNION T PROVE u \in units
    <3>1. PICK a \in S : u \in {a} \X (1..f[a])
      OBVIOUS
    <3>2. u = <<u[1], u[2]>> /\ u[1] = a /\ u[2] \in 1..f[a] /\ f[a] \in Nat
      BY <3>1
    <3> QED
      BY <3>2
  <2> QED
    BY <2>1, <2>2
<1>6. DOMAIN f = S
  OBVIOUS
<1> QED
  BY <1>4, <1>5, <1>6 DEF Total

\* A sum over two disjoint sets.
LEMMA TotalUnion ==
  ASSUME NEW S, IsFiniteSet(S), NEW T, IsFiniteSet(T), S \cap T = {},
         NEW f \in [S \cup T -> Nat]
  PROVE  Total(f) = Total([a \in S |-> f[a]]) + Total([a \in T |-> f[a]])
<1> DEFINE g == [a \in S |-> f[a]]
           h == [a \in T |-> f[a]]
           F == {u \in (S \cup T) \X Nat : u[2] \in 1..f[u[1]]}
           G == {u \in S \X Nat : u[2] \in 1..g[u[1]]}
           H == {u \in T \X Nat : u[2] \in 1..h[u[1]]}
<1>1. Total(f) = Cardinality(F)
  <2>1. IsFiniteSet(S \cup T)
    BY FS_Union
  <2> QED
    BY <2>1, TotalUnits
<1>2. g \in [S -> Nat] /\ h \in [T -> Nat]
  OBVIOUS
<1> HIDE DEF g, h
<1>3. Total(g) = Cardinality(G) /\ IsFiniteSet(G)
  BY <1>2, TotalUnits
<1>4. Total(h) = Cardinality(H) /\ IsFiniteSet(H)
  BY <1>2, TotalUnits
<1>5. F = G \cup H /\ G \cap H = {}
  BY DEF g, h
<1> HIDE DEF F, G, H
<1>6. Cardinality(G) \in Nat /\ Cardinality(H) \in Nat /\ Cardinality({}) = 0
  BY <1>3, <1>4, FS_CardinalityType, FS_EmptySet
<1>7. Cardinality(G \cup H) = Cardinality(G) + Cardinality(H) - Cardinality(G \cap H)
  BY <1>3, <1>4, FS_Union
<1>8. Cardinality(F) = Cardinality(G \cup H) /\ Cardinality(G \cap H) = 0
  BY <1>5, <1>6, Zenon
<1>9. Cardinality(F) = Cardinality(G) + Cardinality(H)
  BY <1>6, <1>7, <1>8
<1> QED
  BY <1>1, <1>3, <1>4, <1>9 DEF g, h

\* A sum over one element, and over none.
LEMMA TotalOne ==
  ASSUME NEW x, NEW f \in [{x} -> Nat]
  PROVE  Total(f) = f[x]
<1> DEFINE I == 1..f[x]
<1>1. DOMAIN f = {x} /\ f[x] \in Nat
  OBVIOUS
<1>2. UNION {{a} \X (1..f[a]) : a \in DOMAIN f} = {x} \X I
  BY <1>1
<1>3. IsFiniteSet({x}) /\ Cardinality({x}) = 1
  BY FS_Singleton
<1>4. IsFiniteSet(I) /\ Cardinality(I) = f[x]
  BY <1>1, FS_Interval
<1> HIDE DEF I
<1>5. Cardinality({x} \X I) = Cardinality({x}) * Cardinality(I)
  BY <1>3, <1>4, FS_Product
<1>6. Cardinality({x} \X I) = f[x]
  BY <1>1, <1>3, <1>4, <1>5
<1> QED
  BY <1>2, <1>6 DEF Total

LEMMA TotalNone ==
  ASSUME NEW f, DOMAIN f = {}
  PROVE  Total(f) = 0
<1>1. UNION {{a} \X (1..f[a]) : a \in DOMAIN f} = {}
  OBVIOUS
<1> QED
  BY <1>1, FS_EmptySet DEF Total

LEMMA TotalAdd ==
  ASSUME NEW S, IsFiniteSet(S), NEW x, x \notin S, NEW f \in [S \cup {x} -> Nat]
  PROVE  Total(f) = Total([a \in S |-> f[a]]) + f[x]
<1>1. IsFiniteSet({x}) /\ S \cap {x} = {}
  BY FS_Singleton
<1>2. Total(f) = Total([a \in S |-> f[a]]) + Total([a \in {x} |-> f[a]])
  BY <1>1, TotalUnion
<1>3. [a \in {x} |-> f[a]] \in [{x} -> Nat] /\ [a \in {x} |-> f[a]][x] = f[x]
  OBVIOUS
<1>4. Total([a \in {x} |-> f[a]]) = f[x]
  BY <1>3, TotalOne
<1> QED
  BY <1>2, <1>4

\* The sum over a part of the domain, for inductions over it.
Part(f, T) == Total([a \in T |-> f[a]])

LEMMA PartType ==
  ASSUME NEW S, IsFiniteSet(S), NEW f \in [S -> Nat], NEW T \in SUBSET S
  PROVE  Part(f, T) \in Nat
<1>1. IsFiniteSet(T)
  BY FS_Subset
<1>2. [a \in T |-> f[a]] \in [T -> Nat]
  OBVIOUS
<1> QED
  BY <1>1, <1>2, TotalType DEF Part

LEMMA PartStep ==
  ASSUME NEW S, IsFiniteSet(S), NEW f \in [S -> Nat],
         NEW T \in SUBSET S, NEW x \in S, x \notin T
  PROVE  Part(f, T \cup {x}) = Part(f, T) + f[x]
<1> DEFINE g == [a \in T \cup {x} |-> f[a]]
<1>1. IsFiniteSet(T)
  BY FS_Subset
<1>2. g \in [T \cup {x} -> Nat]
  OBVIOUS
<1>3. [a \in T |-> g[a]] = [a \in T |-> f[a]] /\ g[x] = f[x]
  OBVIOUS
<1> HIDE DEF g
<1>4. Total(g) = Total([a \in T |-> g[a]]) + g[x]
  BY <1>1, <1>2, TotalAdd
<1> QED
  BY <1>3, <1>4 DEF g, Part

LEMMA PartAll ==
  ASSUME NEW S, NEW f \in [S -> Nat]
  PROVE  Part(f, S) = Total(f)
<1>1. [a \in S |-> f[a]] = f
  OBVIOUS
<1> QED
  BY <1>1 DEF Part

LEMMA PartNone ==
  ASSUME NEW f
  PROVE  Part(f, {}) = 0
<1>1. DOMAIN [a \in {} |-> f[a]] = {}
  OBVIOUS
<1> QED
  BY <1>1, TotalNone DEF Part

\* The sum of a sum of functions.
LEMMA TotalPlus ==
  ASSUME NEW S, IsFiniteSet(S), NEW f \in [S -> Nat], NEW g \in [S -> Nat],
         NEW h \in [S -> Nat], \A a \in S : h[a] = f[a] + g[a]
  PROVE  Total(h) = Total(f) + Total(g)
<1> DEFINE Q == {T \in SUBSET S : Part(h, T) = Part(f, T) + Part(g, T)}
<1>1. {} \in Q
  BY PartNone
<1>2. ASSUME NEW T \in SUBSET S, NEW x \in S, T \in Q, x \notin T
      PROVE  T \cup {x} \in Q
  <2>1. Part(h, T \cup {x}) = Part(h, T) + h[x]
    BY <1>2, PartStep
  <2>2. Part(f, T \cup {x}) = Part(f, T) + f[x]
    BY <1>2, PartStep
  <2>3. Part(g, T \cup {x}) = Part(g, T) + g[x]
    BY <1>2, PartStep
  <2>4. Part(f, T) \in Nat /\ Part(g, T) \in Nat
    BY PartType
  <2>5. f[x] \in Nat /\ g[x] \in Nat /\ h[x] = f[x] + g[x]
    BY <1>2
  <2> QED
    BY <1>2, <2>1, <2>2, <2>3, <2>4, <2>5
<1> HIDE DEF Q
<1>3. S \in Q
  BY <1>1, <1>2, SubsetInduction
<1> QED
  BY <1>3, PartAll DEF Q

LEMMA TotalZero ==
  ASSUME NEW S, IsFiniteSet(S), NEW f \in [S -> Nat], \A a \in S : f[a] = 0
  PROVE  Total(f) = 0
<1>1. Total(f) = Total(f) + Total(f)
  BY TotalPlus
<1> QED
  BY <1>1, TotalType

\* The arithmetic of one share, and of their sum.
LEMMA ShareBound ==
  ASSUME NEW m \in Nat, NEW n \in Nat, NEW d \in Nat \ {0}
  PROVE  ((m * n) \div d) * d <= m * n
<1>1. m * n \in Nat
  OBVIOUS
<1>2. \A k \in Nat : (k \div d) * d <= k
  OBVIOUS
<1> QED
  BY <1>1, <1>2

LEMMA CancelFactor ==
  ASSUME NEW m \in Nat, NEW n \in Nat, NEW d \in Nat \ {0}, m * d <= n * d
  PROVE  m <= n
OBVIOUS

\* If each share times d is at most m times the stake, so are the sums.
LEMMA SumBound ==
  ASSUME NEW S, IsFiniteSet(S), NEW f \in [S -> Nat], NEW g \in [S -> Nat],
         NEW m \in Nat, NEW d \in Nat, \A a \in S : f[a] * d <= m * g[a]
  PROVE  Total(f) * d <= m * Total(g)
<1> DEFINE Q == {T \in SUBSET S : Part(f, T) * d <= m * Part(g, T)}
<1>1. {} \in Q
  BY PartNone
<1>2. ASSUME NEW T \in SUBSET S, NEW x \in S, T \in Q, x \notin T
      PROVE  T \cup {x} \in Q
  <2>1. Part(f, T \cup {x}) = Part(f, T) + f[x]
    BY <1>2, PartStep
  <2>2. Part(g, T \cup {x}) = Part(g, T) + g[x]
    BY <1>2, PartStep
  <2>3. f[x] \in Nat /\ g[x] \in Nat /\ f[x] * d <= m * g[x]
    BY <1>2
  <2>4. Part(f, T) * d <= m * Part(g, T)
    BY <1>2
  <2>5. Part(f, T) \in Nat /\ Part(g, T) \in Nat
    BY PartType
  <2>6. (Part(f, T) + f[x]) * d <= m * (Part(g, T) + g[x])
    BY <2>3, <2>4, <2>5
  <2> QED
    BY <1>2, <2>1, <2>2, <2>6
<1> HIDE DEF Q
<1>3. S \in Q
  BY <1>1, <1>2, SubsetInduction
<1> QED
  BY <1>3, PartAll DEF Q

\* _credit_validator_rewards_pool never hands out more than came in: the
\* integer shares of an inflow add up to at most its amount.
LEMMA SharesBounded ==
  ASSUME NEW amount \in Nat, NEW stake \in [Addrs -> Nat]
  PROVE  Total(Shares(amount, stake)) \in 0..amount
<1> PICK share : share = Shares(amount, stake)
  OBVIOUS
<1> PICK d : d = Total(stake)
  OBVIOUS
<1>1. IsFiniteSet(Addrs) /\ DOMAIN stake = Addrs
  BY AddrsFinite
<1>2. share \in [Addrs -> Nat] /\ d \in Nat
  BY <1>1, SharesType, TotalType
<1>3. Total(share) \in Nat
  BY <1>1, <1>2, TotalType
<1>4. CASE d = 0
  <2>1. \A a \in Addrs : share[a] = 0
    BY <1>1, <1>4 DEF Shares
  <2>2. Total(share) = 0
    BY <1>1, <1>2, <2>1, TotalZero
  <2> QED
    BY <2>2
<1>5. CASE d # 0
  <2>1. \A a \in Addrs : share[a] = (amount * stake[a]) \div d
    BY <1>1, <1>5 DEF Shares
  <2>2. \A a \in Addrs : share[a] * d <= amount * stake[a]
    BY <1>2, <1>5, <2>1, ShareBound
  <2>3. Total(share) * d <= amount * d
    BY <1>1, <1>2, <2>2, SumBound
  <2>4. Total(share) <= amount
    BY <1>2, <1>3, <1>5, <2>3, CancelFactor
  <2> QED
    BY <1>3, <2>4
<1> QED
  BY <1>4, <1>5

-----------------------------------------------------------------------------
(* The invariant *)

\* pending_rewards as a session with the writes w sees it.
SeenRewards(w) ==
  [a \in Addrs |-> IF w.reward[a] = Clean THEN validator_rewards[a] ELSE w.reward[a]]

\* What the session shows of its inflow f is credited or dust.
Balanced(w, f) ==
  Total(SeenRewards(w)) + f.dust_remaining = Total(validator_rewards) + f.amount

\* An ingester with job j and uncommitted writes w: rewards go with the inflow
\* of its block, of which there is one; unless somebody else has recorded it,
\* which ends this session, no reward has changed since it was distributed.
RewardsOK(j, w) ==
  /\ w.inflows = {} => \A a \in Addrs : w.reward[a] = Clean
  /\ w.inflows # {} =>
       /\ j.pc \in Active /\ HasInflow(j.h)
       /\ \E f \in Inflow :
            /\ w.inflows = {f} /\ f.dust_remaining \in 0..f.amount
            /\ InflowRecorded(j.h) \/ Balanced(w, f)

\* The inflows can be added up.
InflowsOK ==
  IsFiniteSet(reward_pool_inflows) /\ \A f \in reward_pool_inflows : f.dust_remaining \in Nat

RewardInv ==
  /\ InflowsOK /\ PoolBalanced
  /\ \A p \in Ingesters : RewardsOK(ing[p], txn[p])

-----------------------------------------------------------------------------
(* Steps that leave the tables alone *)

\* A session whose rewards and inflows did not change is sound in any job of
\* the same block, and without inflows in any job at all.
LEMMA SameRewards ==
  ASSUME NEW j, NEW w, RewardsOK(j, w), NEW k, NEW v,
         v.inflows = w.inflows, v.reward = w.reward,
         w.inflows = {} \/ (k.pc \in Active /\ k.h = j.h)
  PROVE  RewardsOK(k, v)
<1>1. CASE w.inflows = {}
  BY <1>1 DEF RewardsOK
<1>2. CASE w.inflows # {}
  <2>1. k.pc \in Active /\ k.h = j.h /\ HasInflow(j.h)
    BY <1>2 DEF RewardsOK
  <2>2. PICK f \in Inflow :
          /\ w.inflows = {f} /\ f.dust_remaining \in 0..f.amount
          /\ InflowRecorded(j.h) \/ Balanced(w, f)
    BY <1>2 DEF RewardsOK
  <2>3. SeenRewards(v) = SeenRewards(w)
    BY DEF SeenRewards
  <2>4. InflowRecorded(k.h) \/ Balanced(v, f)
    BY <2>1, <2>2, <2>3 DEF Balanced
  <2> QED
    BY <1>2, <2>1, <2>2, <2>4 DEF RewardsOK
<1> QED
  BY <1>1, <1>2

LEMMA CleanRewards ==
  ASSUME NEW j
  PROVE  RewardsOK(j, NoWrites)
BY DEF RewardsOK, NoWrites

\* The rewards part of a session does not look at anything that stays.
LEMMA RewardsStay ==
  ASSUME NEW p \in Ingesters, NEW j, NEW w, RewardsOK(j, w), ing'[p] = j, txn'[p] = w,
         UNCHANGED <<chain, validator_rewards, reward_pool_inflows>>
  PROVE  RewardsOK(ing[p], txn[p])'
<1>1. \A h : HasInflow(h)' = HasInflow(h) /\ InflowRecorded(h)' = InflowRecorded(h)
  BY DEF HasInflow, InflowRecorded
<1>2. \A f : Balanced(w, f) => Balanced(txn[p], f)'
  BY DEF Balanced, SeenRewards
<1> QED
  BY <1>1, <1>2 DEF RewardsOK

LEMMA QuietRewards ==
  ASSUME TypeInv, RewardInv, NEW p \in Ingesters, NEW j, NEW w, RewardsOK(j, w),
         ing' = [ing EXCEPT ![p] = j], txn' = [txn EXCEPT ![p] = w],
         UNCHANGED <<chain, validator_rewards, reward_pool_inflows>>
  PROVE  RewardInv'
<1>1. ing \in [Ingesters -> Jobs] /\ txn \in [Ingesters -> Writes]
  BY DEF TypeInv, TypeOK, IngestTypeOK
<1>2. ASSUME NEW q \in Ingesters PROVE RewardsOK(ing[q], txn[q])'
  <2>1. CASE q = p
    BY <1>1, <2>1, RewardsStay
  <2>2. CASE q # p
    <3>1. RewardsOK(ing[q], txn[q]) /\ ing'[q] = ing[q] /\ txn'[q] = txn[q]
      BY <1>1, <2>2 DEF RewardInv
    <3> QED
      BY <3>1, RewardsStay
  <2> QED
    BY <2>1, <2>2
<1>3. InflowsOK' /\ PoolBalanced'
  BY DEF RewardInv, InflowsOK, PoolBalanced
<1> QED
  BY <1>2, <1>3 DEF RewardInv

\* Between blocks.
LEMMA LoopRewards ==
  ASSUME TypeInv, IngestInv, RewardInv, NEW p \in Ingesters, ing[p].pc \notin Active,
         NEW j, ing' = [ing EXCEPT ![p] = j],
         UNCHANGED <<chain, validator_rewards, reward_pool_inflows, txn>>
  PROVE  RewardInv'
<1>1. txn[p].inflows = {} /\ RewardsOK(ing[p], txn[p])
  BY RestWrites DEF RewardInv
<1>2. RewardsOK(j, txn[p])
  BY <1>1, SameRewards
<1> QED
  BY <1>2, SameTxn, QuietRewards

LEMMA LoopStepRewards ==
  ASSUME TypeInv, IngestInv, RewardInv, NEW p \in Ingesters,
         \/ ReadTip(p) \/ (p = Watcher /\ WatcherTick)
         \/ SnapshotStart(p) \/ SnapshotRefresh(p) \/ SnapshotComplete(p)
  PROVE  RewardInv'
<1>1. ing[p].pc \notin Active
  BY DEF ReadTip, WatcherTick, SnapshotStart, SnapshotRefresh, SnapshotComplete, Active
<1>2. UNCHANGED <<chain, validator_rewards, reward_pool_inflows, txn>>
  BY DEF ReadTip, WatcherTick, SnapshotStart, SnapshotRefresh, SnapshotComplete, ledgerVars
<1>3. \E j : ing' = [ing EXCEPT ![p] = j]
  BY DEF ReadTip, WatcherTick, SnapshotStart, SnapshotRefresh, SnapshotComplete
<1> QED
  BY <1>1, <1>2, <1>3, LoopRewards

\* Within a block, when rewards and inflows stay.
LEMMA TxStepRewards ==
  ASSUME TypeInv, RewardInv, NEW p \in Ingesters, HasTx(p), NextTx(p),
         NEW w, txn' = [txn EXCEPT ![p] = w],
         w = NoWrites \/ (w.inflows = txn[p].inflows /\ w.reward = txn[p].reward)
  PROVE  RewardInv'
<1> DEFINE j == Job("apply", ing[p].h, ing[p].i + 1, ing[p].tip)
<1>1. RewardsOK(ing[p], txn[p]) /\ j.pc \in Active /\ j.h = ing[p].h
  BY DEF RewardInv, Job, Active
<1>2. ing' = [ing EXCEPT ![p] = j] /\ UNCHANGED <<chain, validator_rewards, reward_pool_inflows>>
  BY DEF NextTx, ledgerVars
<1> HIDE DEF j
<1>3. RewardsOK(j, w)
  BY <1>1, SameRewards, CleanRewards
<1> QED
  BY <1>2, <1>3, QuietRewards

LEMMA OtherTxRewards ==
  ASSUME TypeInv, RewardInv, NEW p \in Ingesters,
         IgnoreTx(p) \/ RecordEvent(p) \/ DuplicateEvent(p)
  PROVE  RewardInv'
<1>1. CASE IgnoreTx(p)
  BY <1>1, SameTxn, TxStepRewards DEF IgnoreTx
<1>2. CASE RecordEvent(p)
  <2>1. CurEvent(p) \in Event
    BY <1>2, TxOfType DEF RecordEvent, HasTx, Active
  <2> QED
    BY <1>2, <2>1, EventWritesType, TxStepRewards DEF RecordEvent
<1>3. CASE DuplicateEvent(p)
  BY <1>3, TxStepRewards DEF DuplicateEvent
<1> QED
  BY <1>1, <1>2, <1>3

LEMMA AbandonRewards ==
  ASSUME TypeInv, RewardInv, NEW p \in Ingesters, IntegrityAbort(p) \/ Fail(p)
  PROVE  RewardInv'
<1>1. Abandon(p)
  BY DEF IntegrityAbort, Fail
<1> QED
  BY <1>1, CleanRewards, QuietRewards DEF Abandon, ledgerVars

LEMMA UnlockRewards ==
  ASSUME TypeInv, RewardInv, UnlockUnstakes
  PROVE  RewardInv'
<1> DEFINE w == [txn[Watcher] EXCEPT !.ready = Unlocked(ing[Watcher].h)]
           j == Job("commit", ing[Watcher].h, ing[Watcher].i, ing[Watcher].tip)
<1>0. Watcher \in Ingesters
  BY DEF Ingesters
<1>1. w.inflows = txn[Watcher].inflows /\ w.reward = txn[Watcher].reward
  BY <1>0, OwnWrites DEF Writes
<1>2. j.pc \in Active /\ j.h = ing[Watcher].h /\ RewardsOK(ing[Watcher], txn[Watcher])
  BY <1>0 DEF Job, Active, RewardInv
<1>3. txn' = [txn EXCEPT ![Watcher] = w] /\ ing' = [ing EXCEPT ![Watcher] = j]
  BY DEF UnlockUnstakes
<1> HIDE DEF w, j
<1>4. RewardsOK(j, w)
  BY <1>1, <1>2, SameRewards
<1> QED
  BY <1>0, <1>3, <1>4, QuietRewards DEF UnlockUnstakes, ledgerVars

-----------------------------------------------------------------------------
(* The distribution of an inflow *)

\* Distributing amount by stake in a session that has not touched rewards:
\* what the session then shows is credited or dust, to the unit.
LEMMA DistributionBalanced ==
  ASSUME TypeInv, NEW p \in Ingesters, NEW amount \in Nat, NEW stake \in [Addrs -> Nat],
         \A a \in Addrs : txn[p].reward[a] = Clean
  PROVE  /\ InflowRow(ing[p].h, amount, stake) \in Inflow
         /\ InflowRow(ing[p].h, amount, stake).dust_remaining \in 0..amount
         /\ InflowRow(ing[p].h, amount, stake).amount = amount
         /\ Balanced(RewardWrites(p, amount, stake), InflowRow(ing[p].h, amount, stake))
<1> PICK share : share = Shares(amount, stake)
  OBVIOUS
<1> DEFINE row == InflowRow(ing[p].h, amount, stake)
           w == RewardWrites(p, amount, stake)
<1>1. share \in [Addrs -> Nat] /\ Total(share) \in 0..amount
  BY SharesType, SharesBounded
<1>2. row \in Inflow
  BY OwnJob, InflowRowType
<1>3. row.amount = amount /\ row.dust_remaining = amount - Total(share)
  BY DEF InflowRow
<1>4. validator_rewards \in [Addrs -> Nat] /\ IsFiniteSet(Addrs)
  BY AddrsFinite DEF TypeInv, TypeOK, DbTypeOK
<1>5. Total(validator_rewards) \in Nat
  BY <1>4, TotalType
<1>6. SeenRewards(w) \in [Addrs -> Nat]
      /\ \A a \in Addrs : SeenRewards(w)[a] = validator_rewards[a] + share[a]
  <2>1. \A a \in Addrs : RewardSeen(p, a) = validator_rewards[a]
    BY DEF RewardSeen
  <2>2. w.reward = [a \in Addrs |-> IF share[a] = 0 THEN txn[p].reward[a]
                                     ELSE RewardSeen(p, a) + share[a]]
    BY OwnWrites DEF RewardWrites, Writes
  <2> HIDE DEF w
  <2>3. \A a \in Addrs : SeenRewards(w)[a] = validator_rewards[a] + share[a]
    BY <1>1, <1>4, <2>1, <2>2 DEF SeenRewards, Clean
  <2>4. SeenRewards(w) = [a \in Addrs |-> SeenRewards(w)[a]]
    BY DEF SeenRewards
  <2> QED
    BY <1>1, <1>4, <2>3, <2>4
<1> HIDE DEF row, w
<1>7. Total(SeenRewards(w)) = Total(validator_rewards) + Total(share)
  BY <1>1, <1>4, <1>6, TotalPlus
<1>8. Balanced(w, row)
  BY <1>1, <1>3, <1>5, <1>7 DEF Balanced
<1>9. row.dust_remaining \in 0..amount
  BY <1>1, <1>3
<1> QED
  BY <1>2, <1>3, <1>8, <1>9 DEF row, w

LEMMA CreditRewardsKeeps ==
  ASSUME TypeInv, IngestInv, RewardInv, NEW p \in Ingesters, CreditRewards(p)
  PROVE  RewardInv'
<1> DEFINE stake == [a \in Addrs |-> AmountSeen(p, a)]
           w == RewardWrites(p, TxOf(p).amount, stake)
           row == InflowRow(ing[p].h, TxOf(p).amount, stake)
           j == Job("apply", ing[p].h, ing[p].i + 1, ing[p].tip)
<1>1. /\ HasTx(p) /\ IsInflow(TxOf(p)) /\ NextTx(p) /\ ~InflowDone(p)
      /\ txn' = [txn EXCEPT ![p] = w] /\ ing[p].pc \in Active
  BY DEF CreditRewards, HasTx, Active
<1>2. TxOf(p).amount \in Nat /\ stake \in [Addrs -> Nat]
  BY <1>1, InflowType
<1>3. txn[p].inflows = {} /\ \A a \in Addrs : txn[p].reward[a] = Clean
  <2>1. txn[p].inflows = {}
    BY <1>1, InBlock DEF InflowDone
  <2> QED
    BY <2>1 DEF RewardInv, RewardsOK
<1>4. w.inflows = {row}
  BY <1>2, <1>3, RewardWritesType
<1>5. row \in Inflow /\ row.dust_remaining \in 0..row.amount /\ Balanced(w, row)
  BY <1>2, <1>3, DistributionBalanced
<1>6. HasInflow(ing[p].h)
  BY <1>1, TxOfType DEF HasInflow, TxOf, BlockOf
<1>7. j.pc \in Active /\ j.h = ing[p].h
  BY DEF Job, Active
<1>8. ing' = [ing EXCEPT ![p] = j] /\ UNCHANGED <<chain, validator_rewards, reward_pool_inflows>>
  BY <1>1 DEF NextTx, ledgerVars
<1> HIDE DEF w, row, j, stake
<1>9. RewardsOK(j, w)
  BY <1>4, <1>5, <1>6, <1>7 DEF RewardsOK
<1> QED
  BY <1>1, <1>8, <1>9, QuietRewards

-----------------------------------------------------------------------------
(* The commit of a block *)

\* What a commit does to the rewards: nothing, or it adds the inflow of the
\* session, which is new.
LEMMA CommitEffect ==
  ASSUME TypeInv, IngestInv, RewardInv, NEW p \in Ingesters, CommitBlock(p)
  PROVE  \/ /\ txn[p].inflows = {}
            /\ UNCHANGED <<validator_rewards, reward_pool_inflows>>
         \/ /\ ~InflowRecorded(ing[p].h) /\ HasInflow(ing[p].h)
            /\ \E f \in Inflow :
                 /\ f.block_height = ing[p].h /\ f.dust_remaining \in 0..f.amount
                 /\ f \notin reward_pool_inflows
                 /\ reward_pool_inflows' = reward_pool_inflows \cup {f}
                 /\ validator_rewards' \in [Addrs -> Nat]
                 /\ Total(validator_rewards') + f.dust_remaining
                      = Total(validator_rewards) + f.amount
<1>0. /\ RewardsOK(ing[p], txn[p]) /\ ing[p].pc \in Active /\ ~InflowClash(p)
      /\ reward_pool_inflows' = reward_pool_inflows \cup txn[p].inflows
      /\ validator_rewards' = [a \in Addrs |-> RewardSeen(p, a)]
      /\ validator_rewards \in [Addrs -> Nat]
  BY DEF CommitBlock, RewardInv, AtCommit, AllTxsDone, Active, TypeInv, TypeOK, DbTypeOK
<1>1. validator_rewards' = SeenRewards(txn[p])
  BY <1>0 DEF SeenRewards, RewardSeen
<1>2. CASE txn[p].inflows = {}
  <2>1. \A a \in Addrs : txn[p].reward[a] = Clean
    BY <1>0, <1>2 DEF RewardsOK
  <2>2. SeenRewards(txn[p]) = validator_rewards
    BY <1>0, <2>1 DEF SeenRewards
  <2> QED
    BY <1>0, <1>1, <1>2, <2>2
<1>3. CASE txn[p].inflows # {}
  <2>1. PICK f \in Inflow :
          /\ txn[p].inflows = {f} /\ f.dust_remaining \in 0..f.amount
          /\ InflowRecorded(ing[p].h) \/ Balanced(txn[p], f)
    BY <1>0, <1>3 DEF RewardsOK
  <2>2. f.block_height = ing[p].h
    BY <1>0, <2>1, InBlock
  <2>3. ~InflowRecorded(ing[p].h)
    BY <1>0, <2>1, <2>2 DEF InflowClash, InflowRecorded
  <2>4. f \notin reward_pool_inflows
    BY <2>2, <2>3 DEF InflowRecorded
  <2>5. HasInflow(ing[p].h)
    BY <1>0, <1>3 DEF RewardsOK
  <2>6. validator_rewards' \in [Addrs -> Nat]
    BY <1>0, SeenType DEF TypeInv
  <2>7. Total(validator_rewards') + f.dust_remaining = Total(validator_rewards) + f.amount
    BY <1>1, <2>1, <2>3 DEF Balanced
  <2> QED
    BY <1>0, <2>1, <2>2, <2>3, <2>4, <2>5, <2>6, <2>7
<1> QED
  BY <1>2, <1>3

\* Adding an inflow to both sides of the balance.
LEMMA BalanceStep ==
  ASSUME InflowsOK, reward_pool_inflows \subseteq Inflow, PoolBalanced,
         Total(validator_rewards) \in Nat, Total(validator_rewards)' \in Nat,
         NEW f \in Inflow, f \notin reward_pool_inflows, f.dust_remaining \in 0..f.amount,
         reward_pool_inflows' = reward_pool_inflows \cup {f},
         Total(validator_rewards)' + f.dust_remaining = Total(validator_rewards) + f.amount
  PROVE  InflowsOK' /\ PoolBalanced'
<1> PICK S : S = reward_pool_inflows
  OBVIOUS
<1> DEFINE dust == [g \in S \cup {f} |-> g.dust_remaining]
           amount == [g \in S \cup {f} |-> g.amount]
<1>1. IsFiniteSet(S) /\ f \notin S /\ f.dust_remaining \in Nat /\ f.amount \in Nat
  BY DEF InflowsOK, Inflow
<1>2. \A g \in S \cup {f} : g.dust_remaining \in Nat /\ g.amount \in Nat
  BY <1>1 DEF InflowsOK, Inflow
<1>3. dust \in [S \cup {f} -> Nat] /\ amount \in [S \cup {f} -> Nat]
  BY <1>2
<1>4. /\ [g \in S |-> dust[g]] = [g \in S |-> g.dust_remaining] /\ dust[f] = f.dust_remaining
      /\ [g \in S |-> amount[g]] = [g \in S |-> g.amount] /\ amount[f] = f.amount
  OBVIOUS
<1>5. [g \in S |-> g.dust_remaining] \in [S -> Nat] /\ [g \in S |-> g.amount] \in [S -> Nat]
  BY <1>2
<1>6. Total([g \in S |-> g.dust_remaining]) \in Nat /\ Total([g \in S |-> g.amount]) \in Nat
  BY <1>1, <1>5, TotalType
<1>7. dust = [g \in reward_pool_inflows' |-> g.dust_remaining]
      /\ amount = [g \in reward_pool_inflows' |-> g.amount]
  OBVIOUS
<1> HIDE DEF dust, amount
<1>8. Total(dust) = Total([g \in S |-> dust[g]]) + dust[f]
  BY <1>1, <1>3, TotalAdd
<1>9. Total(amount) = Total([g \in S |-> amount[g]]) + amount[f]
  BY <1>1, <1>3, TotalAdd
<1>10. Total(validator_rewards) + Total([g \in S |-> g.dust_remaining])
         = Total([g \in S |-> g.amount])
  BY DEF PoolBalanced
<1>11. Total(validator_rewards)' + Total(dust) = Total(amount)
  BY <1>1, <1>4, <1>6, <1>8, <1>9, <1>10
<1>12. PoolBalanced'
  BY <1>7, <1>11 DEF PoolBalanced
<1>13. IsFiniteSet(S \cup {f})
  BY <1>1, FS_AddElement
<1>14. InflowsOK'
  BY <1>2, <1>13 DEF InflowsOK
<1> QED
  BY <1>12, <1>14

\* Two sessions with different blocks never both have an inflow to commit: one
\* of the two blocks lies below the other and is in the ledger already.
LEMMA OneInflowOpen ==
  ASSUME TypeInv, IngestInv, NEW p \in Ingesters, NEW q \in Ingesters,
         ing[p].pc \in Active, HasInflow(ing[p].h), ~InflowRecorded(ing[p].h),
         ing[q].pc \in Active, HasInflow(ing[q].h), ~InflowRecorded(ing[q].h)
  PROVE  ing[p].h = ing[q].h
<1>1. ing[p].h \in Nat /\ ing[q].h \in Nat
  BY OwnJob
<1>2. ~BlockRecorded(ing[p].h) /\ ~BlockRecorded(ing[q].h)
  BY DEF BlockRecorded
<1>3. \A g \in 0..(ing[p].h - 1) : BlockRecorded(g)
  BY InBlock
<1>4. \A g \in 0..(ing[q].h - 1) : BlockRecorded(g)
  BY InBlock
<1> QED
  BY <1>1, <1>2, <1>3, <1>4

LEMMA CommitBlockRewards ==
  ASSUME TypeInv, IngestInv, RewardInv, NEW p \in Ingesters, CommitBlock(p)
  PROVE  RewardInv'
<1> DEFINE j == IF ing[p].h < ing[p].tip THEN Walk(ing[p].h + 1, ing[p].tip)
                ELSE IF p = Watcher THEN IdleJob ELSE Job("refresh", 0, 1, ing[p].tip)
<1>0. /\ ing' = [ing EXCEPT ![p] = j] /\ txn' = [txn EXCEPT ![p] = NoWrites]
      /\ chain' = chain /\ ing[p].pc \in Active
      /\ ing \in [Ingesters -> Jobs] /\ txn \in [Ingesters -> Writes]
  BY DEF CommitBlock, AtCommit, AllTxsDone, Active, TypeInv, TypeOK, IngestTypeOK
<1> HIDE DEF j
<1>1. CASE UNCHANGED <<validator_rewards, reward_pool_inflows>>
  BY <1>0, <1>1, CleanRewards, QuietRewards
<1>2. CASE ~UNCHANGED <<validator_rewards, reward_pool_inflows>>
  <2>1. ~InflowRecorded(ing[p].h) /\ HasInflow(ing[p].h)
    BY <1>2, CommitEffect
  <2>2. PICK f \in Inflow :
          /\ f.block_height = ing[p].h /\ f.dust_remaining \in 0..f.amount
          /\ f \notin reward_pool_inflows
          /\ reward_pool_inflows' = reward_pool_inflows \cup {f}
          /\ validator_rewards' \in [Addrs -> Nat]
          /\ Total(validator_rewards') + f.dust_remaining = Total(validator_rewards) + f.amount
    BY <1>2, CommitEffect
  <2>3. Total(validator_rewards) \in Nat /\ Total(validator_rewards') \in Nat
    BY <2>2, AddrsFinite, TotalType DEF TypeInv, TypeOK, DbTypeOK
  <2>4. reward_pool_inflows \subseteq Inflow /\ InflowsOK /\ PoolBalanced
    BY DEF TypeInv, TypeOK, DbTypeOK, RewardInv
  <2>5. Total(validator_rewards)' = Total(validator_rewards')
    BY DEF Total
  <2>6. InflowsOK' /\ PoolBalanced'
    BY <2>2, <2>3, <2>4, <2>5, BalanceStep
  <2>7. \A h : h = ing[p].h => \E g \in reward_pool_inflows' : g.block_height = h
    BY <2>2
  <2>8. ASSUME NEW q \in Ingesters, q # p PROVE RewardsOK(ing[q], txn[q])'
    <3>1. ing'[q] = ing[q] /\ txn'[q] = txn[q] /\ RewardsOK(ing[q], txn[q])
      BY <1>0, <2>8 DEF RewardInv
    <3>2. CASE txn[q].inflows = {}
      BY <3>1, <3>2 DEF RewardsOK
    <3>3. CASE txn[q].inflows # {}
      <4>1. ing[q].pc \in Active /\ HasInflow(ing[q].h)
        BY <3>1, <3>3 DEF RewardsOK
      <4>2. PICK g \in Inflow : txn[q].inflows = {g} /\ g.dust_remaining \in 0..g.amount
        BY <3>1, <3>3 DEF RewardsOK
      <4>3. InflowRecorded(ing[q].h)'
        <5>1. CASE InflowRecorded(ing[q].h)
          BY <3>1, <5>1, <2>2 DEF InflowRecorded
        <5>2. CASE ~InflowRecorded(ing[q].h)
          <6>1. ing[q].h = ing[p].h
            BY <1>0, <2>1, <4>1, <5>2, OneInflowOpen
          <6> QED
            BY <2>7, <3>1, <6>1 DEF InflowRecorded
        <5> QED
          BY <5>1, <5>2
      <4>4. HasInflow(ing[q].h)'
        BY <1>0, <3>1, <4>1 DEF HasInflow
      <4> QED
        BY <3>1, <4>1, <4>2, <4>3, <4>4 DEF RewardsOK
    <3> QED
      BY <3>2, <3>3
  <2>9. RewardsOK(ing[p], txn[p])'
    <3>1. txn'[p] = NoWrites
      BY <1>0
    <3> QED
      BY <3>1 DEF RewardsOK, NoWrites
  <2> QED
    BY <2>6, <2>8, <2>9 DEF RewardInv
<1> QED
  BY <1>1, <1>2

-----------------------------------------------------------------------------
(* The other steps *)

LEMMA MineRewards ==
  ASSUME TypeInv, RewardInv, NEW b \in Blocks, Mine(b)
  PROVE  RewardInv'
<1>0. /\ chain \in Seq(Seq(Tx)) /\ b \in Seq(Tx) /\ chain' = Append(chain, b)
      /\ UNCHANGED <<validator_rewards, reward_pool_inflows, ing, txn>>
  BY BlockAssumption DEF Mine, TypeInv, TypeOK, DbTypeOK, ledgerVars, ingestVars
<1>1. \A g \in 0..Tip : chain'[g + 1] = chain[g + 1]
  BY <1>0, TipType, AppendProperties DEF Tip
<1>2. InflowsOK' /\ PoolBalanced'
  BY <1>0 DEF RewardInv, InflowsOK, PoolBalanced
<1>3. ASSUME NEW p \in Ingesters PROVE RewardsOK(ing[p], txn[p])'
  <2>1. RewardsOK(ing[p], txn[p]) /\ ing'[p] = ing[p] /\ txn'[p] = txn[p]
    BY <1>0 DEF RewardInv
  <2>2. CASE txn[p].inflows = {}
    BY <2>1, <2>2 DEF RewardsOK
  <2>3. CASE txn[p].inflows # {}
    <3>1. ing[p].pc \in Active /\ HasInflow(ing[p].h)
      BY <2>1, <2>3 DEF RewardsOK
    <3>2. ing[p].h \in 0..Tip
      BY <3>1, TxOfType
    <3>3. HasInflow(ing[p].h)'
      BY <1>1, <2>1, <3>1, <3>2 DEF HasInflow
    <3>4. PICK f \in Inflow :
            /\ txn[p].inflows = {f} /\ f.dust_remaining \in 0..f.amount
            /\ InflowRecorded(ing[p].h) \/ Balanced(txn[p], f)
      BY <2>1, <2>3 DEF RewardsOK
    <3>5. InflowRecorded(ing[p].h)' \/ Balanced(txn[p], f)'
      BY <1>0, <2>1, <3>4 DEF InflowRecorded, Balanced, SeenRewards
    <3> QED
      BY <2>1, <3>1, <3>3, <3>4, <3>5 DEF RewardsOK
  <2> QED
    BY <2>2, <2>3
<1> QED
  BY <1>2, <1>3 DEF RewardInv

\* No handler changes a reward: the claim that would is refused.
LEMMA ApiRewards ==
  ASSUME ApiNext
  PROVE  UNCHANGED <<chain, validator_rewards, reward_pool_inflows>>
BY DEF ApiNext, HandlerStep, UnstakeLoad, CancelLoad, ClaimLoad, Begin, Goto, ReadHeight,
       UnstakeHeight, UnstakeCommit, CancelLoadStaker, CancelHeight, CancelCommit,
       ClaimHeight, ClaimRefused, HandlerAbort, ledgerVars

LEMMA FrameRewards ==
  ASSUME RewardInv, UNCHANGED ingestVars,
         UNCHANGED <<chain, validator_rewards, reward_pool_inflows>>
  PROVE  RewardInv'
<1>1. \A p \in Ingesters : RewardsOK(ing[p], txn[p])'
  BY RewardsStay DEF RewardInv, ingestVars
<1>2. InflowsOK' /\ PoolBalanced'
  BY DEF RewardInv, InflowsOK, PoolBalanced
<1> QED
  BY <1>1, <1>2 DEF RewardInv

LEMMA InitRewards == Init => RewardInv
<1> SUFFICES ASSUME Init PROVE RewardInv
  OBVIOUS
<1>1. /\ reward_pool_inflows = {} /\ validator_rewards = [a \in Addrs |-> 0]
      /\ txn = [p \in Ingesters |-> NoWrites]
  BY DEF Init, DbInit, IngestInit
<1>2. Total(validator_rewards) = 0
  <2>1. validator_rewards \in [Addrs -> Nat] /\ \A a \in Addrs : validator_rewards[a] = 0
    BY <1>1
  <2> QED
    BY <2>1, AddrsFinite, TotalZero
<1>3. /\ Total([f \in reward_pool_inflows |-> f.dust_remaining]) = 0
      /\ Total([f \in reward_pool_inflows |-> f.amount]) = 0
  <2>1. DOMAIN [f \in {} |-> f.dust_remaining] = {} /\ DOMAIN [f \in {} |-> f.amount] = {}
    OBVIOUS
  <2> QED
    BY <1>1, <2>1, TotalNone
<1>4. PoolBalanced
  BY <1>2, <1>3 DEF PoolBalanced
<1>5. InflowsOK
  BY <1>1, FS_EmptySet DEF InflowsOK
<1>6. \A p \in Ingesters : RewardsOK(ing[p], txn[p])
  BY <1>1, CleanRewards
<1> QED
  BY <1>4, <1>5, <1>6 DEF RewardInv

LEMMA NextRewards == TypeInv /\ IngestInv /\ RewardInv /\ [Next]_vars => RewardInv'
<1> SUFFICES ASSUME TypeInv, IngestInv, RewardInv, [Next]_vars PROVE RewardInv'
  OBVIOUS
<1>1. CASE IngestNext
  <2>1. ASSUME NEW p \in Ingesters, IngestStep(p) PROVE RewardInv'
    BY <2>1, OtherTxRewards, CreditRewardsKeeps, CommitBlockRewards, AbandonRewards
    DEF IngestStep
  <2>2. CASE WatcherStep
    BY <2>1, <2>2, LoopStepRewards, UnlockRewards DEF WatcherStep, Ingesters
  <2>3. ASSUME NEW s \in Snapshots, SnapshotStep(s) PROVE RewardInv'
    BY <2>1, <2>3, LoopStepRewards DEF SnapshotStep, Ingesters
  <2> QED
    BY <1>1, <2>2, <2>3, MineRewards, LoopStepRewards, AbandonRewards DEF IngestNext, IngestWork
<1>2. CASE ApiNext /\ UNCHANGED ingestVars
  BY <1>2, ApiRewards, FrameRewards
<1>3. CASE UNCHANGED vars
  BY <1>3, FrameRewards DEF vars, ledgerVars
<1> QED
  BY <1>1, <1>2, <1>3 DEF Next

LEMMA RewardInvHolds == Spec => [](TypeInv /\ IngestInv /\ RewardInv)
BY IngestInvHolds, InitRewards, NextRewards, PTL DEF Spec

-----------------------------------------------------------------------------
(* What is booked as paid in *)

\* An ingester with job j and uncommitted writes w: its inflow is the first
\* pool transfer of its block.
FirstOnly(j, w) ==
  \A f \in w.inflows : f.block_height = j.h /\ HasInflow(j.h) /\ f.amount = FirstInflow(j.h)

BookInv ==
  /\ \A f \in reward_pool_inflows : BookedOnce(f)
  /\ \A p \in Ingesters : FirstOnly(ing[p], txn[p])

\* The first transfer of a block that has one.
LEMMA FirstTransfer ==
  ASSUME NEW h, NEW i \in DOMAIN chain[h + 1], IsInflow(chain[h + 1][i]),
         \A n \in 1..(i - 1) : ~IsInflow(chain[h + 1][n]),
         DOMAIN chain[h + 1] \subseteq Nat \ {0}
  PROVE  FirstInflow(h) = chain[h + 1][i].amount
<1> DEFINE First(n) == /\ IsInflow(chain[h + 1][n])
                       /\ \A m \in 1..(n - 1) : ~IsInflow(chain[h + 1][m])
<1>1. First(i) /\ \A n \in DOMAIN chain[h + 1] : First(n) => n = i
  <2>1. ASSUME NEW n \in DOMAIN chain[h + 1], First(n), n # i PROVE FALSE
    <3>1. n \in Nat \ {0} /\ i \in Nat \ {0}
      OBVIOUS
    <3>2. n \in 1..(i - 1) \/ i \in 1..(n - 1)
      BY <2>1, <3>1
    <3> QED
      BY <2>1, <3>2
  <2> QED
    BY <2>1
<1>2. (CHOOSE n \in DOMAIN chain[h + 1] : First(n)) = i
  BY <1>1
<1> QED
  BY <1>2 DEF FirstInflow

\* The transfers of a block that is there do not change.
LEMMA FirstStays ==
  ASSUME NEW h, chain'[h + 1] = chain[h + 1]
  PROVE  FirstInflow(h)' = FirstInflow(h) /\ HasInflow(h)' = HasInflow(h)
BY DEF FirstInflow, HasInflow

\* A step of one session, the tables of the rewards and the chain as they were.
LEMMA BookQuiet ==
  ASSUME TypeInv, BookInv, NEW p \in Ingesters, NEW j, NEW w,
         w.inflows = {} \/ (w.inflows = txn[p].inflows /\ j.h = ing[p].h),
         ing' = [ing EXCEPT ![p] = j], txn' = [txn EXCEPT ![p] = w],
         UNCHANGED <<chain, reward_pool_inflows>>
  PROVE  BookInv'
<1>0. ing \in [Ingesters -> Jobs] /\ txn \in [Ingesters -> Writes]
  BY DEF TypeInv, TypeOK, IngestTypeOK
<1>1. \A h : FirstInflow(h)' = FirstInflow(h) /\ HasInflow(h)' = HasInflow(h)
  BY FirstStays
<1>2. ASSUME NEW q \in Ingesters PROVE FirstOnly(ing[q], txn[q])'
  <2>1. FirstOnly(ing[q], txn[q])
    BY DEF BookInv
  <2>2. CASE q = p
    BY <1>0, <1>1, <2>1, <2>2 DEF FirstOnly
  <2>3. CASE q # p
    BY <1>0, <1>1, <2>1, <2>3 DEF FirstOnly
  <2> QED
    BY <2>2, <2>3
<1>3. ASSUME NEW f \in reward_pool_inflows PROVE BookedOnce(f)'
  BY <1>1 DEF BookInv, BookedOnce, Tip
<1> QED
  BY <1>2, <1>3 DEF BookInv

\* The loop credits the first transfer of its block only: when it meets it,
\* nothing of this block is booked, so it has met none before.
LEMMA CreditBook ==
  ASSUME TypeInv, IngestInv, BookInv, NEW p \in Ingesters, CreditRewards(p)
  PROVE  BookInv'
<1> PICK h : h = ing[p].h
  OBVIOUS
<1> PICK i : i = ing[p].i
  OBVIOUS
<1> DEFINE w == RewardWrites(p, TxOf(p).amount, [a \in Addrs |-> AmountSeen(p, a)])
           row == InflowRow(h, TxOf(p).amount, [a \in Addrs |-> AmountSeen(p, a)])
           j == Job("apply", h, i + 1, ing[p].tip)
<1>1. /\ HasTx(p) /\ IsInflow(TxOf(p)) /\ NextTx(p) /\ ~InflowDone(p)
      /\ txn' = [txn EXCEPT ![p] = w] /\ ing[p].pc \in Active
  BY DEF CreditRewards, HasTx, Active
<1>2. ing' = [ing EXCEPT ![p] = j] /\ UNCHANGED <<chain, reward_pool_inflows>>
  BY <1>1 DEF NextTx, ledgerVars
<1>3. TxOf(p) = chain[h + 1][i] /\ i \in DOMAIN chain[h + 1]
      /\ DOMAIN chain[h + 1] \subseteq Nat \ {0}
  BY <1>1, TxOfType DEF TxOf, BlockOf, HasTx
<1>4. HasInflow(h)
  BY <1>1, <1>3 DEF HasInflow
<1>5. ~InflowRecorded(h) /\ txn[p].inflows = {}
  BY <1>1, InBlock DEF InflowDone, InflowRecorded
<1>6. Written(h, i, txn[p])
  BY <1>1, <1>4, <1>5, InBlock DEF BlockRecorded
<1>7. \A n \in 1..(i - 1) : ~IsInflow(chain[h + 1][n])
  BY <1>5, <1>6 DEF Written
<1>8. FirstInflow(h) = TxOf(p).amount
  BY <1>1, <1>3, <1>7, FirstTransfer
<1>9. w.inflows = {row}
  BY <1>1, <1>5, InflowType, RewardWritesType
<1>10. row.amount = TxOf(p).amount /\ row.block_height = h /\ j.h = h
  BY DEF InflowRow, Job
<1>11. ing \in [Ingesters -> Jobs] /\ txn \in [Ingesters -> Writes]
  BY DEF TypeInv, TypeOK, IngestTypeOK
<1> HIDE DEF w, row, j
<1>12. \A g : FirstInflow(g)' = FirstInflow(g) /\ HasInflow(g)' = HasInflow(g)
  BY <1>2, FirstStays
<1>13. ASSUME NEW q \in Ingesters PROVE FirstOnly(ing[q], txn[q])'
  <2>1. CASE q = p
    BY <1>1, <1>2, <1>4, <1>8, <1>9, <1>10, <1>11, <1>12, <2>1 DEF FirstOnly
  <2>2. CASE q # p
    <3>1. FirstOnly(ing[q], txn[q]) /\ ing'[q] = ing[q] /\ txn'[q] = txn[q]
      BY <1>1, <1>2, <1>11, <2>2 DEF BookInv
    <3> QED
      BY <1>12, <3>1 DEF FirstOnly
  <2> QED
    BY <2>1, <2>2
<1>14. ASSUME NEW f \in reward_pool_inflows PROVE BookedOnce(f)'
  BY <1>2, <1>12 DEF BookInv, BookedOnce, Tip
<1> QED
  BY <1>2, <1>13, <1>14 DEF BookInv

\* A commit books the inflow of the session, the first of its block.
LEMMA CommitBook ==
  ASSUME TypeInv, IngestInv, RewardInv, BookInv, NEW p \in Ingesters, CommitBlock(p)
  PROVE  BookInv'
<1>0. /\ txn' = [txn EXCEPT ![p] = NoWrites] /\ chain' = chain
      /\ reward_pool_inflows' = reward_pool_inflows \cup txn[p].inflows
      /\ ~InflowClash(p) /\ ing[p].pc \in Active
      /\ ing \in [Ingesters -> Jobs] /\ txn \in [Ingesters -> Writes]
      /\ \A q \in Ingesters : q # p => ing'[q] = ing[q]
  BY DEF CommitBlock, AtCommit, AllTxsDone, Active, TypeInv, TypeOK, IngestTypeOK
<1>1. \A h : FirstInflow(h)' = FirstInflow(h) /\ HasInflow(h)' = HasInflow(h)
  BY <1>0, FirstStays
<1>2. Tip' = Tip /\ ing[p].h \in 0..Tip
  BY <1>0, TxOfType DEF Tip
<1>3. FirstOnly(ing[p], txn[p])
  BY DEF BookInv
<1>4. \A f, g \in txn[p].inflows : f = g
  BY DEF RewardInv, RewardsOK
<1>5. ASSUME NEW f \in reward_pool_inflows PROVE BookedOnce(f)'
  <2>1. BookedOnce(f)
    BY DEF BookInv
  <2>2. \A g \in reward_pool_inflows' : g.block_height = f.block_height => g = f
    BY <1>0, <2>1 DEF BookedOnce, InflowClash
  <2> QED
    BY <1>1, <1>2, <2>1, <2>2 DEF BookedOnce
<1>6. ASSUME NEW f \in txn[p].inflows PROVE BookedOnce(f)'
  <2>1. f.block_height = ing[p].h /\ HasInflow(ing[p].h) /\ f.amount = FirstInflow(ing[p].h)
    BY <1>3 DEF FirstOnly
  <2>2. \A g \in reward_pool_inflows' : g.block_height = f.block_height => g = f
    BY <1>0, <1>4 DEF InflowClash
  <2> QED
    BY <1>1, <1>2, <2>1, <2>2 DEF BookedOnce
<1>7. ASSUME NEW q \in Ingesters PROVE FirstOnly(ing[q], txn[q])'
  <2>1. CASE q = p
    BY <1>0, <2>1, NoneWritten DEF FirstOnly
  <2>2. CASE q # p
    <3>1. FirstOnly(ing[q], txn[q]) /\ ing'[q] = ing[q] /\ txn'[q] = txn[q]
      BY <1>0, <2>2 DEF BookInv
    <3> QED
      BY <1>1, <3>1 DEF FirstOnly
  <2> QED
    BY <2>1, <2>2
<1> QED
  BY <1>0, <1>5, <1>6, <1>7 DEF BookInv

LEMMA MineBook ==
  ASSUME TypeInv, RewardInv, BookInv, NEW b \in Blocks, Mine(b)
  PROVE  BookInv'
<1>0. /\ chain \in Seq(Seq(Tx)) /\ b \in Seq(Tx) /\ chain' = Append(chain, b)
      /\ UNCHANGED <<reward_pool_inflows, ing, txn>>
  BY BlockAssumption DEF Mine, TypeInv, TypeOK, DbTypeOK, ledgerVars, ingestVars
<1>1. Tip \in Nat /\ Tip' = Tip + 1
  BY <1>0, TipType, AppendProperties DEF Tip
<1>2. \A g \in 0..Tip : FirstInflow(g)' = FirstInflow(g) /\ HasInflow(g)' = HasInflow(g)
  <2>1. \A g \in 0..Tip : chain'[g + 1] = chain[g + 1]
    BY <1>0, TipType, AppendProperties DEF Tip
  <2> QED
    BY <2>1, FirstStays
<1>3. ASSUME NEW f \in reward_pool_inflows PROVE BookedOnce(f)'
  <2>1. BookedOnce(f) /\ f.block_height \in 0..Tip
    BY DEF BookInv, BookedOnce
  <2>2. f.block_height \in 0..Tip'
    BY <1>1, <2>1
  <2> QED
    BY <1>0, <1>2, <2>1, <2>2 DEF BookedOnce
<1>4. ASSUME NEW p \in Ingesters PROVE FirstOnly(ing[p], txn[p])'
  <2>1. FirstOnly(ing[p], txn[p]) /\ ing'[p] = ing[p] /\ txn'[p] = txn[p]
    BY <1>0 DEF BookInv
  <2>2. CASE txn[p].inflows = {}
    BY <2>1, <2>2 DEF FirstOnly
  <2>3. CASE txn[p].inflows # {}
    <3>1. ing[p].h \in 0..Tip
      BY <2>3, TxOfType DEF RewardInv, RewardsOK
    <3> QED
      BY <1>2, <2>1, <3>1 DEF FirstOnly
  <2> QED
    BY <2>2, <2>3
<1> QED
  BY <1>0, <1>3, <1>4 DEF BookInv

\* The loop outside a block, and what it does inside one but for the inflow.
LEMMA QuietBook ==
  ASSUME TypeInv, IngestInv, BookInv, NEW p \in Ingesters,
         \/ ReadTip(p) \/ (p = Watcher /\ (WatcherTick \/ UnlockUnstakes))
         \/ p \in Snapshots /\ (SnapshotStart(p) \/ SnapshotRefresh(p) \/ SnapshotComplete(p))
         \/ IgnoreTx(p) \/ RecordEvent(p) \/ DuplicateEvent(p)
         \/ IntegrityAbort(p) \/ Fail(p)
  PROVE  BookInv'
<1>0. ing \in [Ingesters -> Jobs] /\ txn \in [Ingesters -> Writes]
  BY DEF TypeInv, TypeOK, IngestTypeOK
<1>1. UNCHANGED <<chain, reward_pool_inflows>>
  BY DEF ReadTip, WatcherTick, UnlockUnstakes, SnapshotStart, SnapshotRefresh, SnapshotComplete,
         IgnoreTx, RecordEvent, DuplicateEvent, IntegrityAbort, Fail, Abandon, NextTx, ledgerVars
<1>2. CASE ing[p].pc \notin Active /\ txn' = txn /\ \E j : ing' = [ing EXCEPT ![p] = j]
  <2>1. PICK j : ing' = [ing EXCEPT ![p] = j]
    BY <1>2
  <2>2. txn[p].inflows = {} /\ txn' = [txn EXCEPT ![p] = txn[p]]
    BY <1>2, RestWrites, SameTxn
  <2> PICK w : w = txn[p]
    OBVIOUS
  <2> QED
    BY <1>1, <2>1, <2>2, BookQuiet
<1>3. CASE IgnoreTx(p) \/ RecordEvent(p) \/ DuplicateEvent(p)
  <2> PICK j : j = Job("apply", ing[p].h, ing[p].i + 1, ing[p].tip)
    OBVIOUS
  <2>1. j.h = ing[p].h /\ ing' = [ing EXCEPT ![p] = j]
    BY <1>3 DEF IgnoreTx, RecordEvent, DuplicateEvent, NextTx, Job
  <2>2. CASE IgnoreTx(p)
    BY <1>1, <2>1, <2>2, SameTxn, BookQuiet DEF IgnoreTx
  <2>3. CASE RecordEvent(p)
    <3>1. CurEvent(p) \in Event
      BY <2>3, TxOfType DEF RecordEvent, HasTx, Active
    <3> QED
      BY <1>1, <2>1, <2>3, <3>1, EventWritesType, BookQuiet DEF RecordEvent
  <2>4. CASE DuplicateEvent(p)
    BY <1>1, <2>1, <2>4, NoneWritten, BookQuiet DEF DuplicateEvent
  <2> QED
    BY <1>3, <2>2, <2>3, <2>4
<1>4. CASE IntegrityAbort(p) \/ Fail(p)
  BY <1>1, <1>4, NoneWritten, BookQuiet DEF IntegrityAbort, Fail, Abandon
<1>5. CASE p = Watcher /\ UnlockUnstakes
  <2> DEFINE w == [txn[Watcher] EXCEPT !.ready = Unlocked(ing[Watcher].h)]
             j == Job("commit", ing[Watcher].h, ing[Watcher].i, ing[Watcher].tip)
  <2>1. w.inflows = txn[p].inflows /\ j.h = ing[p].h
    BY <1>5, OwnWrites DEF Writes, Job
  <2>2. txn' = [txn EXCEPT ![p] = w] /\ ing' = [ing EXCEPT ![p] = j]
    BY <1>5 DEF UnlockUnstakes
  <2> HIDE DEF w, j
  <2> QED
    BY <1>1, <2>1, <2>2, BookQuiet
<1> QED
  BY <1>2, <1>3, <1>4, <1>5 DEF ReadTip, WatcherTick, SnapshotStart, SnapshotRefresh,
                                 SnapshotComplete, Active

LEMMA FrameBook ==
  ASSUME BookInv, UNCHANGED <<ing, txn, chain, reward_pool_inflows>>
  PROVE  BookInv'
<1>1. \A h : FirstInflow(h)' = FirstInflow(h) /\ HasInflow(h)' = HasInflow(h)
  BY FirstStays
<1>2. \A p \in Ingesters : FirstOnly(ing[p], txn[p])'
  BY <1>1 DEF BookInv, FirstOnly
<1>3. \A f \in reward_pool_inflows : BookedOnce(f)'
  BY <1>1 DEF BookInv, BookedOnce, Tip
<1> QED
  BY <1>2, <1>3 DEF BookInv

LEMMA InitBook == Init => BookInv
BY NoneWritten DEF Init, DbInit, IngestInit, BookInv, FirstOnly

LEMMA NextBook == TypeInv /\ IngestInv /\ RewardInv /\ BookInv /\ [Next]_vars => BookInv'
<1> SUFFICES ASSUME TypeInv, IngestInv, RewardInv, BookInv, [Next]_vars PROVE BookInv'
  OBVIOUS
<1>1. CASE IngestNext
  <2>1. ASSUME NEW p \in Ingesters, IngestStep(p) PROVE BookInv'
    BY <2>1, QuietBook, CreditBook, CommitBook DEF IngestStep
  <2>2. CASE WatcherStep
    BY <2>1, <2>2, QuietBook DEF WatcherStep, Ingesters
  <2>3. ASSUME NEW s \in Snapshots, SnapshotStep(s) PROVE BookInv'
    BY <2>1, <2>3, QuietBook DEF SnapshotStep, Ingesters
  <2> QED
    BY <1>1, <2>2, <2>3, MineBook, QuietBook DEF IngestNext, IngestWork
<1>2. CASE ApiNext /\ UNCHANGED ingestVars
  BY <1>2, ApiRewards, FrameBook DEF ingestVars
<1>3. CASE UNCHANGED vars
  BY <1>3, FrameBook DEF vars, ledgerVars, ingestVars
<1> QED
  BY <1>1, <1>2, <1>3 DEF Next

\* _credit_validator_rewards_pool: whatever ingesters run side by side, fail or
\* are restarted, and whatever the handlers do to the stakes meanwhile, the
\* inflows booked are the first pool transfer of their block, each block once,
\* and what they paid in is credited or dust, to the unit.
THEOREM RewardsAddUp == Spec => []RewardsConserved
<1>1. RewardInv /\ BookInv => RewardsConserved
  BY DEF RewardInv, BookInv, RewardsConserved
<1> QED
  BY <1>1, RewardInvHolds, InitBook, NextBook, PTL DEF Spec
=============================================================================

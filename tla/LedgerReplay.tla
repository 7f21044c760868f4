---------------------------- MODULE LedgerReplay ----------------------------
(***************************************************************************)
(* What the ledger promises: its tables are those one sequential reader    *)
(* gets that applies the blocks of the chain in order, each block whole    *)
(* and once.  No sessions, no restarts, no second reader.                  *)
(***************************************************************************)
EXTENDS StakeDb

Ledger ==
  [stakers |-> stakers, stake_events |-> stake_events,
   validator_rewards |-> validator_rewards,
   reward_pool_inflows |-> reward_pool_inflows]

Credited(L, e) ==
  LET new == AmountAfter(e, L.stakers[e.address].staked_amount)
  IN  [L EXCEPT !.stake_events = @ \cup {e},
                !.stakers[e.address] = [staked_amount |-> new, tier |-> tier_for(new)]]

Distributed(L, h, amount) ==
  LET share == Shares(amount, [a \in Addrs |-> L.stakers[a].staked_amount])
  IN  [L EXCEPT !.validator_rewards = [a \in Addrs |-> @[a] + share[a]],
                !.reward_pool_inflows = @ \cup
                  {[block_height |-> h, amount |-> amount,
                    dust_remaining |-> amount - Total(share)]}]

AfterTx(L, tx, h, i) ==
  IF Recordable(tx) THEN Credited(L, EventOf(tx, h, i))
  ELSE IF IsInflow(tx) /\ \A f \in L.reward_pool_inflows : f.block_height # h
       THEN Distributed(L, h, tx.amount)
  ELSE L

\* The ledger after each transaction of a block of height h, L being the one
\* before it.
After(L, block, h) ==
  LET after[i \in 0..Len(block)] ==
        IF i = 0 THEN L ELSE AfterTx(after[i - 1], block[i], h, i)
  IN  after

AfterBlock(L, h) == After(L, chain[h + 1], h)[Len(chain[h + 1])]

ReplayInit ==
  /\ stakers = [a \in Addrs |-> [staked_amount |-> 0, tier |-> "None"]]
  /\ stake_events = {} /\ reward_pool_inflows = {}
  /\ validator_rewards = [a \in Addrs |-> 0]

\* The ledger is that of the next block that has an effect at all.
ReplayBlock ==
  \E h \in 0..Tip :
    /\ \A g \in 0..(h - 1) : BlockRecorded(g)
    /\ BlockUntouched(h)
    /\ Ledger' = AfterBlock(Ledger, h)

ReplaySpec == ReplayInit /\ [][ReplayBlock]_ledgerVars
=============================================================================

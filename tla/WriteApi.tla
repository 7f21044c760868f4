------------------------------ MODULE WriteApi ------------------------------
(***************************************************************************)
(* The signed endpoints of api/write.py, each call run by a handler with a *)
(* database session of its own.  A handler is one asyncio task: every      *)
(* await on the database is a point where the watcher, the snapshot        *)
(* command or another handler may commit, so a handler keeps what it has   *)
(* read (hand) and writes absolute values computed from that when it       *)
(* commits.  SQLAlchemy writes only the columns whose value differs from   *)
(* the one that was loaded.                                                *)
(*                                                                         *)
(* verify_signed_request succeeds here.  A request the endpoint refuses    *)
(* (401, 403, 404, 400) changes nothing and is not a step.                 *)
(***************************************************************************)
EXTENDS StakeDb

CONSTANTS
  Handlers,    \* handler tasks that may run at the same time
  UserAmounts, \* the amounts users ask to unstake
  MaxRequests  \* bound: how many calls are served

ASSUME RequestAssumption ==
  /\ UserAmounts \subseteq Nat \ {0}    \* schemas.RequestUnstake: gt=0
  /\ MaxRequests \in Nat

VARIABLES
  hand,     \* what each handler has read
  requests  \* calls served so far

apiVars == <<hand, requests>>

\* arg is the amount of request-unstake and the request id of cancel-unstake.
Handling(pc, address, arg, amount, tier, height) ==
  [pc |-> pc, address |-> address, arg |-> arg, amount |-> amount, tier |-> tier,
   height |-> height]
IdleHandler == Handling("idle", Escrow, 0, 0, "None", 0)

HandlerStates ==
  [pc : {"idle", "unstake", "unstake_commit", "cancel", "cancel_height",
         "cancel_commit", "claim", "claim_commit"},
   address : Addrs, arg : Nat, amount : Nat, tier : TierNames, height : Nat]

ApiTypeOK == hand \in [Handlers -> HandlerStates] /\ requests \in Nat

ApiInit == hand = [k \in Handlers |-> IdleHandler] /\ requests = 0

Begin(k, job) ==
  /\ hand[k].pc = "idle" /\ requests < MaxRequests
  /\ hand' = [hand EXCEPT ![k] = job]
  /\ requests' = requests + 1
  /\ UNCHANGED <<chain, watcher_state, ledgerVars, unstakeVars>>

Goto(k, job) ==
  /\ hand' = [hand EXCEPT ![k] = job]
  /\ UNCHANGED <<chain, watcher_state, ledgerVars, unstakeVars, requests>>

\* _current_height: 503 until the snapshot is complete.
ReadHeight(k, from, to) ==
  /\ hand[k].pc = from
  /\ Goto(k, IF complete THEN Handling(to, hand[k].address, hand[k].arg,
                                       hand[k].amount, hand[k].tier, last)
                         ELSE IdleHandler)

\* MUTANT of StakerUpdate: the tier is not refreshed.
StakerUpdate_NoRefresh(k, new) ==
  stakers' = [stakers EXCEPT ![hand[k].address].staked_amount = new]

\* The columns of the staker row the session of k writes when it sets
\* staked_amount to new.
StakerUpdate(k, new) ==
  stakers' = [stakers EXCEPT ![hand[k].address] =
    [staked_amount |-> new,
     tier |-> IF tier_for(new) = hand[k].tier THEN @.tier ELSE tier_for(new)]]

-----------------------------------------------------------------------------
(* POST /request-unstake *)

\* MUTANT of UnstakeLoad: the stake is not checked.
UnstakeLoad_Unchecked(k, a, m) ==
  Begin(k, Handling("unstake", a, m, stakers[a].staked_amount, stakers[a].tier, 0))

\* session.get(Staker) and the check for a sufficient stake.
UnstakeLoad(k, a, m) ==
  /\ stakers[a].staked_amount >= m
  /\ Begin(k, Handling("unstake", a, m, stakers[a].staked_amount, stakers[a].tier, 0))

UnstakeHeight(k) == ReadHeight(k, "unstake", "unstake_commit")

\* One commit: the stake is reduced and the PENDING request inserted.
UnstakeCommit(k) ==
  /\ hand[k].pc = "unstake_commit"
  /\ StakerUpdate(k, hand[k].amount - hand[k].arg)
  /\ unstake_requests' = Append(unstake_requests,
       [address |-> hand[k].address, amount |-> hand[k].arg,
        unlock_height |-> hand[k].height + Cooldown, status |-> "PENDING"])
  /\ hand' = [hand EXCEPT ![k] = IdleHandler]
  /\ UNCHANGED <<chain, watcher_state, stake_events, validator_rewards,
                 reward_pool_inflows, pending_payouts, requests>>

-----------------------------------------------------------------------------
(* POST /cancel-unstake *)

\* MUTANT of CancelLoad: the status is not checked.
CancelLoad_AnyStatus(k, r) ==
  Begin(k, Handling("cancel", unstake_requests[r].address, r, 0, "None", 0))

\* session.get(UnstakeRequest), the owner check and the status check.
CancelLoad(k, r) ==
  /\ unstake_requests[r].status \in {"PENDING", "READY"}
  /\ Begin(k, Handling("cancel", unstake_requests[r].address, r, 0, "None", 0))

CancelLoadStaker(k) ==
  /\ hand[k].pc = "cancel"
  /\ LET staker == stakers[hand[k].address]
     IN  Goto(k, Handling("cancel_height", hand[k].address, hand[k].arg,
                          staker.staked_amount, staker.tier, 0))

CancelHeight(k) == ReadHeight(k, "cancel_height", "cancel_commit")

\* One commit: the amount is restored and the request CANCELLED.
CancelCommit(k) ==
  /\ hand[k].pc = "cancel_commit"
  /\ StakerUpdate(k, hand[k].amount + unstake_requests[hand[k].arg].amount)
  /\ unstake_requests' = [unstake_requests EXCEPT ![hand[k].arg].status = "CANCELLED"]
  /\ hand' = [hand EXCEPT ![k] = IdleHandler]
  /\ UNCHANGED <<chain, watcher_state, stake_events, validator_rewards,
                 reward_pool_inflows, pending_payouts, requests>>

-----------------------------------------------------------------------------
(* POST /claim-rewards *)

ClaimLoad(k, a) ==
  /\ validator_rewards[a] > 0
  /\ Begin(k, Handling("claim", a, 0, validator_rewards[a], "None", 0))

ClaimHeight(k) == ReadHeight(k, "claim", "claim_commit")

\* The handler zeroes pending_rewards in its session and calls
\* enqueue_payout(kind="REWARD_CLAIM"), which raises ValueError for every kind
\* but "UNSTAKE_REFUND": the session is closed without a commit.
ClaimRefused(k) == hand[k].pc = "claim_commit" /\ Goto(k, IdleHandler)

-----------------------------------------------------------------------------
\* A lost connection, a disconnected client, a restart: get_session closes the
\* session without a commit.
HandlerAbort(k) == hand[k].pc # "idle" /\ Goto(k, IdleHandler)

HandlerStep(k) ==
  \/ UnstakeHeight(k) \/ UnstakeCommit(k)
  \/ CancelLoadStaker(k) \/ CancelHeight(k) \/ CancelCommit(k)
  \/ ClaimHeight(k) \/ ClaimRefused(k)

ApiNext ==
  \E k \in Handlers :
    \/ \E a \in Accounts, m \in UserAmounts : UnstakeLoad(k, a, m)
    \/ \E r \in DOMAIN unstake_requests : CancelLoad(k, r)
    \/ \E a \in Accounts : ClaimLoad(k, a)
    \/ HandlerStep(k)
    \/ HandlerAbort(k)
=============================================================================

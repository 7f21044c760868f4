---------------------------- MODULE PayoutSigner ----------------------------
(***************************************************************************)
(* The payout queue and its consumer: rows enqueued by enqueue_payout      *)
(* (signing/queue.py), claimed and processed by SignerRunner               *)
(* (signing/runner.py), signed and submitted by HotKeySigner               *)
(* (signing/hot_key_signer.py) over ChainRPCClient (chain/client.py).      *)
(*                                                                         *)
(* L1 is external.  As the code uses it: the balance endpoint reports the  *)
(* nonce of the pool account, which counts its mined transactions; a       *)
(* submitted transaction is accepted when its nonce is the next one and no *)
(* accepted transaction has it, else it is answered with an "error".       *)
(*                                                                         *)
(* A payout is its id; ids follow created_at.                              *)
(***************************************************************************)
EXTENDS Integers, Sequences, FiniteSets

CONSTANTS
  Runners,      \* signer loops that may run at the same time
  MAX_ATTEMPTS,
  BATCH_SIZE,
  MaxPayouts,   \* bound: payouts enqueued
  MaxFaults,    \* bound: RPC calls that fail without effect on L1
  MaxLost,      \* bound: accepted submissions whose answer is lost
  MaxRestarts   \* bound: restarts of a runner

ASSUME SignerAssumption ==
  /\ MAX_ATTEMPTS \in Nat \ {0} /\ BATCH_SIZE \in Nat \ {0}
  /\ MaxPayouts \in Nat /\ MaxFaults \in Nat /\ MaxLost \in Nat /\ MaxRestarts \in Nat

VARIABLES
  pending_payouts, \* sequence of rows [status, attempts]
  wired,           \* HotKeySigner (TRUE) or NullSigner
  run,             \* what each runner is doing
  accepted,        \* the transactions L1 has accepted: [payout, nonce]
  confirmed,       \* the nonce of the pool account on L1
  lost,            \* those among them whose answer was lost
  faults, restarts

queueVars == <<pending_payouts, wired>>
l1Vars == <<accepted, confirmed, lost>>
boundVars == <<faults, restarts>>
vars == <<queueVars, run, l1Vars, boundVars>>

Runner(pc, batch, cur, nonce) ==
  [pc |-> pc, batch |-> batch, cur |-> cur, nonce |-> nonce]
IdleRunner == Runner("idle", {}, 0, 0)

\* pc "accepted", "error" and "unwired": sign_and_submit is over, the row is
\* still to be written.
RunnerStates ==
  [pc : {"idle", "batch", "sign", "submit", "accepted", "error", "unwired"},
   batch : SUBSET Nat, cur : Nat, nonce : Nat]

PayoutRows ==
  [status : {"QUEUED", "SIGNING", "SUBMITTED", "FAILED"}, attempts : 0..MAX_ATTEMPTS]

\* models.PendingPayout and the runners' local values; attempts stays within
\* MAX_ATTEMPTS although three branches of _process_one count it up.
TypeOK ==
  /\ pending_payouts \in Seq(PayoutRows)
  /\ wired \in BOOLEAN
  /\ run \in [Runners -> RunnerStates]
  /\ accepted \subseteq [payout : Nat, nonce : Nat] /\ lost \subseteq accepted
  /\ confirmed \in Nat
  /\ faults \in Nat /\ restarts \in Nat

Init ==
  /\ pending_payouts = <<>>
  /\ wired \in BOOLEAN
  /\ run = [r \in Runners |-> IdleRunner]
  /\ accepted = {} /\ confirmed = 0 /\ lost = {}
  /\ faults = 0 /\ restarts = 0

Ids == DOMAIN pending_payouts

-----------------------------------------------------------------------------
(* L1 *)

Accepts(nonce) ==
  nonce = confirmed + 1 /\ \A t \in accepted : t.nonce # nonce

\* A block with the pool's next transaction.
MineTx ==
  /\ \E t \in accepted : t.nonce = confirmed + 1
  /\ confirmed' = confirmed + 1
  /\ UNCHANGED <<queueVars, run, accepted, lost, boundVars>>

-----------------------------------------------------------------------------
(* The queue *)

\* enqueue_payout
Enqueue ==
  /\ Len(pending_payouts) < MaxPayouts
  /\ pending_payouts' = Append(pending_payouts, [status |-> "QUEUED", attempts |-> 0])
  /\ UNCHANGED <<wired, run, l1Vars, boundVars>>

\* MUTANTS of Claimable: rows left in SIGNING are taken up again; only the
\* attempts count; the attempts are not looked at.
Claimable_Signing(p) ==
  /\ pending_payouts[p].status \in {"QUEUED", "SIGNING"}
  /\ pending_payouts[p].attempts < MAX_ATTEMPTS
Claimable_AnyStatus(p) == pending_payouts[p].attempts < MAX_ATTEMPTS
Claimable_NoLimit(p) == pending_payouts[p].status = "QUEUED"

\* The query of _claim_batch.
Claimable(p) ==
  /\ pending_payouts[p].status = "QUEUED"
  /\ pending_payouts[p].attempts < MAX_ATTEMPTS

\* ORDER BY created_at LIMIT BATCH_SIZE
InBatch(p) ==
  Claimable(p) /\ Cardinality({q \in 1..(p - 1) : Claimable(q)}) < BATCH_SIZE

\* _claim_batch locks the rows and commits them as SIGNING.
ClaimBatch(r) ==
  /\ run[r].pc = "idle"
  /\ \E p \in Ids : InBatch(p)
  /\ run' = [run EXCEPT ![r] = Runner("batch", {p \in Ids : InBatch(p)}, 0, 0)]
  /\ pending_payouts' = [p \in Ids |->
       IF InBatch(p) THEN [pending_payouts[p] EXCEPT !.status = "SIGNING"]
                     ELSE pending_payouts[p]]
  /\ UNCHANGED <<wired, l1Vars, boundVars>>

-----------------------------------------------------------------------------
(* _process_one for the oldest payout of the batch *)

Goto(r, pc) ==
  run' = [run EXCEPT ![r] = Runner(pc, run[r].batch, run[r].cur, run[r].nonce)]

\* MUTANT of Claimed: the status from before the claim is looked for.
Claimed_Queued(p) == pending_payouts[p].status = "QUEUED"

\* The status check of _process_one.
Claimed(p) == pending_payouts[p].status = "SIGNING"

\* session.get and the status check.
LoadPayout(r, p) ==
  /\ run[r].pc = "batch"
  /\ p \in run[r].batch /\ \A q \in run[r].batch : p <= q
  /\ run' = [run EXCEPT ![r] =
       Runner(IF Claimed(p) THEN "sign" ELSE "batch",
              run[r].batch \ {p}, p, 0)]
  /\ UNCHANGED <<queueVars, l1Vars, boundVars>>

\* NullSigner.sign_and_submit raises NotImplementedError.
NullSign(r) ==
  /\ run[r].pc = "sign" /\ ~wired
  /\ Goto(r, "unwired")
  /\ UNCHANGED <<queueVars, l1Vars, boundVars>>

\* _next_nonce
FetchNonce(r) ==
  /\ run[r].pc = "sign" /\ wired
  /\ run' = [run EXCEPT ![r] =
       Runner("submit", run[r].batch, run[r].cur, confirmed + 1)]
  /\ UNCHANGED <<queueVars, l1Vars, boundVars>>

\* MUTANT of Answer: the body of the 200 response is not inspected.
Answer_Any(nonce) == "accepted"

\* sign_and_submit raises when L1 answers with an "error".
Answer(nonce) == IF Accepts(nonce) THEN "accepted" ELSE "error"

Sent(r) == [payout |-> run[r].cur, nonce |-> run[r].nonce]

\* submit_tx, and L1's answer.
Submit(r) ==
  /\ run[r].pc = "submit"
  /\ accepted' = IF Accepts(run[r].nonce) THEN accepted \cup {Sent(r)} ELSE accepted
  /\ Goto(r, Answer(run[r].nonce))
  /\ UNCHANGED <<queueVars, confirmed, lost, boundVars>>

\* L1 accepts the transaction and the answer is lost: submit_tx posts it again
\* and gets an "error", or gives up.
SubmitLost(r) ==
  /\ run[r].pc = "submit" /\ Accepts(run[r].nonce)
  /\ Cardinality(lost) < MaxLost
  /\ accepted' = accepted \cup {Sent(r)}
  /\ lost' = lost \cup {Sent(r)}
  /\ Goto(r, "error")
  /\ UNCHANGED <<queueVars, confirmed, boundVars>>

\* _get or submit_tx gives up after five tries that L1 did not see.
RpcFails(r) ==
  /\ run[r].pc = "submit" \/ (run[r].pc = "sign" /\ wired)
  /\ faults < MaxFaults
  /\ faults' = faults + 1
  /\ Goto(r, "error")
  /\ UNCHANGED <<queueVars, l1Vars, restarts>>

Row(status, attempts) == [status |-> status, attempts |-> attempts]

\* The row after n failed attempts.
AfterError(n) == Row(IF n >= MAX_ATTEMPTS THEN "FAILED" ELSE "QUEUED", n)

\* The three ways _process_one writes the row; the loop goes on with the batch.
WriteRow(r, pc, row) ==
  /\ run[r].pc = pc
  /\ pending_payouts' = [pending_payouts EXCEPT ![run[r].cur] = row]
  /\ run' = [run EXCEPT ![r] = Runner("batch", run[r].batch, 0, 0)]
  /\ UNCHANGED <<wired, l1Vars, boundVars>>

Attempts(r) == pending_payouts[run[r].cur].attempts + 1
WriteSubmitted(r) == WriteRow(r, "accepted", Row("SUBMITTED", Attempts(r)))
WriteUnwired(r) == WriteRow(r, "unwired", Row("QUEUED", Attempts(r)))
WriteError(r) == WriteRow(r, "error", AfterError(Attempts(r)))

\* The batch is through.
EndTick(r) ==
  /\ run[r].pc = "batch" /\ run[r].batch = {}
  /\ run' = [run EXCEPT ![r] = IdleRunner]
  /\ UNCHANGED <<queueVars, l1Vars, boundVars>>

\* The task is cancelled or dies anywhere, or its database session fails: the
\* open transaction is rolled back and what the runner knew is gone.  The
\* operator may have wired the real signer meanwhile.
Restart(r) ==
  /\ run[r].pc # "idle" /\ restarts < MaxRestarts
  /\ restarts' = restarts + 1
  /\ run' = [run EXCEPT ![r] = IdleRunner]
  /\ wired' \in {wired, TRUE}
  /\ UNCHANGED <<pending_payouts, l1Vars, faults>>

RunnerStep(r) ==
  \/ ClaimBatch(r)
  \/ \E p \in run[r].batch : LoadPayout(r, p)
  \/ NullSign(r) \/ FetchNonce(r) \/ Submit(r)
  \/ WriteSubmitted(r) \/ WriteUnwired(r) \/ WriteError(r)
  \/ EndTick(r)

Next ==
  \/ Enqueue \/ MineTx
  \/ \E r \in Runners : RunnerStep(r) \/ SubmitLost(r) \/ RpcFails(r) \/ Restart(r)

Spec == Init /\ [][Next]_vars

\* The loop of a runner is never starved.  Nothing is assumed of L1.
FairSpec == Spec /\ \A r \in Runners : WF_vars(RunnerStep(r))

-----------------------------------------------------------------------------
(* Properties *)

Held(r) ==
  run[r].batch \cup (IF run[r].pc \in {"idle", "batch"} THEN {} ELSE {run[r].cur})

\* _claim_batch: a payout is in the hands of one runner, and is SIGNING while
\* it is; the status check of _process_one never finds anything else.
ClaimExclusive ==
  \A r \in Runners :
    /\ Held(r) \subseteq {p \in Ids : pending_payouts[p].status = "SIGNING"}
    /\ \A q \in Runners \ {r} : Held(r) \cap Held(q) = {}

\* L1 executes at most one transfer for a payout.
PaidAtMostOnce == \A t, u \in accepted : t.payout = u.payout => t = u

\* Every second transfer of a payout goes back to a lost answer of L1:
\* restarts between the submission and the write of the row, retries and a
\* second runner never pay twice what an answer said was paid.
PaidTwiceOnlyIfLost ==
  \A t, u \in accepted : t.payout = u.payout => t = u \/ t \in lost \/ u \in lost

\* sign_and_submit returns a hash only for a transaction L1 has accepted: no
\* payout is closed as SUBMITTED that L1 has turned down.
SubmittedWasAccepted ==
  \A p \in Ids : pending_payouts[p].status = "SUBMITTED" =>
    \E t \in accepted \ lost : t.payout = p

\* models.PendingPayout: SUBMITTED and FAILED are final for the runner.
FinalStaysFinal ==
  [][\A p \in Ids : pending_payouts[p].status \in {"SUBMITTED", "FAILED"} =>
       pending_payouts'[p] = pending_payouts[p]]_vars

\* With the real signer and runners that stay up, every payout is submitted or
\* handed to the operator as FAILED.
EventuallyProcessed ==
  \A p \in 1..MaxPayouts :
    wired /\ p \in Ids ~>
      restarts > 0 \/ (p \in Ids /\ pending_payouts[p].status \in {"SUBMITTED", "FAILED"})

-----------------------------------------------------------------------------
\* How a row looks from outside: open until it is final.
RowSeen(p) == IF pending_payouts[p].status \in {"SUBMITTED", "FAILED"}
              THEN pending_payouts[p].status ELSE "OPEN"

Promise == INSTANCE Payouts WITH
  rows <- [p \in Ids |-> RowSeen(p)], transfers <- accepted, unheard <- lost

\* enqueue_payout to SUBMITTED or FAILED: claims, batches, retries, restarts
\* and a second runner implement the promise of the queue.  A payout is sent
\* to L1 again only if no answer has confirmed it, and it is closed as FAILED
\* only if no answer has.
QueueKeepsPromise == Promise!PayoutsSpec
=============================================================================

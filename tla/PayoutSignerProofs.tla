------------------------- MODULE PayoutSignerProofs -------------------------
(***************************************************************************)
(* Theorems about PayoutSigner, for any number of runners and payouts, any *)
(* batch size and any limit of attempts.                                   *)
(***************************************************************************)
EXTENDS PayoutSigner, SequenceTheorems, TLAPS

\* What a runner in state x has in its hands: Held(r) is Hold(run[r]).
Hold(x) == x.batch \cup (IF x.pc \in {"idle", "batch"} THEN {} ELSE {x.cur})

Signing(p) == p \in Ids /\ pending_payouts[p].status = "SIGNING"

\* A runner works on one payout of its batch after the other, and a payout in
\* SIGNING has an attempt left.
RunInv ==
  /\ ClaimExclusive
  /\ \A r \in Runners : run[r].pc \notin {"idle", "batch"} => run[r].cur \notin run[r].batch
  /\ \A p \in Ids : Signing(p) => pending_payouts[p].attempts < MAX_ATTEMPTS

SignerInv == TypeOK /\ RunInv

\* The transfers the service has heard of.
Answered == accepted \ lost

\* A payout with an answered transfer has no other one, is SUBMITTED or in
\* SIGNING, and is out of reach of everyone but the runner that got the answer.
PaidInv ==
  /\ \A t, u \in Answered : t.payout = u.payout => t = u
  /\ \A t \in Answered :
       /\ t.payout \in Ids /\ pending_payouts[t.payout].status \in {"SIGNING", "SUBMITTED"}
       /\ \A r \in Runners : t.payout \in Held(r) =>
            run[r].pc = "accepted" /\ run[r].cur = t.payout

\* A runner that is about to write SUBMITTED has L1's acceptance.
AnswerInv ==
  /\ SubmittedWasAccepted
  /\ \A r \in Runners : run[r].pc = "accepted" => \E t \in Answered : t.payout = run[r].cur

-----------------------------------------------------------------------------
(* Steps *)

LEMMA HeldIsHold == \A r : Held(r) = Hold(run[r])
BY DEF Held, Hold

LEMMA RunnerFields ==
  ASSUME NEW pc, NEW batch, NEW cur, NEW nonce
  PROVE  LET x == Runner(pc, batch, cur, nonce)
         IN  x.pc = pc /\ x.batch = batch /\ x.cur = cur /\ x.nonce = nonce
BY DEF Runner

LEMMA RunnerType ==
  ASSUME NEW pc \in {"idle", "batch", "sign", "submit", "accepted", "error", "unwired"},
         NEW batch \in SUBSET Nat, NEW cur \in Nat, NEW nonce \in Nat
  PROVE  Runner(pc, batch, cur, nonce) \in RunnerStates
BY DEF Runner, RunnerStates

LEMMA OwnRunner ==
  ASSUME TypeOK, NEW r \in Runners
  PROVE  /\ run[r] \in RunnerStates /\ run[r].batch \in SUBSET Nat
         /\ run[r].cur \in Nat /\ run[r].nonce \in Nat
BY DEF TypeOK, RunnerStates

LEMMA RowType ==
  ASSUME TypeOK
  PROVE  /\ Ids = 1..Len(pending_payouts) /\ Len(pending_payouts) \in Nat
         /\ \A p \in Ids : /\ pending_payouts[p] \in PayoutRows
                           /\ pending_payouts[p].attempts \in 0..MAX_ATTEMPTS
<1>1. pending_payouts \in Seq(PayoutRows)
  BY DEF TypeOK
<1>2. Ids = 1..Len(pending_payouts) /\ Len(pending_payouts) \in Nat
  BY <1>1 DEF Ids
<1>3. \A p \in Ids : pending_payouts[p] \in PayoutRows
  BY <1>1, <1>2
<1> QED
  BY <1>2, <1>3 DEF PayoutRows

\* Runner r goes over to state x.
Moves(r, x) == run' = [run EXCEPT ![r] = x]

LEMMA MoveFields ==
  ASSUME TypeOK, NEW r \in Runners, NEW x \in RunnerStates, Moves(r, x)
  PROVE  /\ run' \in [Runners -> RunnerStates]
         /\ run'[r] = x /\ \A q \in Runners \ {r} : run'[q] = run[q]
BY DEF TypeOK, Moves

\* A runner that keeps or drops what it holds, the queue unchanged.
LEMMA KeepInv ==
  ASSUME SignerInv, NEW r \in Runners, NEW x \in RunnerStates, Moves(r, x),
         Hold(x) \subseteq Held(r),
         x.pc \notin {"idle", "batch"} => x.cur \notin x.batch,
         pending_payouts' = pending_payouts
  PROVE  RunInv'
<1>1. run'[r] = x /\ \A q \in Runners \ {r} : run'[q] = run[q]
  BY MoveFields DEF SignerInv
<1>2. \A q \in Runners : Held(q)' \subseteq Held(q)
  BY <1>1 DEF Held, Hold
<1>3. Ids' = Ids
  BY DEF Ids
<1>4. ClaimExclusive'
  BY <1>2, <1>3 DEF SignerInv, RunInv, ClaimExclusive
<1> QED
  BY <1>1, <1>3, <1>4 DEF SignerInv, RunInv, Signing

\* A runner that writes the row of its payout and goes on with the batch.
LEMMA WriteInv ==
  ASSUME SignerInv, NEW r \in Runners, run[r].pc \notin {"idle", "batch"},
         NEW row \in PayoutRows, row.status # "SIGNING",
         Moves(r, Runner("batch", run[r].batch, 0, 0)),
         pending_payouts' = [pending_payouts EXCEPT ![run[r].cur] = row]
  PROVE  RunInv' /\ pending_payouts' \in Seq(PayoutRows) /\ Ids' = Ids
<1> DEFINE c == run[r].cur
           x == Runner("batch", run[r].batch, 0, 0)
<1>1. x \in RunnerStates /\ x.pc = "batch" /\ Hold(x) = run[r].batch
  BY OwnRunner, RunnerType DEF SignerInv, Hold, Runner
<1>2. run'[r] = x /\ \A q \in Runners \ {r} : run'[q] = run[q]
  BY <1>1, MoveFields DEF SignerInv
<1>3. c \in Held(r) /\ c \notin run[r].batch /\ c \in Ids
  BY DEF Held, SignerInv, RunInv, ClaimExclusive
<1>4. pending_payouts' \in Seq(PayoutRows) /\ Ids' = Ids
  BY <1>3 DEF SignerInv, TypeOK, Ids
<1>5. \A p \in Ids \ {c} : pending_payouts'[p] = pending_payouts[p]
  BY DEF SignerInv, TypeOK, Ids
<1>6. pending_payouts'[c] = row
  BY <1>3 DEF SignerInv, TypeOK, Ids
<1> HIDE DEF x, c
<1>7. \A q \in Runners : Held(q)' \subseteq Held(q) \ {c}
  <2> TAKE q \in Runners
  <2>1. CASE q = r
    <3>1. Held(r)' = run[r].batch
      BY <1>1, <1>2 DEF Held, Hold
    <3> QED
      BY <1>3, <2>1, <3>1 DEF Held
  <2>2. CASE q # r
    <3>1. c \notin Held(q)
      BY <1>3, <2>2 DEF SignerInv, RunInv, ClaimExclusive
    <3> QED
      BY <1>2, <2>2, <3>1 DEF Held
  <2> QED
    BY <2>1, <2>2
<1>8. ClaimExclusive'
  BY <1>4, <1>5, <1>7 DEF SignerInv, RunInv, ClaimExclusive
<1>9. \A p \in Ids : Signing(p)' => Signing(p) /\ pending_payouts'[p] = pending_payouts[p]
  BY <1>4, <1>5, <1>6 DEF Signing
<1> QED
  BY <1>1, <1>2, <1>4, <1>8, <1>9 DEF SignerInv, RunInv

\* _claim_batch takes QUEUED rows only, which nobody holds.
LEMMA ClaimInv ==
  ASSUME SignerInv, NEW r \in Runners, ClaimBatch(r)
  PROVE  SignerInv'
<1> DEFINE B == {p \in Ids : InBatch(p)}
           x == Runner("batch", B, 0, 0)
<1>0. Ids \subseteq Nat /\ \A p \in Ids : pending_payouts[p] \in PayoutRows
  BY RowType DEF SignerInv
<1>1. x \in RunnerStates /\ x.pc = "batch" /\ Hold(x) = B
  BY <1>0, RunnerType DEF Hold, Runner
<1>2. Moves(r, x)
  BY DEF ClaimBatch, Moves
<1>3. \A p \in B : /\ pending_payouts[p].status = "QUEUED"
                   /\ pending_payouts[p].attempts < MAX_ATTEMPTS
  BY DEF InBatch, Claimable
<1>4. pending_payouts' = [p \in Ids |->
        IF p \in B THEN [pending_payouts[p] EXCEPT !.status = "SIGNING"]
                   ELSE pending_payouts[p]]
  BY DEF ClaimBatch
<1> HIDE DEF B, x
<1>5. Ids' = Ids
  BY <1>4 DEF Ids
<1>6. \A p \in Ids : [pending_payouts[p] EXCEPT !.status = "SIGNING"] \in PayoutRows
  <2> TAKE p \in Ids
  <2>1. [pending_payouts[p] EXCEPT !.status = "SIGNING"] =
          [status |-> "SIGNING", attempts |-> pending_payouts[p].attempts]
    BY <1>0 DEF PayoutRows
  <2> QED
    BY <1>0, <2>1 DEF PayoutRows
<1>7. pending_payouts' \in Seq(PayoutRows)
  <2>1. pending_payouts' \in [1..Len(pending_payouts) -> PayoutRows]
    BY <1>0, <1>4, <1>6, RowType DEF SignerInv
  <2> QED
    BY <2>1, RowType, SeqDef DEF SignerInv
<1>8. \A p \in Ids : /\ p \in B => pending_payouts'[p].status = "SIGNING"
                     /\ p \notin B => pending_payouts'[p] = pending_payouts[p]
                     /\ pending_payouts'[p].attempts = pending_payouts[p].attempts
  BY <1>0, <1>4 DEF PayoutRows
<1>9. run'[r] = x /\ \A q \in Runners \ {r} : run'[q] = run[q]
  BY <1>1, <1>2, MoveFields DEF SignerInv
<1>10. Held(r)' = B /\ \A q \in Runners \ {r} : Held(q)' = Held(q) /\ Held(q) \cap B = {}
  <2>1. Held(r)' = B
    BY <1>1, <1>9 DEF Held, Hold
  <2>2. ASSUME NEW q \in Runners \ {r} PROVE Held(q)' = Held(q) /\ Held(q) \cap B = {}
    BY <1>3, <1>9 DEF Held, SignerInv, RunInv, ClaimExclusive
  <2> QED
    BY <2>1, <2>2
<1>11. ClaimExclusive'
  <2>1. B \subseteq Ids
    BY DEF B
  <2>2. ASSUME NEW q \in Runners
        PROVE  Held(q)' \subseteq {p \in Ids : pending_payouts'[p].status = "SIGNING"}
    BY <1>8, <1>10, <2>1 DEF SignerInv, RunInv, ClaimExclusive
  <2>3. ASSUME NEW q \in Runners, NEW s \in Runners \ {q}
        PROVE  Held(q)' \cap Held(s)' = {}
    BY <1>10 DEF SignerInv, RunInv, ClaimExclusive
  <2> QED
    BY <1>5, <2>2, <2>3 DEF ClaimExclusive
<1>12. RunInv'
  <2>1. \A p \in Ids' : Signing(p)' => pending_payouts'[p].attempts < MAX_ATTEMPTS
    BY <1>3, <1>5, <1>8 DEF SignerInv, RunInv, Signing
  <2>2. \A q \in Runners : run'[q].pc \notin {"idle", "batch"} => run'[q].cur \notin run'[q].batch
    BY <1>1, <1>9 DEF SignerInv, RunInv
  <2> QED
    BY <1>11, <2>1, <2>2 DEF RunInv
<1>13. run' \in [Runners -> RunnerStates]
  BY <1>1, <1>2, MoveFields DEF SignerInv
<1> QED
  BY <1>7, <1>12, <1>13 DEF SignerInv, TypeOK, ClaimBatch, l1Vars, boundVars

LEMMA EnqueueInv ==
  ASSUME SignerInv, Enqueue
  PROVE  /\ SignerInv'
         /\ \A p \in Ids : p \in Ids' /\ pending_payouts'[p] = pending_payouts[p]
         /\ \A p \in Ids' \ Ids : pending_payouts'[p].status = "QUEUED"
<1> DEFINE row == [status |-> "QUEUED", attempts |-> 0]
           n == Len(pending_payouts) + 1
<1>0. row \in PayoutRows /\ pending_payouts \in Seq(PayoutRows)
  BY SignerAssumption DEF PayoutRows, SignerInv, TypeOK
<1>1. /\ pending_payouts' \in Seq(PayoutRows) /\ Ids' = Ids \cup {n}
      /\ \A p \in Ids : pending_payouts'[p] = pending_payouts[p]
      /\ pending_payouts'[n] = row
  BY <1>0, AppendProperties DEF Enqueue, Ids
<1>2. \A r \in Runners : Held(r)' = Held(r)
  BY DEF Enqueue, Held
<1> HIDE DEF n
<1>3. ClaimExclusive'
  BY <1>1, <1>2 DEF SignerInv, RunInv, ClaimExclusive
<1>4. RunInv'
  <2>1. \A p \in Ids' : Signing(p)' => Signing(p) /\ pending_payouts'[p] = pending_payouts[p]
    BY <1>1 DEF Signing
  <2>2. \A p \in Ids' : Signing(p)' => pending_payouts'[p].attempts < MAX_ATTEMPTS
    BY <2>1 DEF SignerInv, RunInv, Signing
  <2>3. run' = run
    BY DEF Enqueue
  <2> QED
    BY <1>3, <2>2, <2>3 DEF SignerInv, RunInv
<1>5. SignerInv'
  BY <1>1, <1>4 DEF SignerInv, TypeOK, Enqueue, l1Vars, boundVars
<1> QED
  BY <1>1, <1>5

\* The steps of a runner that leave the queue alone.
Keep(r, x) ==
  /\ x \in RunnerStates /\ Moves(r, x) /\ Hold(x) \subseteq Held(r)
  /\ x.pc \notin {"idle", "batch"} => x.cur \notin x.batch
  /\ pending_payouts' = pending_payouts

\* What a runner does with its current payout.
LEMMA GotoKeeps ==
  ASSUME SignerInv, NEW r \in Runners, run[r].pc \notin {"idle", "batch"},
         NEW pc \in {"sign", "submit", "accepted", "error", "unwired"},
         NEW nonce \in Nat, pending_payouts' = pending_payouts,
         Moves(r, Runner(pc, run[r].batch, run[r].cur, nonce))
  PROVE  Keep(r, Runner(pc, run[r].batch, run[r].cur, nonce))
<1> DEFINE x == Runner(pc, run[r].batch, run[r].cur, nonce)
<1>1. x \in RunnerStates
  BY OwnRunner, RunnerType DEF SignerInv
<1>2. x.pc = pc /\ x.batch = run[r].batch /\ x.cur = run[r].cur
  BY DEF Runner
<1>3. Hold(x) = Held(r) /\ x.cur \notin x.batch
  BY <1>2 DEF Hold, Held, SignerInv, RunInv
<1> QED
  BY <1>1, <1>3 DEF Keep

LEMMA LoadKeeps ==
  ASSUME SignerInv, NEW r \in Runners, NEW p \in run[r].batch, LoadPayout(r, p)
  PROVE  Keep(r, Runner("sign", run[r].batch \ {p}, p, 0))
<1> DEFINE x == Runner("sign", run[r].batch \ {p}, p, 0)
<1>1. p \in Held(r) /\ run[r].batch \subseteq Nat
  BY OwnRunner DEF Held, SignerInv
<1>2. pending_payouts[p].status = "SIGNING"
  BY <1>1 DEF SignerInv, RunInv, ClaimExclusive
<1>3. Moves(r, x) /\ pending_payouts' = pending_payouts
  BY <1>2 DEF LoadPayout, Claimed, Moves, queueVars
<1>4. x \in RunnerStates
  BY <1>1, RunnerType
<1>5. x.pc = "sign" /\ x.batch = run[r].batch \ {p} /\ x.cur = p
  BY DEF Runner
<1>6. Hold(x) \subseteq Held(r) /\ x.cur \notin x.batch
  BY <1>5 DEF Hold, Held
<1> QED
  BY <1>3, <1>4, <1>6 DEF Keep

LEMMA IdleKeeps ==
  ASSUME SignerInv, NEW r \in Runners, EndTick(r) \/ Restart(r)
  PROVE  Keep(r, IdleRunner) /\ Hold(IdleRunner) = {}
<1>1. IdleRunner \in RunnerStates
  BY RunnerType DEF IdleRunner
<1>2. IdleRunner.pc = "idle" /\ IdleRunner.batch = {}
  BY DEF IdleRunner, Runner
<1>3. Hold(IdleRunner) = {}
  BY <1>2 DEF Hold
<1>4. Moves(r, IdleRunner) /\ pending_payouts' = pending_payouts
  BY DEF EndTick, Restart, Moves, queueVars
<1> QED
  BY <1>1, <1>2, <1>3, <1>4 DEF Keep

\* The steps with the current payout, from where and to where they go.
LEMMA PayoutKeeps ==
  ASSUME SignerInv, NEW r \in Runners,
         NullSign(r) \/ FetchNonce(r) \/ Submit(r) \/ SubmitLost(r) \/ RpcFails(r)
  PROVE  \E pc \in {"submit", "accepted", "error", "unwired"}, nonce \in Nat :
           /\ Keep(r, Runner(pc, run[r].batch, run[r].cur, nonce))
           /\ run[r].pc \in {"sign", "submit"}
           /\ pc = "accepted" => Submit(r) /\ Accepts(run[r].nonce)
<1>0. run[r].nonce \in Nat /\ confirmed + 1 \in Nat
  BY OwnRunner DEF SignerInv, TypeOK
<1>1. run[r].pc \in {"sign", "submit"} /\ pending_payouts' = pending_payouts
  BY DEF NullSign, FetchNonce, Submit, SubmitLost, RpcFails, queueVars
<1>2. ASSUME NEW pc \in {"submit", "accepted", "error", "unwired"}, Goto(r, pc),
             pc = "accepted" => Submit(r) /\ Accepts(run[r].nonce)
      PROVE  \E c \in {"submit", "accepted", "error", "unwired"}, nonce \in Nat :
               /\ Keep(r, Runner(c, run[r].batch, run[r].cur, nonce))
               /\ run[r].pc \in {"sign", "submit"}
               /\ c = "accepted" => Submit(r) /\ Accepts(run[r].nonce)
  <2>1. Keep(r, Runner(pc, run[r].batch, run[r].cur, run[r].nonce))
    BY <1>0, <1>1, <1>2, GotoKeeps DEF Goto, Moves
  <2> QED
    BY <1>0, <1>1, <1>2, <2>1
<1>3. CASE FetchNonce(r)
  <2>1. Keep(r, Runner("submit", run[r].batch, run[r].cur, confirmed + 1))
    BY <1>0, <1>1, <1>3, GotoKeeps DEF FetchNonce, Moves
  <2> QED
    BY <1>0, <1>1, <2>1
<1>4. CASE Submit(r)
  <2>1. CASE Accepts(run[r].nonce)
    BY <1>2, <1>4, <2>1 DEF Submit, Answer
  <2>2. CASE ~Accepts(run[r].nonce)
    BY <1>2, <1>4, <2>2 DEF Submit, Answer
  <2> QED
    BY <2>1, <2>2
<1>5. CASE NullSign(r)
  BY <1>2, <1>5 DEF NullSign
<1>6. CASE SubmitLost(r) \/ RpcFails(r)
  BY <1>2, <1>6 DEF SubmitLost, RpcFails
<1> QED
  BY <1>3, <1>4, <1>5, <1>6

\* The row a runner writes.
LEMMA RowWritten ==
  ASSUME SignerInv, NEW r \in Runners, WriteSubmitted(r) \/ WriteUnwired(r) \/ WriteError(r)
  PROVE  \E row \in PayoutRows :
           /\ row.status # "SIGNING" /\ run[r].pc \in {"accepted", "error", "unwired"}
           /\ row.status = "SUBMITTED" <=> run[r].pc = "accepted"
           /\ Moves(r, Runner("batch", run[r].batch, 0, 0))
           /\ pending_payouts' = [pending_payouts EXCEPT ![run[r].cur] = row]
           /\ UNCHANGED <<wired, l1Vars, boundVars>>
<1>1. run[r].pc \in {"accepted", "error", "unwired"}
  BY DEF WriteSubmitted, WriteUnwired, WriteError, WriteRow
<1>2. run[r].cur \in Held(r)
  BY <1>1 DEF Held
<1>3. run[r].cur \in Ids /\ Signing(run[r].cur)
  BY <1>2 DEF SignerInv, RunInv, ClaimExclusive, Signing
<1>4. Attempts(r) \in 0..MAX_ATTEMPTS
  <2>1. pending_payouts[run[r].cur].attempts < MAX_ATTEMPTS
    BY <1>3 DEF SignerInv, RunInv
  <2>2. pending_payouts[run[r].cur].attempts \in 0..MAX_ATTEMPTS
    BY <1>3, RowType DEF SignerInv
  <2> QED
    BY <2>1, <2>2, SignerAssumption DEF Attempts
<1> DEFINE n == Attempts(r)
<1> HIDE DEF n
<1>5. \A st \in {"QUEUED", "SUBMITTED", "FAILED"} : Row(st, n) \in PayoutRows /\ Row(st, n).status = st
  BY <1>4 DEF Row, PayoutRows, n
<1>6. AfterError(n) \in PayoutRows /\ AfterError(n).status \in {"QUEUED", "FAILED"}
  BY <1>5 DEF AfterError
<1>7. ASSUME NEW row \in PayoutRows, row.status # "SIGNING", NEW pc, WriteRow(r, pc, row),
             row.status = "SUBMITTED" <=> pc = "accepted"
      PROVE  \E w \in PayoutRows :
               /\ w.status # "SIGNING" /\ run[r].pc \in {"accepted", "error", "unwired"}
               /\ w.status = "SUBMITTED" <=> run[r].pc = "accepted"
               /\ Moves(r, Runner("batch", run[r].batch, 0, 0))
               /\ pending_payouts' = [pending_payouts EXCEPT ![run[r].cur] = w]
               /\ UNCHANGED <<wired, l1Vars, boundVars>>
  BY <1>1, <1>7 DEF WriteRow, Moves
<1>8. CASE WriteSubmitted(r)
  BY <1>5, <1>7, <1>8 DEF WriteSubmitted, n
<1>9. CASE WriteUnwired(r)
  BY <1>5, <1>7, <1>9 DEF WriteUnwired, n
<1>10. CASE WriteError(r)
  BY <1>6, <1>7, <1>10 DEF WriteError, n
<1> QED
  BY <1>8, <1>9, <1>10

-----------------------------------------------------------------------------
(* Types and exclusive claims *)

LEMMA InitSigner == Init => SignerInv
<1> SUFFICES ASSUME Init PROVE SignerInv
  OBVIOUS
<1>1. IdleRunner \in RunnerStates /\ IdleRunner.pc = "idle" /\ IdleRunner.batch = {}
  BY RunnerType DEF IdleRunner, Runner
<1>2. TypeOK
  BY <1>1 DEF Init, TypeOK
<1>3. \A r \in Runners : Held(r) = {} /\ run[r].pc = "idle"
  BY <1>1 DEF Init, Held
<1>4. Ids = {}
  BY DEF Init, Ids
<1> QED
  BY <1>2, <1>3, <1>4 DEF SignerInv, RunInv, ClaimExclusive, Signing

LEMMA KeepSigner ==
  ASSUME SignerInv, NEW r \in Runners, NEW x, Keep(r, x),
         wired' \in BOOLEAN, accepted' \subseteq [payout : Nat, nonce : Nat],
         lost' \subseteq accepted', confirmed' \in Nat, faults' \in Nat, restarts' \in Nat
  PROVE  SignerInv'
<1>1. RunInv'
  BY KeepInv DEF Keep
<1>2. TypeOK'
  BY MoveFields DEF Keep, SignerInv, TypeOK
<1> QED
  BY <1>1, <1>2 DEF SignerInv

LEMMA SentType ==
  ASSUME TypeOK, NEW r \in Runners
  PROVE  Sent(r) \in [payout : Nat, nonce : Nat]
BY OwnRunner DEF Sent, TypeOK

LEMMA NextSigner == SignerInv /\ [Next]_vars => SignerInv'
<1> SUFFICES ASSUME SignerInv, [Next]_vars PROVE SignerInv'
  OBVIOUS
<1> USE DEF queueVars, l1Vars, boundVars
<1>1. CASE Enqueue
  BY <1>1, EnqueueInv
<1>2. CASE MineTx \/ UNCHANGED vars
  <2>1. UNCHANGED <<pending_payouts, run>>
    BY <1>2 DEF MineTx, vars
  <2>2. TypeOK'
    BY <1>2 DEF MineTx, vars, SignerInv, TypeOK
  <2>3. RunInv'
    BY <2>1 DEF SignerInv, RunInv, ClaimExclusive, Held, Ids, Signing
  <2> QED
    BY <2>2, <2>3 DEF SignerInv
<1>3. ASSUME NEW r \in Runners, ClaimBatch(r) PROVE SignerInv'
  BY <1>3, ClaimInv
<1>4. ASSUME NEW r \in Runners, NEW p \in run[r].batch, LoadPayout(r, p) PROVE SignerInv'
  <2>1. UNCHANGED <<wired, accepted, confirmed, faults, lost, restarts>>
    BY <1>4 DEF LoadPayout
  <2> QED
    BY <1>4, <2>1, LoadKeeps, KeepSigner DEF SignerInv, TypeOK
<1>5. ASSUME NEW r \in Runners, EndTick(r) \/ Restart(r) PROVE SignerInv'
  <2>1. restarts' \in Nat /\ UNCHANGED <<accepted, confirmed, faults, lost>>
    <3>1. restarts \in Nat
      BY DEF SignerInv, TypeOK
    <3>2. CASE EndTick(r)
      BY <3>1, <3>2 DEF EndTick
    <3>3. CASE Restart(r)
      <4>1. restarts' = restarts + 1 /\ UNCHANGED <<accepted, confirmed, faults, lost>>
        BY <3>3 DEF Restart
      <4> QED
        BY <3>1, <4>1
    <3> QED
      BY <1>5, <3>2, <3>3
  <2>2. wired' \in BOOLEAN
    <3>1. wired' = wired \/ wired' = TRUE
      BY <1>5 DEF EndTick, Restart
    <3>2. wired \in BOOLEAN
      BY DEF SignerInv, TypeOK
    <3> QED
      BY <3>1, <3>2, Zenon
  <2> QED
    BY <1>5, <2>1, <2>2, IdleKeeps, KeepSigner DEF SignerInv, TypeOK
<1>6. ASSUME NEW r \in Runners,
             NullSign(r) \/ FetchNonce(r) \/ Submit(r) \/ SubmitLost(r) \/ RpcFails(r)
      PROVE  SignerInv'
  <2>1. PICK x : Keep(r, x)
    BY <1>6, PayoutKeeps
  <2>2. /\ UNCHANGED <<wired, confirmed, restarts>>
        /\ faults' \in Nat
    BY <1>6 DEF NullSign, FetchNonce, Submit, SubmitLost, RpcFails, SignerInv, TypeOK
  <2>3. accepted' \subseteq [payout : Nat, nonce : Nat] /\ lost' \subseteq accepted'
    BY <1>6, SentType DEF NullSign, FetchNonce, Submit, SubmitLost, RpcFails, SignerInv, TypeOK
  <2> QED
    BY <2>1, <2>2, <2>3, KeepSigner DEF SignerInv, TypeOK
<1>7. ASSUME NEW r \in Runners, WriteSubmitted(r) \/ WriteUnwired(r) \/ WriteError(r)
      PROVE  SignerInv'
  <2>1. PICK row \in PayoutRows :
           /\ row.status # "SIGNING" /\ run[r].pc \in {"accepted", "error", "unwired"}
           /\ Moves(r, Runner("batch", run[r].batch, 0, 0))
           /\ pending_payouts' = [pending_payouts EXCEPT ![run[r].cur] = row]
           /\ UNCHANGED <<wired, l1Vars, boundVars>>
    BY <1>7, RowWritten
  <2>2. RunInv' /\ pending_payouts' \in Seq(PayoutRows)
    BY <2>1, WriteInv
  <2>3. run' \in [Runners -> RunnerStates]
    BY <2>1, OwnRunner, RunnerType, MoveFields DEF SignerInv
  <2> QED
    BY <2>1, <2>2, <2>3 DEF SignerInv, TypeOK
<1> QED
  BY <1>1, <1>2, <1>3, <1>4, <1>5, <1>6, <1>7 DEF Next, RunnerStep

LEMMA SignerInvHolds == Spec => []SignerInv
BY InitSigner, NextSigner, PTL DEF Spec

\* Types; attempts never passes MAX_ATTEMPTS, whichever branch counts it up.
THEOREM SignerTypeCorrect == Spec => []TypeOK
<1>1. SignerInv => TypeOK
  BY DEF SignerInv
<1> QED
  BY <1>1, SignerInvHolds, PTL

\* _claim_batch: any number of runners, restarted at any point, never have the
\* same payout in their hands.
THEOREM ClaimsExclusive == Spec => []ClaimExclusive
<1>1. SignerInv => ClaimExclusive
  BY DEF SignerInv, RunInv
<1> QED
  BY <1>1, SignerInvHolds, PTL

-----------------------------------------------------------------------------
(* What L1 has accepted *)

\* A transfer becomes answered when its answer arrives, and stays it.
LEMMA AnswerHeard ==
  ASSUME TypeOK, NEW r \in Runners
  PROVE  /\ Submit(r) /\ Accepts(run[r].nonce) => Answered' = Answered \cup {Sent(r)}
         /\ SubmitLost(r) => Answered' = Answered
<1>1. lost \subseteq accepted
  BY DEF TypeOK
<1>2. Sent(r).nonce = run[r].nonce
  BY DEF Sent
<1>3. Accepts(run[r].nonce) => Sent(r) \notin accepted
  BY <1>2 DEF Accepts
<1>4. ASSUME Submit(r), Accepts(run[r].nonce) PROVE Answered' = Answered \cup {Sent(r)}
  <2>1. accepted' = accepted \cup {Sent(r)} /\ lost' = lost
    BY <1>4 DEF Submit
  <2> QED
    BY <1>1, <1>3, <1>4, <2>1 DEF Answered
<1>5. ASSUME SubmitLost(r) PROVE Answered' = Answered
  <2>1. accepted' = accepted \cup {Sent(r)} /\ lost' = lost \cup {Sent(r)}
    BY <1>5 DEF SubmitLost
  <2> QED
    BY <1>3, <1>5, <2>1 DEF Answered, SubmitLost
<1> QED
  BY <1>4, <1>5

LEMMA SameAnswers == UNCHANGED <<accepted, lost>> => Answered' = Answered
BY DEF Answered

\* A payout known to be paid is in no hands but those that got the answer.
LEMMA NotPaidYet ==
  ASSUME PaidInv, NEW r \in Runners, run[r].pc # "accepted", NEW t \in Answered
  PROVE  t.payout \notin Held(r)
BY DEF PaidInv

LEMMA KeepPaid ==
  ASSUME SignerInv, PaidInv, NEW r \in Runners, NEW x, Keep(r, x),
         run[r].pc # "accepted" \/ Hold(x) = {},
         Answered' = Answered
  PROVE  PaidInv'
<1>1. run'[r] = x /\ \A q \in Runners \ {r} : run'[q] = run[q]
  BY MoveFields DEF SignerInv, Keep
<1>2. Held(r)' = Hold(x) /\ \A q \in Runners \ {r} : Held(q)' = Held(q)
  BY <1>1 DEF Held, Hold
<1>3. \A t \in Answered : t.payout \notin Held(r)'
  BY <1>2, NotPaidYet DEF Keep
<1>4. Ids' = Ids /\ pending_payouts' = pending_payouts
  BY DEF Keep, Ids
<1>5. \A t \in Answered : \A q \in Runners : t.payout \in Held(q)' =>
        run'[q].pc = "accepted" /\ run'[q].cur = t.payout
  BY <1>1, <1>2, <1>3 DEF PaidInv
<1>6. \A t, u \in Answered' : t.payout = u.payout => t = u
  BY DEF PaidInv
<1> QED
  BY <1>4, <1>5, <1>6 DEF PaidInv

\* L1 accepts the payout in the hands of r, for the first time.
LEMMA SubmitPaid ==
  ASSUME SignerInv, PaidInv, NEW r \in Runners, Submit(r), Accepts(run[r].nonce)
  PROVE  PaidInv'
<1> DEFINE c == run[r].cur
           x == Runner("accepted", run[r].batch, c, run[r].nonce)
<1>0. run[r].pc = "submit" /\ Moves(r, x) /\ UNCHANGED pending_payouts
  BY DEF Submit, Answer, Goto, Moves, queueVars
<1>1. /\ x \in RunnerStates /\ x.pc = "accepted" /\ x.cur = c /\ x.batch = run[r].batch
  BY OwnRunner, RunnerType DEF SignerInv, Runner
<1>2. run'[r] = x /\ \A q \in Runners \ {r} : run'[q] = run[q]
  BY <1>0, <1>1, MoveFields DEF SignerInv
<1>3. Held(r)' = Held(r) /\ \A q \in Runners \ {r} : Held(q)' = Held(q)
  BY <1>0, <1>1, <1>2 DEF Held
<1>4. c \in Held(r) /\ Signing(c)
  BY <1>0 DEF Held, SignerInv, RunInv, ClaimExclusive, Signing
<1>5. \A t \in Answered : t.payout \notin Held(r)
  BY <1>0, NotPaidYet
<1>6. Answered' = Answered \cup {Sent(r)} /\ Sent(r).payout = c
  BY AnswerHeard DEF Sent, SignerInv
<1> HIDE DEF x, c
<1>7. \A t, u \in Answered' : t.payout = u.payout => t = u
  BY <1>4, <1>5, <1>6 DEF PaidInv
<1>8. ASSUME NEW t \in Answered'
      PROVE  /\ t.payout \in Ids' /\ pending_payouts'[t.payout].status \in {"SIGNING", "SUBMITTED"}
             /\ \A q \in Runners : t.payout \in Held(q)' =>
                  run'[q].pc = "accepted" /\ run'[q].cur = t.payout
  <2>1. CASE t \in Answered
    BY <1>0, <1>2, <1>3, <1>5, <2>1 DEF PaidInv, Ids
  <2>2. CASE t.payout = c
    <3>1. \A q \in Runners \ {r} : c \notin Held(q)
      BY <1>4 DEF SignerInv, RunInv, ClaimExclusive
    <3> QED
      BY <1>0, <1>1, <1>2, <1>3, <1>4, <2>2, <3>1 DEF Signing, Ids
  <2> QED
    BY <1>6, <2>1, <2>2
<1> QED
  BY <1>7, <1>8 DEF PaidInv

\* The row of a payout L1 has accepted is closed; one that is returned to the
\* queue or given up was not accepted.
LEMMA WritePaid ==
  ASSUME SignerInv, PaidInv, NEW r \in Runners, run[r].pc \notin {"idle", "batch"},
         NEW row \in PayoutRows, run[r].pc = "accepted" => row.status = "SUBMITTED",
         row.status # "SIGNING",
         Moves(r, Runner("batch", run[r].batch, 0, 0)),
         pending_payouts' = [pending_payouts EXCEPT ![run[r].cur] = row],
         Answered' = Answered
  PROVE  PaidInv'
<1> DEFINE c == run[r].cur
           x == Runner("batch", run[r].batch, 0, 0)
<1>1. x \in RunnerStates /\ x.pc = "batch" /\ x.batch = run[r].batch
  BY OwnRunner, RunnerType DEF SignerInv, Runner
<1>2. run'[r] = x /\ \A q \in Runners \ {r} : run'[q] = run[q]
  BY <1>1, MoveFields DEF SignerInv
<1>3. Held(r)' = run[r].batch /\ \A q \in Runners \ {r} : Held(q)' = Held(q)
  BY <1>1, <1>2 DEF Held
<1>4. c \in Held(r) /\ c \notin run[r].batch /\ run[r].batch \subseteq Held(r) /\ c \in Ids
  BY DEF Held, SignerInv, RunInv, ClaimExclusive
<1>5. Ids' = Ids /\ \A p \in Ids \ {c} : pending_payouts'[p] = pending_payouts[p]
  BY <1>4 DEF SignerInv, TypeOK, Ids
<1>6. pending_payouts'[c] = row
  BY <1>4 DEF SignerInv, TypeOK, Ids
<1> HIDE DEF c, x
<1>7. \A t \in Answered : t.payout \in Held(r) => t.payout = c /\ row.status = "SUBMITTED"
  BY DEF PaidInv, c
<1>8. ASSUME NEW t \in Answered
      PROVE  /\ t.payout \in Ids' /\ pending_payouts'[t.payout].status \in {"SIGNING", "SUBMITTED"}
             /\ \A q \in Runners : t.payout \in Held(q)' =>
                  run'[q].pc = "accepted" /\ run'[q].cur = t.payout
  <2>1. t.payout \in Ids' /\ pending_payouts'[t.payout].status \in {"SIGNING", "SUBMITTED"}
    BY <1>4, <1>5, <1>6, <1>7 DEF PaidInv
  <2>2. t.payout \notin Held(r)'
    BY <1>3, <1>4, <1>7
  <2> QED
    BY <1>2, <1>3, <2>1, <2>2 DEF PaidInv
<1>9. \A t, u \in Answered' : t.payout = u.payout => t = u
  BY DEF PaidInv
<1> QED
  BY <1>8, <1>9 DEF PaidInv

\* What _claim_batch does to the rows.
LEMMA ClaimRows ==
  ASSUME SignerInv, NEW r \in Runners, ClaimBatch(r)
  PROVE  /\ Ids' = Ids
         /\ \A p \in Ids : pending_payouts[p].status # "QUEUED" =>
              pending_payouts'[p] = pending_payouts[p] /\ p \notin Held(r)'
         /\ \A p \in Ids : pending_payouts'[p].status = "SUBMITTED" =>
              pending_payouts[p].status = "SUBMITTED"
         /\ run'[r].pc = "batch" /\ \A q \in Runners \ {r} : run'[q] = run[q]
<1> DEFINE B == {p \in Ids : InBatch(p)}
           x == Runner("batch", B, 0, 0)
<1>0. Ids \subseteq Nat /\ \A p \in Ids : pending_payouts[p] \in PayoutRows
  BY RowType DEF SignerInv
<1>1. x \in RunnerStates /\ x.pc = "batch" /\ x.batch = B
  BY <1>0, RunnerType DEF Runner
<1>2. run'[r] = x /\ \A q \in Runners \ {r} : run'[q] = run[q]
  BY <1>1, MoveFields DEF SignerInv, ClaimBatch, Moves
<1>3. Held(r)' = B
  BY <1>1, <1>2 DEF Held
<1>4. \A p \in B : pending_payouts[p].status = "QUEUED"
  BY DEF InBatch, Claimable
<1>5. pending_payouts' = [p \in Ids |->
        IF p \in B THEN [pending_payouts[p] EXCEPT !.status = "SIGNING"]
                   ELSE pending_payouts[p]]
  BY DEF ClaimBatch
<1> HIDE DEF B, x
<1>6. Ids' = Ids
  BY <1>5 DEF Ids
<1>7. \A p \in Ids : /\ p \in B => pending_payouts'[p].status = "SIGNING"
                     /\ p \notin B => pending_payouts'[p] = pending_payouts[p]
  BY <1>0, <1>5 DEF PayoutRows
<1> QED
  BY <1>1, <1>2, <1>3, <1>4, <1>6, <1>7

LEMMA ClaimPaid ==
  ASSUME SignerInv, PaidInv, NEW r \in Runners, ClaimBatch(r)
  PROVE  PaidInv'
<1>0. Answered' = Answered
  BY DEF ClaimBatch, l1Vars, Answered
<1>1. \A q \in Runners \ {r} : Held(q)' = Held(q)
  BY ClaimRows DEF Held
<1>2. ASSUME NEW t \in Answered
      PROVE  /\ t.payout \in Ids' /\ pending_payouts'[t.payout].status \in {"SIGNING", "SUBMITTED"}
             /\ \A q \in Runners : t.payout \in Held(q)' =>
                  run'[q].pc = "accepted" /\ run'[q].cur = t.payout
  <2>1. t.payout \in Ids /\ pending_payouts[t.payout].status \in {"SIGNING", "SUBMITTED"}
    BY DEF PaidInv
  <2>2. pending_payouts'[t.payout] = pending_payouts[t.payout] /\ t.payout \notin Held(r)'
    BY <2>1, ClaimRows
  <2> QED
    BY <1>1, <2>1, <2>2, ClaimRows DEF PaidInv
<1>3. \A t, u \in Answered' : t.payout = u.payout => t = u
  BY <1>0 DEF PaidInv
<1> QED
  BY <1>0, <1>2, <1>3 DEF PaidInv

LEMMA NextPaid == SignerInv /\ PaidInv /\ [Next]_vars => PaidInv'
<1> SUFFICES ASSUME SignerInv, PaidInv, [Next]_vars PROVE PaidInv'
  OBVIOUS
<1> USE DEF queueVars, l1Vars, boundVars
<1>1. CASE Enqueue
  <2>1. /\ run' = run /\ Answered' = Answered
        /\ \A p \in Ids : p \in Ids' /\ pending_payouts'[p] = pending_payouts[p]
    BY <1>1, EnqueueInv, SameAnswers DEF Enqueue
  <2>2. \A r \in Runners : Held(r)' = Held(r)
    BY <2>1 DEF Held
  <2> QED
    BY <2>1, <2>2 DEF PaidInv
<1>2. CASE MineTx \/ UNCHANGED vars
  <2>1. UNCHANGED <<pending_payouts, run>> /\ Answered' = Answered
    BY <1>2, SameAnswers DEF MineTx, vars
  <2> QED
    BY <2>1 DEF PaidInv, Held, Ids
<1>3. ASSUME NEW r \in Runners, ClaimBatch(r) PROVE PaidInv'
  BY <1>3, ClaimPaid
<1>4. ASSUME NEW r \in Runners, NEW p \in run[r].batch, LoadPayout(r, p) PROVE PaidInv'
  <2>1. run[r].pc # "accepted" /\ Answered' = Answered
    BY <1>4, SameAnswers DEF LoadPayout
  <2> QED
    BY <1>4, <2>1, LoadKeeps, KeepPaid
<1>5. ASSUME NEW r \in Runners, EndTick(r) \/ Restart(r) PROVE PaidInv'
  <2>1. Answered' = Answered
    BY <1>5, SameAnswers DEF EndTick, Restart
  <2> QED
    BY <1>5, <2>1, IdleKeeps, KeepPaid
<1>6. ASSUME NEW r \in Runners,
             NullSign(r) \/ FetchNonce(r) \/ Submit(r) \/ SubmitLost(r) \/ RpcFails(r)
      PROVE  PaidInv'
  <2>1. PICK x : Keep(r, x) /\ run[r].pc # "accepted"
    BY <1>6, PayoutKeeps
  <2>2. CASE Submit(r) /\ Accepts(run[r].nonce)
    BY <2>2, SubmitPaid
  <2>3. CASE ~(Submit(r) /\ Accepts(run[r].nonce))
    <3>1. SubmitLost(r) \/ UNCHANGED <<accepted, lost>>
      BY <1>6, <2>3 DEF NullSign, FetchNonce, Submit, RpcFails
    <3>2. Answered' = Answered
      BY <3>1, AnswerHeard, SameAnswers DEF SignerInv
    <3> QED
      BY <2>1, <3>2, KeepPaid
  <2> QED
    BY <2>2, <2>3
<1>7. ASSUME NEW r \in Runners, WriteSubmitted(r) \/ WriteUnwired(r) \/ WriteError(r)
      PROVE  PaidInv'
  BY <1>7, RowWritten, WritePaid, SameAnswers
<1> QED
  BY <1>1, <1>2, <1>3, <1>4, <1>5, <1>6, <1>7 DEF Next, RunnerStep

LEMMA InitPaid == Init => PaidInv
BY DEF Init, PaidInv, Answered

\* SignerRunner and HotKeySigner: no restart, retry or second runner makes L1
\* execute a payout twice that an answer has confirmed.
THEOREM PaidTwiceOnlyIfAnswerLost == Spec => []PaidTwiceOnlyIfLost
<1>1. PaidInv => PaidTwiceOnlyIfLost
  BY DEF PaidInv, PaidTwiceOnlyIfLost, Answered
<1> QED
  BY <1>1, InitSigner, NextSigner, InitPaid, NextPaid, PTL DEF Spec

-----------------------------------------------------------------------------
(* Rows that are closed *)

\* A runner moves, L1 forgets nothing, no row changes.
LEMMA KeepAnswer ==
  ASSUME SignerInv, AnswerInv, NEW r \in Runners, NEW x, Keep(r, x), Answered \subseteq Answered',
         x.pc = "accepted" => \E t \in Answered' : t.payout = x.cur
  PROVE  AnswerInv'
<1>1. run'[r] = x /\ \A q \in Runners \ {r} : run'[q] = run[q]
  BY MoveFields DEF SignerInv, Keep
<1>2. Ids' = Ids /\ pending_payouts' = pending_payouts
  BY DEF Keep, Ids
<1>3. SubmittedWasAccepted'
  BY <1>2 DEF AnswerInv, SubmittedWasAccepted, Answered
<1>4. \A q \in Runners : run'[q].pc = "accepted" => \E t \in Answered' : t.payout = run'[q].cur
  BY <1>1 DEF AnswerInv
<1> QED
  BY <1>3, <1>4 DEF AnswerInv

\* A row is closed as SUBMITTED by the runner that has the answer only.
LEMMA WriteAnswer ==
  ASSUME SignerInv, AnswerInv, NEW r \in Runners, run[r].pc \notin {"idle", "batch"},
         NEW row \in PayoutRows, row.status = "SUBMITTED" => run[r].pc = "accepted",
         Moves(r, Runner("batch", run[r].batch, 0, 0)),
         pending_payouts' = [pending_payouts EXCEPT ![run[r].cur] = row],
         Answered' = Answered
  PROVE  AnswerInv'
<1> DEFINE x == Runner("batch", run[r].batch, 0, 0)
<1>1. x \in RunnerStates /\ x.pc = "batch"
  BY OwnRunner, RunnerType DEF SignerInv, Runner
<1>2. run'[r] = x /\ \A q \in Runners \ {r} : run'[q] = run[q]
  BY <1>1, MoveFields DEF SignerInv
<1>3. /\ Ids' = Ids
      /\ \A p \in Ids : pending_payouts'[p] = pending_payouts[p] \/ p = run[r].cur
      /\ run[r].cur \in Ids => pending_payouts'[run[r].cur] = row
  BY DEF SignerInv, TypeOK, Ids
<1> HIDE DEF x
<1>4. SubmittedWasAccepted'
  BY <1>3 DEF AnswerInv, SubmittedWasAccepted, Answered
<1>5. \A q \in Runners : run'[q].pc = "accepted" => \E t \in Answered' : t.payout = run'[q].cur
  BY <1>1, <1>2 DEF AnswerInv
<1> QED
  BY <1>4, <1>5 DEF AnswerInv

LEMMA NextAnswer == SignerInv /\ AnswerInv /\ [Next]_vars => AnswerInv'
<1> SUFFICES ASSUME SignerInv, AnswerInv, [Next]_vars PROVE AnswerInv'
  OBVIOUS
<1> USE DEF queueVars, l1Vars, boundVars
<1>1. CASE Enqueue
  <2>1. run' = run /\ Answered' = Answered
    BY <1>1, SameAnswers DEF Enqueue
  <2>2. \A p \in Ids' : pending_payouts'[p].status = "SUBMITTED" =>
          p \in Ids /\ pending_payouts[p].status = "SUBMITTED"
    BY <1>1, EnqueueInv
  <2> QED
    BY <2>1, <2>2 DEF AnswerInv, SubmittedWasAccepted, Answered
<1>2. CASE MineTx \/ UNCHANGED vars
  <2>1. UNCHANGED <<pending_payouts, run>> /\ Answered' = Answered
    BY <1>2, SameAnswers DEF MineTx, vars
  <2> QED
    BY <2>1 DEF AnswerInv, SubmittedWasAccepted, Answered, Ids
<1>3. ASSUME NEW r \in Runners, ClaimBatch(r) PROVE AnswerInv'
  <2>1. Answered' = Answered
    BY <1>3, SameAnswers DEF ClaimBatch
  <2> QED
    BY <1>3, <2>1, ClaimRows DEF AnswerInv, SubmittedWasAccepted, Answered
<1>4. ASSUME NEW r \in Runners, NEW p \in run[r].batch, LoadPayout(r, p) PROVE AnswerInv'
  <2>1. Answered' = Answered
    BY <1>4, SameAnswers DEF LoadPayout
  <2>2. Runner("sign", run[r].batch \ {p}, p, 0).pc # "accepted"
    BY DEF Runner
  <2> QED
    BY <1>4, <2>1, <2>2, LoadKeeps, KeepAnswer
<1>5. ASSUME NEW r \in Runners, EndTick(r) \/ Restart(r) PROVE AnswerInv'
  <2>1. Answered' = Answered
    BY <1>5, SameAnswers DEF EndTick, Restart
  <2>2. IdleRunner.pc # "accepted"
    BY DEF IdleRunner, Runner
  <2> QED
    BY <1>5, <2>1, <2>2, IdleKeeps, KeepAnswer
<1>6. ASSUME NEW r \in Runners,
             NullSign(r) \/ FetchNonce(r) \/ Submit(r) \/ SubmitLost(r) \/ RpcFails(r)
      PROVE  AnswerInv'
  <2>1. PICK pc \in {"submit", "accepted", "error", "unwired"}, nonce \in Nat :
          /\ Keep(r, Runner(pc, run[r].batch, run[r].cur, nonce))
          /\ pc = "accepted" => Submit(r) /\ Accepts(run[r].nonce)
    BY <1>6, PayoutKeeps
  <2> DEFINE x == Runner(pc, run[r].batch, run[r].cur, nonce)
  <2>2. x.pc = pc /\ x.cur = run[r].cur
    BY DEF Runner
  <2>3. Answered \subseteq Answered'
    <3>1. CASE Submit(r) /\ Accepts(run[r].nonce)
      BY <3>1, AnswerHeard DEF SignerInv
    <3>2. CASE ~(Submit(r) /\ Accepts(run[r].nonce))
      <4>1. SubmitLost(r) \/ UNCHANGED <<accepted, lost>>
        BY <1>6, <3>2 DEF NullSign, FetchNonce, Submit, RpcFails
      <4> QED
        BY <4>1, AnswerHeard, SameAnswers DEF SignerInv
    <3> QED
      BY <3>1, <3>2
  <2>4. pc = "accepted" => \E t \in Answered' : t.payout = run[r].cur
    <3>1. Sent(r).payout = run[r].cur
      BY DEF Sent
    <3> QED
      BY <2>1, <3>1, AnswerHeard DEF SignerInv
  <2>5. Keep(r, x)
    BY <2>1
  <2>6. x.pc = "accepted" => \E t \in Answered' : t.payout = x.cur
    BY <2>2, <2>4
  <2> HIDE DEF x
  <2> QED
    BY <2>3, <2>5, <2>6, KeepAnswer
<1>7. ASSUME NEW r \in Runners, WriteSubmitted(r) \/ WriteUnwired(r) \/ WriteError(r)
      PROVE  AnswerInv'
  BY <1>7, RowWritten, WriteAnswer, SameAnswers
<1> QED
  BY <1>1, <1>2, <1>3, <1>4, <1>5, <1>6, <1>7 DEF Next, RunnerStep

LEMMA InitAnswer == Init => AnswerInv
<1> SUFFICES ASSUME Init PROVE AnswerInv
  OBVIOUS
<1>1. Ids = {} /\ \A r \in Runners : run[r].pc = "idle"
  BY DEF Init, Ids, IdleRunner, Runner
<1> QED
  BY <1>1 DEF AnswerInv, SubmittedWasAccepted, Answered

\* HotKeySigner.sign_and_submit: a payout that is SUBMITTED was accepted by L1.
THEOREM SubmittedMeansAccepted == Spec => []SubmittedWasAccepted
<1>1. AnswerInv => SubmittedWasAccepted
  BY DEF AnswerInv
<1> QED
  BY <1>1, InitSigner, NextSigner, InitAnswer, NextAnswer, PTL DEF Spec

LEMMA FinalStep ==
  SignerInv /\ [Next]_vars =>
    [\A p \in Ids : pending_payouts[p].status \in {"SUBMITTED", "FAILED"} =>
       pending_payouts'[p] = pending_payouts[p]]_vars
<1> SUFFICES ASSUME SignerInv, [Next]_vars, NEW p \in Ids,
                    pending_payouts[p].status \in {"SUBMITTED", "FAILED"}
             PROVE  pending_payouts'[p] = pending_payouts[p]
  OBVIOUS
<1> USE DEF queueVars
<1>1. CASE Enqueue
  BY <1>1, EnqueueInv
<1>2. CASE MineTx \/ UNCHANGED vars
  BY <1>2 DEF MineTx, vars
<1>3. ASSUME NEW r \in Runners, ClaimBatch(r) PROVE pending_payouts'[p] = pending_payouts[p]
  BY <1>3, ClaimRows
<1>4. ASSUME NEW r \in Runners,
             \/ \E q \in run[r].batch : LoadPayout(r, q)
             \/ NullSign(r) \/ FetchNonce(r) \/ Submit(r) \/ SubmitLost(r) \/ RpcFails(r)
             \/ EndTick(r) \/ Restart(r)
      PROVE  pending_payouts'[p] = pending_payouts[p]
  BY <1>4 DEF LoadPayout, NullSign, FetchNonce, Submit, SubmitLost, RpcFails, EndTick, Restart
<1>5. ASSUME NEW r \in Runners, WriteSubmitted(r) \/ WriteUnwired(r) \/ WriteError(r)
      PROVE  pending_payouts'[p] = pending_payouts[p]
  <2>1. PICK row \in PayoutRows :
          /\ run[r].pc \in {"accepted", "error", "unwired"}
          /\ pending_payouts' = [pending_payouts EXCEPT ![run[r].cur] = row]
    BY <1>5, RowWritten
  <2>2. run[r].cur \in Held(r)
    BY <2>1 DEF Held
  <2>3. p # run[r].cur
    BY <2>2 DEF SignerInv, RunInv, ClaimExclusive
  <2> QED
    BY <2>1, <2>3 DEF SignerInv, TypeOK, Ids
<1> QED
  BY <1>1, <1>2, <1>3, <1>4, <1>5 DEF Next, RunnerStep

\* _process_one: no runner touches a payout that is SUBMITTED or FAILED.
THEOREM FinalRowsStay == Spec => FinalStaysFinal
BY SignerInvHolds, FinalStep, PTL DEF FinalStaysFinal, Spec

-----------------------------------------------------------------------------
(* The queue keeps the promise of Payouts *)

Seen == [p \in Ids |-> RowSeen(p)]

Known(p) == \E t \in Answered : t.payout = p

LEMMA HeardIsKnown == \A p : Promise!Heard(p) <=> Known(p)
BY DEF Promise!Heard, Known, Answered

\* Who looks from outside sees no difference between QUEUED and SIGNING.
LEMMA SameSeen ==
  ASSUME Ids' = Ids,
         \A p \in Ids : \/ pending_payouts'[p].status = pending_payouts[p].status
                        \/ /\ pending_payouts[p].status \notin {"SUBMITTED", "FAILED"}
                           /\ pending_payouts'[p].status \notin {"SUBMITTED", "FAILED"}
  PROVE  Seen' = Seen
<1>1. \A p \in Ids : RowSeen(p)' = RowSeen(p)
  BY DEF RowSeen
<1> QED
  BY <1>1 DEF Seen

LEMMA PromiseStutter ==
  ASSUME Seen' = Seen, UNCHANGED <<accepted, lost>>
  PROVE  UNCHANGED Promise!payoutVars
BY DEF Seen, Promise!payoutVars

\* enqueue_payout adds an open row.
LEMMA EnqueueSeen ==
  ASSUME SignerInv, Enqueue
  PROVE  Promise!Queue
<1> DEFINE n == Len(pending_payouts)
<1>1. pending_payouts \in Seq(PayoutRows) /\ Ids = 1..n /\ n \in Nat
  BY RowType DEF SignerInv, TypeOK
<1>2. pending_payouts' = Append(pending_payouts, [status |-> "QUEUED", attempts |-> 0])
  BY DEF Enqueue
<1>3. Ids' = 1..(n + 1)
  BY <1>1, <1>2 DEF Ids
<1>4. \A p \in 1..n : pending_payouts'[p] = pending_payouts[p]
  BY <1>1, <1>2
<1>5. pending_payouts'[n + 1].status = "QUEUED"
  BY <1>1, <1>2
<1>6. Seen' = [p \in 1..(n + 1) |-> IF p \in 1..n THEN RowSeen(p) ELSE "OPEN"]
  <2>1. \A p \in 1..(n + 1) : p \in 1..n \/ p = n + 1
    BY <1>1
  <2>2. n + 1 \notin 1..n
    BY <1>1
  <2>3. \A p \in 1..(n + 1) : RowSeen(p)' = IF p \in 1..n THEN RowSeen(p) ELSE "OPEN"
    BY <1>4, <1>5, <2>1, <2>2 DEF RowSeen
  <2> QED
    BY <1>3, <2>3 DEF Seen
<1>7. Seen \in Seq({"OPEN", "SUBMITTED", "FAILED"}) /\ Len(Seen) = n
  <2>1. \A p \in 1..n : RowSeen(p) \in {"OPEN", "SUBMITTED", "FAILED"}
    BY DEF RowSeen
  <2> QED
    BY <1>1, <2>1 DEF Seen
<1>8. Append(Seen, "OPEN") = [p \in 1..(n + 1) |-> IF p \in 1..n THEN RowSeen(p) ELSE "OPEN"]
  BY <1>1, <1>7 DEF Seen
<1>9. UNCHANGED <<accepted, lost>>
  BY DEF Enqueue, l1Vars
<1> QED
  BY <1>6, <1>8, <1>9 DEF Promise!Queue, Seen

\* L1 accepts the payout in the hands of r: it is open, and no answer has
\* confirmed it yet.
LEMMA SubmitSeen ==
  ASSUME SignerInv, PaidInv, NEW r \in Runners, run[r].pc = "submit", Accepts(run[r].nonce),
         accepted' = accepted \cup {Sent(r)}, lost' \in {lost, lost \cup {Sent(r)}},
         UNCHANGED pending_payouts
  PROVE  Promise!PayoutsNext
<1> DEFINE c == run[r].cur
<1>1. c \in Held(r) /\ Signing(c)
  BY DEF Held, SignerInv, RunInv, ClaimExclusive, Signing
<1>2. c \in DOMAIN Seen /\ Seen[c] = "OPEN"
  BY <1>1 DEF Signing, Seen, RowSeen
<1>3. ~Promise!Heard(c)
  BY <1>1, NotPaidYet, HeardIsKnown DEF Known
<1>4. Sent(r).payout = c /\ Sent(r).nonce = run[r].nonce
  BY DEF Sent
<1>5. \A u \in accepted : u.nonce # Sent(r).nonce
  BY <1>4 DEF Accepts
<1>6. Seen' = Seen
  BY DEF Seen, RowSeen, Ids
<1>7. Promise!Transfer(c)
  BY <1>2, <1>3, <1>4, <1>5, <1>6 DEF Promise!Transfer, Seen
<1> QED
  BY <1>2, <1>7 DEF Promise!PayoutsNext, Seen

\* A row is closed by what the runner was answered, or stays open.
LEMMA WriteSeen ==
  ASSUME SignerInv, PaidInv, AnswerInv, NEW r \in Runners,
         WriteSubmitted(r) \/ WriteUnwired(r) \/ WriteError(r)
  PROVE  Promise!PayoutsNext \/ UNCHANGED Promise!payoutVars
<1> DEFINE c == run[r].cur
<1>1. PICK row \in PayoutRows :
         /\ row.status # "SIGNING" /\ run[r].pc \in {"accepted", "error", "unwired"}
         /\ row.status = "SUBMITTED" <=> run[r].pc = "accepted"
         /\ pending_payouts' = [pending_payouts EXCEPT ![c] = row]
         /\ UNCHANGED <<accepted, lost>>
  BY RowWritten DEF l1Vars
<1>2. c \in Held(r) /\ Signing(c) /\ c \in Ids
  BY <1>1 DEF Held, SignerInv, RunInv, ClaimExclusive, Signing
<1>3. /\ Ids' = Ids /\ pending_payouts'[c] = row
      /\ \A p \in Ids \ {c} : pending_payouts'[p] = pending_payouts[p]
  BY <1>1, <1>2 DEF SignerInv, TypeOK, Ids
<1>4. CASE row.status = "QUEUED"
  <2>1. Seen' = Seen
    BY <1>2, <1>3, <1>4, SameSeen DEF Signing
  <2> QED
    BY <1>1, <2>1, PromiseStutter
<1>5. CASE row.status \in {"SUBMITTED", "FAILED"}
  <2>1. Promise!Heard(c) <=> row.status = "SUBMITTED"
    <3>1. CASE run[r].pc = "accepted"
      BY <1>1, <3>1, HeardIsKnown DEF AnswerInv, Known
    <3>2. CASE run[r].pc # "accepted"
      BY <1>1, <1>2, <3>2, NotPaidYet, HeardIsKnown DEF Known
    <3> QED
      BY <3>1, <3>2
  <2>2. c \in DOMAIN Seen /\ Seen[c] = "OPEN"
    BY <1>2 DEF Signing, Seen, RowSeen
  <2>3. \A p \in Ids : RowSeen(p)' = IF p = c THEN row.status ELSE RowSeen(p)
    BY <1>3, <1>5 DEF RowSeen
  <2>4. Seen' = [Seen EXCEPT ![c] = row.status]
    BY <1>2, <1>3, <2>3 DEF Seen
  <2>5. row.status = IF Promise!Heard(c) THEN "SUBMITTED" ELSE "FAILED"
    BY <1>5, <2>1
  <2>6. Promise!Close(c)
    BY <1>1, <2>2, <2>4, <2>5 DEF Promise!Close, Seen
  <2> QED
    BY <2>2, <2>6 DEF Promise!PayoutsNext, Seen
<1> QED
  BY <1>1, <1>4, <1>5 DEF PayoutRows

\* _claim_batch takes open rows only, and leaves them open.
LEMMA ClaimSeen ==
  ASSUME SignerInv, NEW r \in Runners, ClaimBatch(r)
  PROVE  /\ Ids' = Ids
         /\ \A p \in Ids : \/ pending_payouts'[p].status = pending_payouts[p].status
                           \/ /\ pending_payouts[p].status \notin {"SUBMITTED", "FAILED"}
                              /\ pending_payouts'[p].status \notin {"SUBMITTED", "FAILED"}
<1>1. \A p \in Ids : pending_payouts[p] \in PayoutRows
  BY RowType DEF SignerInv
<1>2. Ids' = Ids
  BY ClaimRows
<1>3. \A p \in Ids : InBatch(p) => pending_payouts[p].status = "QUEUED"
  BY DEF InBatch, Claimable
<1>4. \A p \in Ids : pending_payouts'[p] =
        IF InBatch(p) THEN [pending_payouts[p] EXCEPT !.status = "SIGNING"]
                      ELSE pending_payouts[p]
  BY DEF ClaimBatch
<1>5. \A p \in Ids : [pending_payouts[p] EXCEPT !.status = "SIGNING"].status = "SIGNING"
  BY <1>1 DEF PayoutRows
<1> QED
  BY <1>2, <1>3, <1>4, <1>5

LEMMA StepSeen ==
  SignerInv /\ PaidInv /\ AnswerInv /\ [Next]_vars => [Promise!PayoutsNext]_(Promise!payoutVars)
<1> SUFFICES ASSUME SignerInv, PaidInv, AnswerInv, [Next]_vars
             PROVE  Promise!PayoutsNext \/ UNCHANGED Promise!payoutVars
  OBVIOUS
<1> USE DEF queueVars, l1Vars
<1>1. CASE Enqueue
  BY <1>1, EnqueueSeen DEF Promise!PayoutsNext
<1>2. ASSUME UNCHANGED <<pending_payouts, accepted, lost>>
      PROVE  UNCHANGED Promise!payoutVars
  BY <1>2, SameSeen, PromiseStutter DEF Ids
<1>3. CASE MineTx \/ UNCHANGED vars
  BY <1>2, <1>3 DEF MineTx, vars
<1>4. ASSUME NEW r \in Runners, ClaimBatch(r)
      PROVE  UNCHANGED Promise!payoutVars
  <2>1. Seen' = Seen
    BY <1>4, ClaimSeen, SameSeen
  <2> QED
    BY <1>4, <2>1, PromiseStutter DEF ClaimBatch
<1>5. ASSUME NEW r \in Runners,
             \/ \E p \in run[r].batch : LoadPayout(r, p)
             \/ NullSign(r) \/ FetchNonce(r) \/ RpcFails(r) \/ EndTick(r) \/ Restart(r)
      PROVE  UNCHANGED Promise!payoutVars
  BY <1>2, <1>5 DEF LoadPayout, NullSign, FetchNonce, RpcFails, EndTick, Restart
<1>6. ASSUME NEW r \in Runners, Submit(r)
      PROVE  Promise!PayoutsNext \/ UNCHANGED Promise!payoutVars
  <2>1. CASE Accepts(run[r].nonce)
    BY <1>6, <2>1, SubmitSeen DEF Submit
  <2>2. CASE ~Accepts(run[r].nonce)
    BY <1>2, <1>6, <2>2 DEF Submit
  <2> QED
    BY <2>1, <2>2
<1>7. ASSUME NEW r \in Runners, SubmitLost(r) PROVE Promise!PayoutsNext
  BY <1>7, SubmitSeen DEF SubmitLost
<1>8. ASSUME NEW r \in Runners, WriteSubmitted(r) \/ WriteUnwired(r) \/ WriteError(r)
      PROVE  Promise!PayoutsNext \/ UNCHANGED Promise!payoutVars
  BY <1>8, WriteSeen
<1> QED
  BY <1>1, <1>3, <1>4, <1>5, <1>6, <1>7, <1>8 DEF Next, RunnerStep

LEMMA InitSeen == Init => Promise!PayoutsInit
<1> SUFFICES ASSUME Init PROVE Promise!PayoutsInit
  OBVIOUS
<1>1. Ids = {} /\ accepted = {} /\ lost = {}
  BY DEF Init, Ids
<1>2. Seen = <<>>
  BY <1>1 DEF Seen
<1> QED
  BY <1>1, <1>2 DEF Promise!PayoutsInit, Seen

\* SignerRunner and HotKeySigner, seen from the payout queue: claims, batches,
\* retries, restarts and any number of runners implement Payouts.
THEOREM SignerKeepsPromise == Spec => QueueKeepsPromise
<1>1. Spec => [](SignerInv /\ PaidInv /\ AnswerInv)
  BY InitSigner, NextSigner, InitPaid, NextPaid, InitAnswer, NextAnswer, PTL DEF Spec
<1> QED
  BY <1>1, InitSeen, StepSeen, PTL DEF Spec, QueueKeepsPromise, Promise!PayoutsSpec
=============================================================================

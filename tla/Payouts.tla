------------------------------ MODULE Payouts ------------------------------
(***************************************************************************)
(* What the payout queue promises to whoever enqueues a payout             *)
(* (signing/queue.py, models.PendingPayout), without runners, batches,     *)
(* attempts, nonces to fetch or restarts: L1 executes a transfer of the    *)
(* payout, again only as long as no answer to an earlier one has arrived,  *)
(* and the row is closed by what was answered.                             *)
(***************************************************************************)
EXTENDS Naturals, Sequences

VARIABLES
  rows,      \* sequence of "OPEN", "SUBMITTED" or "FAILED", one per payout
  transfers, \* the transfers L1 has accepted: [payout, nonce]
  unheard    \* those among them whose answer never arrived

payoutVars == <<rows, transfers, unheard>>

Heard(p) == \E t \in transfers \ unheard : t.payout = p

PayoutsInit == rows = <<>> /\ transfers = {} /\ unheard = {}

Queue ==
  /\ rows' = Append(rows, "OPEN")
  /\ UNCHANGED <<transfers, unheard>>

\* A transfer of an open payout that is not known to be paid, under a nonce of
\* its own; the answer arrives or not.
Transfer(p) ==
  /\ rows[p] = "OPEN" /\ ~Heard(p)
  /\ \E t \in transfers' :
       /\ t.payout = p /\ \A u \in transfers : u.nonce # t.nonce
       /\ transfers' = transfers \cup {t}
       /\ unheard' \in {unheard, unheard \cup {t}}
  /\ UNCHANGED rows

\* SUBMITTED says that the payout was paid, FAILED that no answer said so.
Close(p) ==
  /\ rows[p] = "OPEN"
  /\ rows' = [rows EXCEPT ![p] = IF Heard(p) THEN "SUBMITTED" ELSE "FAILED"]
  /\ UNCHANGED <<transfers, unheard>>

PayoutsNext ==
  \/ Queue
  \/ \E p \in DOMAIN rows : Transfer(p) \/ Close(p)

PayoutsSpec == PayoutsInit /\ [][PayoutsNext]_payoutVars
=============================================================================

-------------------------------- MODULE Auth --------------------------------
(***************************************************************************)
(* verify_signed_request of staking/auth.py, which every write endpoint    *)
(* calls first, over the request schemas of api/schemas.py.  It has no     *)
(* await: one call is one step.  A signed request may be delivered any     *)
(* number of times, at any time (a wallet that retries, a proxy).          *)
(*                                                                         *)
(* The clock counts whole seconds, as int(time.time()) does.  The purge    *)
(* reads the clock again, lag seconds later, with the fraction: frac says  *)
(* whether there is one.  Only whether signature and key check out is kept *)
(* of the cryptography.                                                    *)
(***************************************************************************)
EXTENDS Integers, Sequences, FiniteSets

CONSTANTS
  Addresses,
  Requests,                 \* the signed requests wallets send
  TIMESTAMP_WINDOW_SECONDS,
  GRACE,                    \* the extra seconds of _purge_old_nonces
  MaxLag,                   \* bound: seconds between the two clock readings
  MaxTime                   \* bound: how long the clock runs

\* SignedRequestBase, CancelUnstake and ClaimRewards alike.  signed: the
\* signature is one of the canonical message under the public key; derived:
\* the address the public key derives to.
SignedRequest ==
  [nonce : STRING, timestamp : Nat \ {0}, address : Addresses, signed : BOOLEAN,
   derived : Addresses]

ASSUME AuthAssumption ==
  /\ Requests \subseteq SignedRequest
  /\ TIMESTAMP_WINDOW_SECONDS \in Nat /\ GRACE \in Nat
  /\ MaxLag \in Nat /\ MaxTime \in Nat

VARIABLES
  now,         \* the server's clock
  seen_nonces, \* the cache: a set of [nonce, t]
  served,      \* the requests let through, in order: [request, at, boot]
  boot         \* how often the process was started

authVars == <<now, seen_nonces, served>>

AuthTypeOK ==
  /\ now \in Nat /\ boot \in Nat
  /\ seen_nonces \subseteq [nonce : STRING, t : Nat]
  /\ served \in Seq([request : Requests, at : Nat, boot : Nat])

AuthInit == now = 1 /\ seen_nonces = {} /\ served = <<>>

-----------------------------------------------------------------------------
\* MUTANT of Stale: the cutoff leaves the window out.
Stale_NoWindow(s, time, frac) == s.t + GRACE < time

\* _purge_old_nonces: older than the window and the grace.
Stale(s, time, frac) ==
  LET age == s.t + TIMESTAMP_WINDOW_SECONDS + GRACE
  IN  age < time \/ (frac /\ age = time)

Kept(time, frac) == {s \in seen_nonces : ~Stale(s, time, frac)}

InWindow(q) ==
  /\ now - q.timestamp <= TIMESTAMP_WINDOW_SECONDS
  /\ q.timestamp - now <= TIMESTAMP_WINDOW_SECONDS

\* _verify_dilithium_real, then _derive_address_real and the comparison.
Verified(q) == q.signed /\ q.derived = q.address

\* The nonce is not in the cache after the purge.
Fresh(q, kept) == \A s \in kept : s.nonce # q.nonce

\* One call of verify_signed_request.  A timestamp outside the window changes
\* nothing.  The nonce is stored before the signature is looked at: a request
\* that does not verify uses its nonce up.
Verify(q, lag, frac) ==
  LET kept == Kept(now + lag, frac)
  IN  /\ InWindow(q) /\ now + lag <= MaxTime
      /\ seen_nonces' = IF Fresh(q, kept) THEN kept \cup {[nonce |-> q.nonce, t |-> now]}
                                          ELSE kept
      /\ served' = IF Fresh(q, kept) /\ Verified(q)
                   THEN Append(served, [request |-> q, at |-> now, boot |-> boot])
                   ELSE served
      /\ now' = now + lag

\* A second passes.
Tick ==
  /\ now < MaxTime
  /\ now' = now + 1
  /\ UNCHANGED <<seen_nonces, served>>
=============================================================================

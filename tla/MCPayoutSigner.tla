-------------------------- MODULE MCPayoutSigner ---------------------------
(* Small instances of PayoutSigner. *)
EXTENDS PayoutSigner

CONSTANTS r1, r2
=============================================================================

-------------------------- MODULE MCServiceProcess --------------------------
(* A small instance of ServiceProcess: a window of 2 seconds, a grace of 1. *)
EXTENDS ServiceProcess

CONSTANTS pool, other

Request(nonce, timestamp, signed) ==
  [nonce |-> nonce, timestamp |-> timestamp, address |-> pool, signed |-> signed,
   derived |-> pool]

\* A request stamped on time, one stamped ahead, one that does not verify, and
\* one whose key is that of another address, with the nonce of the first.
MCRequests ==
  {Request("n1", 1, TRUE), Request("n2", 3, TRUE), Request("n2", 2, FALSE),
   [Request("n1", 4, TRUE) EXCEPT !.derived = other]}

MCConfigs ==
  {[passphrase |-> "right", pool_address |-> pool],
   [passphrase |-> Unset, pool_address |-> pool],
   [passphrase |-> "wrong", pool_address |-> other]}

MCKeyfiles ==
  {[passphrase |-> "right", sized |-> TRUE, address |-> pool],
   [passphrase |-> "right", sized |-> FALSE, address |-> pool],
   [passphrase |-> "right", sized |-> TRUE, address |-> other]}
=============================================================================

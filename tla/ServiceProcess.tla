--------------------------- MODULE ServiceProcess ---------------------------
(***************************************************************************)
(* The service as a process: main.lifespan, which refuses to start without *)
(* the pool key (signing/pool_key.py), systemd, which starts it again      *)
(* after a failure (deploy/, Restart=on-failure), and what lives only in   *)
(* the memory of the process: the settings, the cached key and the nonces  *)
(* of Auth.  Meanwhile the operator may edit the configuration and replace *)
(* the keyfile.                                                            *)
(***************************************************************************)
EXTENDS Auth

CONSTANTS
  Configs,   \* [passphrase, pool_address]: .env and secrets.env
  Keyfiles,  \* [passphrase, sized, address]: what poolwallet.key.enc may hold
  Unset,     \* no passphrase
  Missing,   \* no keyfile
  NoKey,     \* nothing in _CACHED
  MaxBoots   \* bound: starts of the process

ASSUME ProcessAssumption ==
  Missing \notin Keyfiles /\ NoKey \notin Keyfiles /\ MaxBoots \in Nat

VARIABLES
  config,   \* the files on disk
  keyfile,  \* poolwallet.key.enc
  proc,     \* "stopped", "failed" or "up"
  settings, \* what the process has read of config
  cached    \* pool_key._CACHED: the keyfile it was loaded from, or NoKey

diskVars == <<config, keyfile>>
procVars == <<proc, settings, cached, boot>>
vars == <<authVars, diskVars, procVars>>

TypeOK ==
  /\ AuthTypeOK
  /\ config \in Configs /\ settings \in Configs
  /\ keyfile \in Keyfiles \cup {Missing} /\ cached \in Keyfiles \cup {NoKey}
  /\ proc \in {"stopped", "failed", "up"}

Init ==
  /\ AuthInit /\ boot = 0
  /\ config \in Configs /\ settings = config
  /\ keyfile \in Keyfiles \cup {Missing} /\ cached = NoKey
  /\ proc = "stopped"

-----------------------------------------------------------------------------
\* _decrypt_openssl_cbc_pbkdf2 gives a plaintext of the right size: a wrong
\* passphrase fails at the padding or at the size.
Decrypts(f, c) == f.passphrase = c.passphrase /\ f.sized

\* MUTANT of Loads: the derived address is not compared.
Loads_AnyWallet(c) ==
  c.passphrase # Unset /\ keyfile # Missing /\ Decrypts(keyfile, c)

\* pool_key.load, on an empty cache, does not raise.
Loads(c) ==
  /\ c.passphrase # Unset /\ keyfile # Missing
  /\ Decrypts(keyfile, c) /\ keyfile.address = c.pool_address

\* MUTANT of CacheAfter: _CACHED is set before the checks.
CacheAfter_Unchecked(c) == keyfile

\* _CACHED after the first call of load.
CacheAfter(c) == IF Loads(c) THEN keyfile ELSE NoKey

\* A new process: it reads its settings, and lifespan creates HotKeySigner.
Boot ==
  /\ boot < MaxBoots
  /\ boot' = boot + 1
  /\ settings' = config
  /\ seen_nonces' = {}
  /\ proc' = IF Loads(config) THEN "up" ELSE "failed"
  /\ cached' = CacheAfter(config)
  /\ UNCHANGED <<now, served, diskVars>>

\* The operator starts the service.
Start == proc = "stopped" /\ Boot

\* MUTANT of Restarts: Restart=on-abnormal, which an exit with an error code
\* is not.
Restarts_Abnormal == FALSE

\* Restart=on-failure; RestartSec=10 never reaches the start limit.
Restarts == proc = "failed"

AutoRestart == Restarts /\ Boot

\* The process dies, or the operator stops it: its memory is gone, lifespan
\* cancels the watcher and the signer.
Leave(state) ==
  /\ proc = "up"
  /\ proc' = state
  /\ cached' = NoKey /\ seen_nonces' = {}
  /\ UNCHANGED <<now, served, diskVars, settings, boot>>
Crash == Leave("failed")
Stop == Leave("stopped")

\* The operator edits a file; a running process does not notice.
EditConfig ==
  /\ config' \in Configs \ {config}
  /\ UNCHANGED <<authVars, keyfile, procVars>>
ReplaceKeyfile ==
  /\ keyfile' \in (Keyfiles \cup {Missing}) \ {keyfile}
  /\ UNCHANGED <<authVars, config, procVars>>

Deliver(q) ==
  /\ proc = "up"
  /\ \E lag \in 0..MaxLag, frac \in BOOLEAN : Verify(q, lag, frac)
  /\ UNCHANGED <<diskVars, procVars>>

Next ==
  \/ Start \/ AutoRestart \/ Crash \/ Stop \/ EditConfig \/ ReplaceKeyfile
  \/ \E q \in Requests : Deliver(q)
  \/ Tick /\ UNCHANGED <<diskVars, procVars>>

Spec == Init /\ [][Next]_vars

\* systemd restarts what failed.  Nothing is assumed of users and operator.
FairSpec == Spec /\ WF_vars(AutoRestart)

-----------------------------------------------------------------------------
(* Properties *)

\* verify_signed_request: a signed request is let through twice only by two
\* processes, or if its timestamp lay GRACE seconds or more ahead of the
\* server's clock when it was let through first (less what passes between the
\* two clock readings): else it leaves the window before the cache forgets it.
ServedTwiceOnlyIfAhead ==
  \A i, j \in DOMAIN served :
    /\ i < j /\ served[i].request = served[j].request
    /\ served[i].boot = served[j].boot
    => served[i].request.timestamp + MaxLag >= served[i].at + GRACE

\* pool_key.load: whatever the operator does to the files afterwards, a service
\* that is up has a key, and a process has no key but that of the pool address
\* it works with: a load that fails at any check leaves none in the cache.
KeyFitsSettings ==
  /\ proc = "up" => cached # NoKey
  /\ cached # NoKey => proc = "up" /\ cached.address = settings.pool_address

\* pool_key: the service auto-restarts without manual intervention.  Once the
\* operator has put passphrase, keyfile and address right, and leaves them so,
\* a failed service that has a start left does not stay down: neither is it
\* left alone nor does a start fail with the right key.
RecoversOnceKeyIsRight ==
  [](proc = "failed" /\ boot < MaxBoots /\ []Loads(config) => <>(proc = "up"))
=============================================================================

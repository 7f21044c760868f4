------------------------ MODULE ServiceProcessProofs ------------------------
(***************************************************************************)
(* Theorems about ServiceProcess, for any window, grace and requests, any  *)
(* number of starts and anything the operator does to the files.           *)
(***************************************************************************)
EXTENDS ServiceProcess, SequenceTheorems, TLAPS

Retention == TIMESTAMP_WINDOW_SECONDS + GRACE

\* The cache entry of a request that was let through.
EntryOf(e) == [nonce |-> e.request.nonce, t |-> e.at]

\* What the running process has let through is in its cache, or so old that
\* the purge may have dropped it.
Remembered(e) == EntryOf(e) \in seen_nonces \/ e.at + Retention <= now

CacheInv ==
  \A i \in DOMAIN served :
    /\ served[i].boot <= boot
    /\ served[i].boot = boot /\ proc = "up" => Remembered(served[i])

ProcessInv == TypeOK /\ CacheInv

Entries == [request : Requests, at : Nat, boot : Nat]

LEMMA Typing ==
  ASSUME TypeOK
  PROVE  /\ now \in Nat /\ boot \in Nat /\ served \in Seq(Entries)
         /\ TIMESTAMP_WINDOW_SECONDS \in Nat /\ GRACE \in Nat /\ MaxLag \in Nat
         /\ Retention \in Nat
         /\ \A i \in DOMAIN served : /\ served[i] \in Entries /\ served[i].request \in Requests
                                     /\ served[i].at \in Nat /\ served[i].boot \in Nat
<1>1. served \in Seq(Entries) /\ now \in Nat /\ boot \in Nat
  BY DEF TypeOK, AuthTypeOK, Entries
<1>2. \A i \in DOMAIN served : served[i] \in Entries
  BY <1>1
<1>3. \A i \in DOMAIN served : /\ served[i].request \in Requests
                               /\ served[i].at \in Nat /\ served[i].boot \in Nat
  BY <1>2 DEF Entries
<1> QED
  BY <1>1, <1>2, <1>3, AuthAssumption DEF Retention

LEMMA RequestTyping ==
  ASSUME NEW q \in Requests
  PROVE  q.nonce \in STRING /\ q.timestamp \in Nat
BY AuthAssumption DEF SignedRequest

\* The purge keeps every entry that is not older than Retention.
LEMMA PurgeKeeps ==
  ASSUME TypeOK, NEW s \in seen_nonces, NEW time \in Nat, NEW frac \in BOOLEAN,
         s \notin Kept(time, frac)
  PROVE  s.t + Retention <= time
<1>1. s.t \in Nat
  BY DEF TypeOK, AuthTypeOK
<1>2. Stale(s, time, frac)
  BY DEF Kept
<1> QED
  BY <1>1, <1>2, Typing DEF Stale, Retention

-----------------------------------------------------------------------------
(* One call of verify_signed_request *)

LEMMA VerifyTyped ==
  ASSUME TypeOK, NEW q \in Requests, NEW lag \in 0..MaxLag, NEW frac \in BOOLEAN,
         Verify(q, lag, frac)
  PROVE  /\ now' \in Nat /\ now' = now + lag /\ now <= now'
         /\ seen_nonces' \subseteq [nonce : STRING, t : Nat]
         /\ Kept(now + lag, frac) \subseteq seen_nonces'
         /\ served' \in Seq(Entries)
<1>1. now' = now + lag /\ now' \in Nat /\ now <= now'
  BY Typing DEF Verify
<1>2. [nonce |-> q.nonce, t |-> now] \in [nonce : STRING, t : Nat]
  BY Typing, RequestTyping
<1>3. Kept(now + lag, frac) \subseteq seen_nonces
  BY DEF Kept
<1>4. seen_nonces \subseteq [nonce : STRING, t : Nat]
  BY DEF TypeOK, AuthTypeOK
<1>5. /\ seen_nonces' \subseteq [nonce : STRING, t : Nat]
      /\ Kept(now + lag, frac) \subseteq seen_nonces'
  BY <1>2, <1>3, <1>4 DEF Verify
<1>6. [request |-> q, at |-> now, boot |-> boot] \in Entries
  BY Typing DEF Entries
<1>7. served' \in Seq(Entries)
  BY <1>6, Typing DEF Verify
<1> QED
  BY <1>1, <1>5, <1>7

\* What was remembered stays remembered.
LEMMA VerifyRemembers ==
  ASSUME TypeOK, NEW q \in Requests, NEW lag \in 0..MaxLag, NEW frac \in BOOLEAN,
         Verify(q, lag, frac), NEW e \in Entries, Remembered(e)
  PROVE  Remembered(e)'
<1>1. now' \in Nat /\ now \in Nat /\ now' = now + lag /\ now <= now' /\ Retention \in Nat
  BY VerifyTyped, Typing
<1>2. e.at \in Nat
  BY DEF Entries
<1>3. CASE e.at + Retention <= now
  BY <1>1, <1>2, <1>3 DEF Remembered
<1>4. CASE EntryOf(e) \in seen_nonces
  <2>1. EntryOf(e).t = e.at
    BY DEF EntryOf
  <2>2. CASE EntryOf(e) \in Kept(now + lag, frac)
    BY <2>2, VerifyTyped DEF Remembered
  <2>3. CASE EntryOf(e) \notin Kept(now + lag, frac)
    BY <1>1, <1>4, <2>1, <2>3, PurgeKeeps DEF Remembered
  <2> QED
    BY <2>2, <2>3
<1> QED
  BY <1>3, <1>4 DEF Remembered

\* The log grows by at most one entry, that of a request that verifies and
\* whose nonce the cache did not hold.
LEMMA VerifyLogs ==
  ASSUME TypeOK, NEW q \in Requests, NEW lag \in 0..MaxLag, NEW frac \in BOOLEAN,
         Verify(q, lag, frac), NEW j \in DOMAIN served'
  PROVE  \/ j \in DOMAIN served /\ served'[j] = served[j]
         \/ /\ j \notin DOMAIN served /\ \A i \in DOMAIN served : served'[i] = served[i]
            /\ \A i \in DOMAIN served' : i < j => i \in DOMAIN served
            /\ served'[j] = [request |-> q, at |-> now, boot |-> boot]
            /\ EntryOf(served'[j]) \in seen_nonces'
            /\ Fresh(q, Kept(now + lag, frac)) /\ InWindow(q)
<1> DEFINE e == [request |-> q, at |-> now, boot |-> boot]
           kept == Kept(now + lag, frac)
<1>1. CASE served' = served
  BY <1>1
<1>2. CASE served' = Append(served, e) /\ Fresh(q, kept)
  <2>1. served \in Seq(Entries) /\ e \in Entries
    BY Typing DEF Entries
  <2>2. /\ DOMAIN served = 1..Len(served) /\ Len(served) \in Nat
        /\ DOMAIN served' = 1..(Len(served) + 1)
        /\ served'[Len(served) + 1] = e
        /\ \A i \in DOMAIN served : served'[i] = served[i]
    BY <1>2, <2>1
  <2>3. EntryOf(e) \in seen_nonces'
    BY <1>2 DEF Verify, EntryOf
  <2>4. InWindow(q)
    BY DEF Verify
  <2> HIDE DEF e, kept
  <2>5. CASE j \in DOMAIN served
    BY <2>2, <2>5
  <2>6. CASE j \notin DOMAIN served
    <3>1. j = Len(served) + 1
      BY <2>2, <2>6
    <3>2. \A i \in DOMAIN served' : i < j => i \in DOMAIN served
      BY <2>2, <3>1
    <3> QED
      BY <1>2, <2>2, <2>3, <2>4, <2>6, <3>1, <3>2 DEF e, kept
  <2> QED
    BY <2>5, <2>6
<1> QED
  BY <1>1, <1>2 DEF Verify

\* A request that is let through again had its entry purged, and is still in
\* the window.
LEMMA AgainIsAhead ==
  ASSUME TypeOK, NEW q \in Requests, NEW lag \in 0..MaxLag, NEW frac \in BOOLEAN,
         Fresh(q, Kept(now + lag, frac)), InWindow(q),
         NEW e \in Entries, e.request = q, Remembered(e)
  PROVE  q.timestamp + MaxLag >= e.at + GRACE
<1>1. now \in Nat /\ q.timestamp \in Nat /\ e.at \in Nat /\ lag \in Nat /\ lag <= MaxLag
      /\ MaxLag \in Nat /\ GRACE \in Nat /\ TIMESTAMP_WINDOW_SECONDS \in Nat
  BY Typing, RequestTyping DEF Entries
<1>2. EntryOf(e).nonce = q.nonce /\ EntryOf(e).t = e.at
  BY DEF EntryOf
<1>3. EntryOf(e) \notin Kept(now + lag, frac)
  BY <1>2 DEF Fresh
<1>4. e.at + Retention <= now + lag
  <2>1. CASE EntryOf(e) \in seen_nonces
    BY <1>1, <1>2, <1>3, <2>1, PurgeKeeps
  <2>2. CASE e.at + Retention <= now
    BY <1>1, <2>2, Typing
  <2> QED
    BY <2>1, <2>2 DEF Remembered
<1>5. now - q.timestamp <= TIMESTAMP_WINDOW_SECONDS
  BY DEF InWindow
<1> QED
  BY <1>1, <1>4, <1>5 DEF Retention

-----------------------------------------------------------------------------
(* Steps *)

LEMMA DeliverInv ==
  ASSUME ProcessInv, NEW q \in Requests, Deliver(q)
  PROVE  ProcessInv'
<1>0. PICK lag \in 0..MaxLag, frac \in BOOLEAN : Verify(q, lag, frac)
  BY DEF Deliver
<1>1. UNCHANGED <<config, keyfile, proc, settings, cached, boot>>
  BY DEF Deliver, diskVars, procVars
<1>2. TypeOK'
  BY <1>0, <1>1, VerifyTyped DEF ProcessInv, TypeOK, AuthTypeOK, Entries
<1>3. ASSUME NEW j \in DOMAIN served'
      PROVE  /\ served'[j].boot <= boot'
             /\ served'[j].boot = boot' /\ proc' = "up" => Remembered(served[j])'
  <2>1. CASE j \in DOMAIN served /\ served'[j] = served[j]
    <3>1. PICK e \in Entries : e = served[j]
      BY <2>1, Typing DEF ProcessInv
    <3>2. served[j].boot <= boot /\ (served[j].boot = boot /\ proc = "up" => Remembered(e))
      BY <2>1, <3>1 DEF ProcessInv, CacheInv, Remembered
    <3>3. Remembered(e) => Remembered(e)'
      BY <1>0, VerifyRemembers DEF ProcessInv
    <3>4. Remembered(e)' => Remembered(served[j])'
      BY <2>1, <3>1 DEF Remembered, EntryOf
    <3> QED
      BY <1>1, <2>1, <3>2, <3>3, <3>4
  <2>2. CASE served'[j].boot = boot /\ EntryOf(served'[j]) \in seen_nonces'
    BY <1>1, <2>2, Typing DEF ProcessInv, Remembered, EntryOf
  <2> QED
    BY <1>0, <1>3, <2>1, <2>2, VerifyLogs DEF ProcessInv
<1> QED
  BY <1>2, <1>3 DEF ProcessInv, CacheInv

LEMMA DeliverTwice ==
  ASSUME ProcessInv, ServedTwiceOnlyIfAhead, NEW q \in Requests, Deliver(q)
  PROVE  ServedTwiceOnlyIfAhead'
<1>0. PICK lag \in 0..MaxLag, frac \in BOOLEAN : Verify(q, lag, frac)
  BY DEF Deliver
<1> SUFFICES ASSUME NEW i \in DOMAIN served', NEW j \in DOMAIN served', i < j,
                    served'[i].request = served'[j].request,
                    served'[i].boot = served'[j].boot
             PROVE  served'[i].request.timestamp + MaxLag >= served'[i].at + GRACE
  BY DEF ServedTwiceOnlyIfAhead
<1>1. DOMAIN served' \subseteq Nat /\ DOMAIN served \subseteq Nat
  BY <1>0, VerifyTyped, Typing DEF ProcessInv
<1>2. CASE j \in DOMAIN served /\ served'[j] = served[j]
  <2>1. i \in DOMAIN served /\ served'[i] = served[i]
    <3>1. i \in DOMAIN served
      <4>1. DOMAIN served = 1..Len(served) /\ Len(served) \in Nat /\ i \in Nat
        BY <1>1, Typing DEF ProcessInv
      <4>2. DOMAIN served' = 1..Len(served')
        BY <1>0, VerifyTyped DEF ProcessInv
      <4> QED
        BY <1>2, <4>1, <4>2
    <3> QED
      BY <1>0, <3>1, VerifyLogs DEF ProcessInv
  <2> QED
    BY <1>2, <2>1 DEF ServedTwiceOnlyIfAhead
<1>3. CASE /\ \A k \in DOMAIN served : served'[k] = served[k]
           /\ i \in DOMAIN served
           /\ served'[j] = [request |-> q, at |-> now, boot |-> boot]
           /\ Fresh(q, Kept(now + lag, frac)) /\ InWindow(q)
  <2>1. served'[i] = served[i] /\ served[i] \in Entries
    BY <1>3, Typing DEF ProcessInv
  <2>2. served[i].request = q /\ served[i].boot = boot
    BY <1>3, <2>1
  <2>3. Remembered(served[i])
    BY <1>3, <2>2 DEF ProcessInv, CacheInv, Deliver
  <2> QED
    BY <1>3, <2>1, <2>2, <2>3, AgainIsAhead DEF ProcessInv
<1> QED
  BY <1>0, <1>2, <1>3, VerifyLogs DEF ProcessInv

\* A new process starts with an empty cache and a number of its own.
LEMMA BootInv ==
  ASSUME ProcessInv, Boot
  PROVE  ProcessInv'
<1>1. /\ boot' = boot + 1 /\ UNCHANGED <<now, served, config, keyfile>>
      /\ settings' = config /\ seen_nonces' = {}
  BY DEF Boot, diskVars
<1>2. proc' \in {"failed", "up"} /\ cached' \in Keyfiles \cup {NoKey}
  BY DEF Boot, CacheAfter, Loads, ProcessInv, TypeOK
<1>3. boot \in Nat
  BY Typing DEF ProcessInv
<1>4. TypeOK'
  BY <1>1, <1>2, <1>3 DEF ProcessInv, TypeOK, AuthTypeOK
<1>5. \A i \in DOMAIN served : served[i].boot < boot'
  BY <1>1, <1>3, Typing DEF ProcessInv, CacheInv
<1>6. CacheInv'
  <2>1. \A i \in DOMAIN served : served[i].boot # boot' /\ served[i].boot <= boot'
    BY <1>1, <1>3, <1>5, Typing DEF ProcessInv
  <2> QED
    BY <1>1, <2>1 DEF CacheInv
<1> QED
  BY <1>4, <1>6 DEF ProcessInv

LEMMA LeaveInv ==
  ASSUME ProcessInv, Crash \/ Stop
  PROVE  ProcessInv'
<1>1. /\ proc' \in {"failed", "stopped"} /\ cached' = NoKey /\ seen_nonces' = {}
      /\ UNCHANGED <<now, served, config, keyfile, settings, boot>>
  BY DEF Crash, Stop, Leave, diskVars
<1>2. TypeOK'
  BY <1>1 DEF ProcessInv, TypeOK, AuthTypeOK
<1>3. CacheInv'
  BY <1>1 DEF ProcessInv, CacheInv
<1> QED
  BY <1>2, <1>3 DEF ProcessInv

LEMMA TickInv ==
  ASSUME ProcessInv, Tick, UNCHANGED <<diskVars, procVars>>
  PROVE  ProcessInv'
<1>1. /\ now' = now + 1
      /\ UNCHANGED <<seen_nonces, served, config, keyfile, proc, settings, cached, boot>>
  BY DEF Tick, diskVars, procVars
<1>2. now \in Nat /\ Retention \in Nat
  BY Typing DEF ProcessInv
<1>3. TypeOK'
  BY <1>1, <1>2 DEF ProcessInv, TypeOK, AuthTypeOK
<1>4. \A i \in DOMAIN served : Remembered(served[i]) => Remembered(served[i])'
  BY <1>1, <1>2, Typing DEF ProcessInv, Remembered, EntryOf
<1>5. CacheInv'
  BY <1>1, <1>4 DEF ProcessInv, CacheInv
<1> QED
  BY <1>3, <1>5 DEF ProcessInv

LEMMA EditInv ==
  ASSUME ProcessInv, EditConfig \/ ReplaceKeyfile \/ UNCHANGED vars
  PROVE  ProcessInv'
<1>1. /\ config' \in Configs /\ keyfile' \in Keyfiles \cup {Missing}
      /\ UNCHANGED <<now, seen_nonces, served, proc, settings, cached, boot>>
  BY DEF EditConfig, ReplaceKeyfile, vars, authVars, diskVars, procVars, ProcessInv, TypeOK
<1>2. TypeOK'
  BY <1>1 DEF ProcessInv, TypeOK, AuthTypeOK
<1>3. CacheInv'
  BY <1>1 DEF ProcessInv, CacheInv, Remembered, EntryOf
<1> QED
  BY <1>2, <1>3 DEF ProcessInv

LEMMA NextProcess == ProcessInv /\ [Next]_vars => ProcessInv'
BY DeliverInv, BootInv, LeaveInv, TickInv, EditInv DEF Next, Start, AutoRestart

LEMMA InitProcess == Init => ProcessInv
<1> SUFFICES ASSUME Init PROVE ProcessInv
  OBVIOUS
<1>1. TypeOK
  BY DEF Init, AuthInit, TypeOK, AuthTypeOK
<1>2. CacheInv
  BY DEF Init, AuthInit, CacheInv
<1> QED
  BY <1>1, <1>2 DEF ProcessInv

LEMMA ProcessInvHolds == Spec => []ProcessInv
BY InitProcess, NextProcess, PTL DEF Spec

-----------------------------------------------------------------------------
(* Theorems *)

\* Auth and ServiceProcess: every variable keeps its type.
THEOREM ProcessTypeCorrect == Spec => []TypeOK
<1>1. ProcessInv => TypeOK
  BY DEF ProcessInv
<1> QED
  BY <1>1, ProcessInvHolds, PTL

LEMMA NextTwice ==
  ProcessInv /\ ServedTwiceOnlyIfAhead /\ [Next]_vars => ServedTwiceOnlyIfAhead'
<1> SUFFICES ASSUME ProcessInv, ServedTwiceOnlyIfAhead, [Next]_vars
             PROVE  ServedTwiceOnlyIfAhead'
  OBVIOUS
<1>1. ASSUME served' = served PROVE ServedTwiceOnlyIfAhead'
  BY <1>1 DEF ServedTwiceOnlyIfAhead
<1>2. CASE \E q \in Requests : Deliver(q)
  BY <1>2, DeliverTwice
<1>3. CASE ~\E q \in Requests : Deliver(q)
  <2>1. served' = served
    BY <1>3 DEF Next, Start, AutoRestart, Boot, Crash, Stop, Leave, EditConfig,
                ReplaceKeyfile, Tick, vars, authVars
  <2> QED
    BY <1>1, <2>1
<1> QED
  BY <1>2, <1>3

\* verify_signed_request: within one process, a signed request is let through
\* twice only if its wallet's clock was GRACE seconds or more ahead.
THEOREM ReplayNeedsClockAhead == Spec => []ServedTwiceOnlyIfAhead
<1>1. Init => ServedTwiceOnlyIfAhead
  BY DEF Init, AuthInit, ServedTwiceOnlyIfAhead
<1> QED
  BY <1>1, InitProcess, NextProcess, NextTwice, PTL DEF Spec

LEMMA NextKey == ProcessInv /\ KeyFitsSettings /\ [Next]_vars => KeyFitsSettings'
<1> SUFFICES ASSUME ProcessInv, KeyFitsSettings, [Next]_vars PROVE KeyFitsSettings'
  OBVIOUS
<1>1. CASE Boot
  <2>1. CASE Loads(config)
    <3>1. cached' = keyfile /\ settings' = config /\ proc' = "up"
      BY <1>1, <2>1 DEF Boot, CacheAfter
    <3>2. keyfile # Missing /\ keyfile.address = config.pool_address
      BY <2>1 DEF Loads
    <3>3. keyfile # NoKey
      BY <3>2, ProcessAssumption DEF ProcessInv, TypeOK
    <3> QED
      BY <3>1, <3>2, <3>3 DEF KeyFitsSettings
  <2>2. CASE ~Loads(config)
    <3>1. proc' = "failed" /\ cached' = NoKey
      BY <1>1, <2>2 DEF Boot, CacheAfter
    <3> QED
      BY <3>1 DEF KeyFitsSettings
  <2> QED
    BY <2>1, <2>2
<1>2. CASE Crash \/ Stop
  <2>1. proc' \in {"failed", "stopped"} /\ cached' = NoKey
    BY <1>2 DEF Crash, Stop, Leave
  <2> QED
    BY <2>1 DEF KeyFitsSettings
<1>3. ASSUME UNCHANGED <<proc, settings, cached>> PROVE KeyFitsSettings'
  BY <1>3 DEF KeyFitsSettings
<1>4. CASE \/ EditConfig \/ ReplaceKeyfile \/ UNCHANGED vars
           \/ \E q \in Requests : Deliver(q)
           \/ Tick /\ UNCHANGED <<diskVars, procVars>>
  BY <1>3, <1>4 DEF EditConfig, ReplaceKeyfile, vars, procVars, Deliver
<1> QED
  BY <1>1, <1>2, <1>4 DEF Next, Start, AutoRestart

\* pool_key.load and lifespan: a service that is up signs with the key of the
\* pool address it was started with, whatever is done to the files meanwhile,
\* and a load that fails leaves no key in the cache.
THEOREM SignsForThePool == Spec => []KeyFitsSettings
<1>1. Init => KeyFitsSettings
  BY DEF Init, KeyFitsSettings
<1> QED
  BY <1>1, InitProcess, NextProcess, NextKey, PTL DEF Spec
=============================================================================

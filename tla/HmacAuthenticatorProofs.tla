---------------------- MODULE HmacAuthenticatorProofs ----------------------
(***************************************************************************)
(* Theorems about HmacAuthenticator, for every progress of the clock.  The *)
(* cache keeps what it is given for the TTL under any settings; that no    *)
(* nonce is accepted again after that takes SafeSettings, a hypothesis     *)
(* here since the code does not check it.                                  *)
(***************************************************************************)
EXTENDS HmacAuthenticator, TLAPS

\* A nonce whose acceptance window has passed stays out of it.
LEMMA TooOldIsRefused ==
  ASSUME NEW n \in Int, NEW ts \in Int, now \in Nat,
         n < (Seconds - Tolerance - Threshold) * 1000,
         TimestampValid(ts)
  PROVE  ~NonceInWindow(n, ts)
BY AuthAssumption DEF Seconds, TimestampValid, Distance, NonceInWindow

\* An accepted nonce is at most two tolerances ahead of the clock.
LEMMA AcceptedIsBounded ==
  ASSUME NEW n \in Int, NEW ts \in Int, now \in Nat,
         TimestampValid(ts), NonceInWindow(n, ts)
  PROVE  n <= (Seconds + 2 * Tolerance) * 1000
BY AuthAssumption DEF Seconds, TimestampValid, Distance, NonceInWindow

\* When the entry of such a nonce expires, its window has passed.
LEMMA ExpiredIsTooOld ==
  ASSUME NEW n \in Int, NEW e \in Nat, now \in Nat, now >= e,
         n <= (e \div 1000 - TTL + 2 * Tolerance) * 1000, SafeSettings
  PROVE  n < (Seconds - Tolerance - Threshold) * 1000
BY AuthAssumption DEF Seconds, SafeSettings

\* What has() and cleanup() leave: entries are kept or, if expired, dropped.
Dropped ==
  /\ UNCHANGED <<now, acceptedAt>>
  /\ cache' \in [Nonces -> Nat \cup {NotCached}]
  /\ \A n \in Nonces : cache'[n] = cache[n] \/ (Expired(n) /\ cache'[n] = NotCached)

LEMMA HasDrops ==
  ASSUME TypeOK, NEW n \in Nonces, cache' = CacheAfterHas(n), UNCHANGED <<now, acceptedAt>>
  PROVE  Dropped
BY DEF TypeOK, CacheAfterHas, Dropped

\* Every step but Tick and the acceptance of a plain nonce drops at most.
LEMMA StepDrops ==
  ASSUME TypeOK, [Next]_vars
  PROVE  \/ Tick \/ Dropped
         \/ \E n \in Nonces, ts \in Timestamps : Accept(n, ts, "plain")
<1>1. CASE Cleanup
  BY <1>1 DEF TypeOK, Cleanup, Dropped, history
<1>2. ASSUME NEW n \in Nonces, NEW ts \in Timestamps, NEW signed \in BOOLEAN,
             Reject(n, ts, signed)
      PROVE  Dropped
  BY <1>2, HasDrops DEF Reject, history
<1>3. ASSUME NEW n \in Nonces, NEW ts \in Timestamps, Accept(n, ts, "other")
      PROVE  Dropped
  <2>1. cache' = CacheAfterHas(n) /\ UNCHANGED <<now, acceptedAt>>
    BY <1>3 DEF Accept
  <2>2. QED
    BY <2>1, HasDrops
<1>4. CASE UNCHANGED vars
  BY <1>4 DEF TypeOK, vars, history, Dropped
<1>5. QED
  BY <1>1, <1>2, <1>3, <1>4 DEF Next, Malformed, Spellings

LEMMA PlainAcceptance ==
  ASSUME TypeOK, NEW n \in Nonces, NEW ts \in Timestamps, Accept(n, ts, "plain")
  PROVE  /\ TimestampValid(ts) /\ NonceInWindow(n, ts) /\ ~Has(n)
         /\ cache' = [cache EXCEPT ![n] = now + TTL * 1000]
         /\ acceptedAt' = [acceptedAt EXCEPT ![n] = now]
         /\ now' = now
         /\ now + TTL * 1000 \in Nat
BY AuthAssumption DEF Accept, TypeOK

LEMMA StepType == TypeOK /\ [Next]_vars => TypeOK'
<1> SUFFICES ASSUME TypeOK, [Next]_vars PROVE TypeOK'
  OBVIOUS
<1> DEFINE Main == /\ now \in Nat
                   /\ cache \in [Nonces -> Nat \cup {NotCached}]
                   /\ \A n \in Nonces : cache[n] <= now + TTL * 1000
                   /\ acceptedAt \in [Nonces -> Nat \cup {Never}]
<1>0. TTL \in Nat /\ \A n \in Nonces : cache[n] \in Int
  BY AuthAssumption DEF TypeOK, NotCached
<1>1. ASSUME Dropped PROVE Main'
  <2>1. now' = now /\ now \in Nat /\ NotCached <= now + TTL * 1000
    BY <1>0, <1>1 DEF Dropped, TypeOK, NotCached
  <2>2. \A n \in Nonces : cache'[n] <= now' + TTL * 1000
    BY <1>1, <2>1 DEF Dropped, TypeOK
  <2>3. QED
    BY <1>1, <2>2 DEF Dropped, TypeOK
<1>2. ASSUME Tick PROVE Main'
  <2>1. PICK d \in Nat : now' = now + d
    BY <1>2, AuthAssumption DEF Tick
  <2>2. \A n \in Nonces : cache[n] <= now + TTL * 1000
    BY DEF TypeOK
  <2>3. now \in Nat /\ now' \in Nat
    BY <2>1 DEF TypeOK
  <2>4. \A n \in Nonces : cache[n] <= now' + TTL * 1000
    BY <1>0, <2>1, <2>2, <2>3
  <2>5. QED
    BY <1>2, <2>3, <2>4 DEF Tick, TypeOK, history
<1>3. ASSUME NEW n \in Nonces, NEW ts \in Timestamps, Accept(n, ts, "plain")
      PROVE  Main'
  <2>1. /\ cache' = [cache EXCEPT ![n] = now + TTL * 1000]
        /\ acceptedAt' = [acceptedAt EXCEPT ![n] = now]
        /\ now' = now /\ now + TTL * 1000 \in Nat
    BY <1>3, PlainAcceptance
  <2>2. QED
    BY <2>1 DEF TypeOK
<1>4. Main'
  BY <1>1, <1>2, <1>3, StepDrops
<1>5. replayed' \in SUBSET Nonces
  <2>1. ASSUME NEW n \in Nonces, Replay(n) PROVE replayed' \in SUBSET Nonces
    BY <2>1 DEF Replay, TypeOK
  <2>2. CASE UNCHANGED replayed
    BY <2>2 DEF TypeOK
  <2>3. QED
    BY <2>1, <2>2 DEF Next, vars, history, Malformed, Cleanup, Tick, Reject, Accept
<1>6. QED
  BY <1>4, <1>5 DEF TypeOK

\* The clock, the cache and its history keep their types, and no entry outlives
\* the TTL.
THEOREM TypeCorrect == Spec => []TypeOK
<1>1. Init => TypeOK
  BY AuthAssumption DEF Init, TypeOK, NotCached
<1>2. QED
  BY <1>1, StepType, PTL DEF Spec

-----------------------------------------------------------------------------
(* What the cache remembers                                                *)

\* A plain nonce that is not expired has the entry of its last acceptance.
EntryOfLast ==
  \A n \in Nonces :
    acceptedAt[n] # Never =>
      \/ cache[n] = acceptedAt[n] + TTL * 1000
      \/ now >= acceptedAt[n] + TTL * 1000

LEMMA StepEntry == TypeOK /\ EntryOfLast /\ [Next]_vars => EntryOfLast'
<1> SUFFICES ASSUME TypeOK, EntryOfLast, [Next]_vars PROVE EntryOfLast'
  OBVIOUS
<1>0. TTL \in Nat /\ \A n \in Nonces : acceptedAt[n] # Never => acceptedAt[n] \in Nat
  BY AuthAssumption DEF TypeOK
<1>1. CASE Dropped
  <2> SUFFICES ASSUME NEW n \in Nonces, acceptedAt[n] # Never
               PROVE  \/ cache'[n] = acceptedAt[n] + TTL * 1000
                      \/ now >= acceptedAt[n] + TTL * 1000
    BY <1>1 DEF Dropped, EntryOfLast
  <2>1. CASE cache'[n] = cache[n]
    BY <2>1 DEF EntryOfLast
  <2>2. CASE Expired(n)
    BY <2>2 DEF EntryOfLast, Expired
  <2>3. QED
    BY <1>1, <2>1, <2>2 DEF Dropped
<1>2. CASE Tick
  <2>1. PICK d \in Nat : now' = now + d
    BY <1>2, AuthAssumption DEF Tick
  <2>2. UNCHANGED <<cache, acceptedAt>> /\ now \in Nat
    BY <1>2 DEF Tick, history, TypeOK
  <2>3. QED
    BY <1>0, <2>1, <2>2 DEF EntryOfLast
<1>3. ASSUME NEW n \in Nonces, NEW ts \in Timestamps, Accept(n, ts, "plain")
      PROVE  EntryOfLast'
  <2>1. /\ cache' = [cache EXCEPT ![n] = now + TTL * 1000]
        /\ acceptedAt' = [acceptedAt EXCEPT ![n] = now]
        /\ now' = now
    BY <1>3, PlainAcceptance
  <2>2. QED
    BY <2>1 DEF EntryOfLast, TypeOK
<1>4. QED
  BY <1>1, <1>2, <1>3, StepDrops

\* Under any settings the cache has a nonce for the whole TTL after its acceptance
\* in the plain spelling, whatever else is checked, expires or is cleaned up.
THEOREM RemembersCorrect == Spec => []RemembersForTTL
<1>1. Init => EntryOfLast
  BY DEF Init, EntryOfLast
<1>2. TypeOK /\ EntryOfLast => RemembersForTTL
  <2> SUFFICES ASSUME TypeOK, EntryOfLast, NEW n \in Nonces, acceptedAt[n] # Never,
                      now < acceptedAt[n] + TTL * 1000
               PROVE  Has(n)
    BY DEF RemembersForTTL
  <2>1. acceptedAt[n] \in Nat /\ now \in Nat /\ TTL \in Nat
    BY AuthAssumption DEF TypeOK
  <2>2. cache[n] = acceptedAt[n] + TTL * 1000
    BY <2>1 DEF EntryOfLast
  <2>3. QED
    BY <2>1, <2>2 DEF Has, Expired, NotCached
<1>3. QED
  BY <1>1, <1>2, StepEntry, TypeCorrect, PTL DEF Spec

-----------------------------------------------------------------------------
(* No second acceptance                                                    *)

\* What is inductive, since AcceptedOnce does not say why a second acceptance is
\* refused: while an entry lives, its nonce is no newer than the clock at its
\* creation allowed, and without one an accepted nonce is too old to come back.
CacheCoversWindow ==
  \A n \in Nonces :
    acceptedAt[n] # Never =>
      \/ /\ cache[n] # NotCached
         /\ n <= (cache[n] \div 1000 - TTL + 2 * Tolerance) * 1000
      \/ n < (Seconds - Tolerance - Threshold) * 1000

LEMMA StepCovers ==
  ASSUME SafeSettings
  PROVE  TypeOK /\ CacheCoversWindow /\ [Next]_vars => CacheCoversWindow'
<1> SUFFICES ASSUME TypeOK, CacheCoversWindow, [Next]_vars PROVE CacheCoversWindow'
  OBVIOUS
<1>0. Tolerance \in Nat /\ Threshold \in Nat /\ TTL \in Nat /\ Nonces \subseteq Int
      /\ Timestamps \subseteq Int /\ now \in Nat
  BY AuthAssumption DEF TypeOK
<1>1. CASE Dropped
  <2> SUFFICES ASSUME NEW n \in Nonces, acceptedAt[n] # Never
               PROVE  \/ /\ cache'[n] # NotCached
                         /\ n <= (cache'[n] \div 1000 - TTL + 2 * Tolerance) * 1000
                      \/ n < (Seconds - Tolerance - Threshold) * 1000
    BY <1>1 DEF Dropped, CacheCoversWindow, Seconds
  <2>1. CASE cache'[n] = cache[n]
    BY <2>1 DEF CacheCoversWindow
  <2>2. CASE Expired(n)
    <3>1. n \in Int /\ cache[n] \in Nat /\ now >= cache[n]
      BY <1>0, <2>2 DEF TypeOK, Expired
    <3>2. CASE n <= (cache[n] \div 1000 - TTL + 2 * Tolerance) * 1000
      BY <1>0, <3>1, <3>2, ExpiredIsTooOld
    <3>3. QED
      BY <3>2 DEF CacheCoversWindow
  <2>3. QED
    BY <1>1, <2>1, <2>2 DEF Dropped
<1>2. CASE Tick
  <2>1. PICK d \in Nat : now' = now + d
    BY <1>2, AuthAssumption DEF Tick
  <2>2. UNCHANGED <<cache, acceptedAt>>
    BY <1>2 DEF Tick, history
  <2>3. Seconds' >= Seconds /\ Seconds \in Int /\ Seconds' \in Int
    BY <1>0, <2>1 DEF Seconds
  <2>4. ASSUME NEW n \in Nonces, n < (Seconds - Tolerance - Threshold) * 1000
        PROVE  n < (Seconds' - Tolerance - Threshold) * 1000
    BY <2>3, <2>4, AuthAssumption
  <2>5. QED
    BY <2>2, <2>4 DEF CacheCoversWindow
<1>3. ASSUME NEW n \in Nonces, NEW ts \in Timestamps, Accept(n, ts, "plain")
      PROVE  CacheCoversWindow'
  <2>1. /\ TimestampValid(ts) /\ NonceInWindow(n, ts)
        /\ cache' = [cache EXCEPT ![n] = now + TTL * 1000]
        /\ acceptedAt' = [acceptedAt EXCEPT ![n] = now]
        /\ now' = now
    BY <1>3, PlainAcceptance
  <2>2. n <= (Seconds + 2 * Tolerance) * 1000
    BY <1>0, <2>1, AcceptedIsBounded
  <2>3. cache'[n] = now + TTL * 1000
    BY <2>1 DEF TypeOK
  <2>4. (now + TTL * 1000) \div 1000 - TTL = Seconds
    BY <1>0 DEF Seconds
  <2>5. n <= (cache'[n] \div 1000 - TTL + 2 * Tolerance) * 1000 /\ cache'[n] # NotCached
    BY <1>0, <2>2, <2>3, <2>4 DEF NotCached, Seconds
  <2>6. QED
    BY <2>1, <2>5 DEF CacheCoversWindow, TypeOK, Seconds
<1>4. QED
  BY <1>1, <1>2, <1>3, StepDrops

\* A nonce whose window is covered is not accepted, in any spelling.
LEMMA NotAgain ==
  ASSUME SafeSettings, TypeOK, CacheCoversWindow,
         NEW n \in Nonces, NEW ts \in Timestamps, acceptedAt[n] # Never,
         TimestampValid(ts), NonceInWindow(n, ts), ~Has(n)
  PROVE  FALSE
<1>1. n \in Int /\ ts \in Int /\ now \in Nat
  BY AuthAssumption DEF TypeOK
<1>2. ~(n < (Seconds - Tolerance - Threshold) * 1000)
  BY <1>1, TooOldIsRefused
<1>3. cache[n] # NotCached /\ n <= (cache[n] \div 1000 - TTL + 2 * Tolerance) * 1000
  BY <1>2 DEF CacheCoversWindow
<1>4. cache[n] \in Nat /\ now >= cache[n]
  BY <1>3 DEF Has, Expired, TypeOK
<1>5. QED
  BY <1>1, <1>2, <1>3, <1>4, ExpiredIsTooOld

LEMMA StepOnce ==
  ASSUME SafeSettings
  PROVE  TypeOK /\ CacheCoversWindow /\ AcceptedOnce /\ [Next]_vars => AcceptedOnce'
<1> SUFFICES ASSUME TypeOK, CacheCoversWindow, AcceptedOnce, [Next]_vars PROVE AcceptedOnce'
  OBVIOUS
<1>1. ASSUME NEW n \in Nonces, NEW ts \in Timestamps, NEW spelling \in Spellings,
             Accept(n, ts, spelling)
      PROVE  UNCHANGED replayed
  <2>1. TimestampValid(ts) /\ NonceInWindow(n, ts) /\ ~Has(n) /\ Replay(n)
    BY <1>1 DEF Accept
  <2>2. acceptedAt[n] = Never
    BY <2>1, NotAgain
  <2>3. QED
    BY <2>1, <2>2 DEF Replay
<1>2. UNCHANGED replayed
  BY <1>1 DEF Next, vars, history, Malformed, Cleanup, Tick, Reject
<1>3. QED
  BY <1>2 DEF AcceptedOnce

\* If the TTL exceeds the threshold by three tolerances, a nonce accepted in its
\* plain spelling is not accepted again in any, whatever requests, cleanups and
\* clock readings interleave.  A TTL of the threshold does not do (NonceTTL.cfg).
THEOREM NonceAcceptedOnce == ASSUME SafeSettings PROVE Spec => []AcceptedOnce
<1>1. Init => CacheCoversWindow /\ AcceptedOnce
  BY DEF Init, AcceptedOnce, CacheCoversWindow
<1>2. QED
  BY <1>1, StepCovers, StepOnce, TypeCorrect, PTL DEF Spec
=============================================================================

------------------------- MODULE HmacAuthenticator -------------------------
(***************************************************************************)
(* lib/HmacAuthenticator.js with lib/NonceCache.js: the checks a signed    *)
(* request passes through, and the cache of the nonces already used.       *)
(*                                                                         *)
(* Times are in milliseconds where the code has milliseconds (now, nonces, *)
(* expiry) and in seconds where it has seconds (timestamps, the settings). *)
(* validateRequest has no await inside, so a request is one step.          *)
(***************************************************************************)
EXTENDS Integers

CONSTANTS Tolerance,   \* timestampTolerance, in seconds
          Threshold,   \* nonceThreshold, in seconds
          TTL,         \* nonceCacheTTL, in seconds
          Timestamps,  \* values of X-Timestamp, as parseInt reads them
          Nonces,      \* values of X-Nonce, as parseInt reads them
          Steps,       \* by how much Date.now() may advance in one step
          StartTime, MaxTime \* bounds on Date.now()

ASSUME AuthAssumption ==
  /\ {Tolerance, Threshold, TTL} \subseteq Nat
  /\ TTL > 0
  /\ Timestamps \subseteq Int
  /\ Nonces \subseteq Int
  /\ Steps \subseteq Nat
  /\ StartTime \in Nat /\ MaxTime \in Nat

\* Settings under which a nonce cannot outlive its cache entry.  The code checks
\* no such thing: the defaults meet it (60, 3600 and 7200 seconds), settings that
\* the documentation gives do not.
SafeSettings == TTL > Threshold + 3 * Tolerance

\* X-Nonce in the form Number.prototype.toString gives it back, or another
\* spelling of the same number.
Spellings == {"plain", "other"}

NotCached == -1
Never == -1

VARIABLES now,         \* Date.now()
          cache,       \* plain nonces: number -> expiryTime, or NotCached
          acceptedAt,  \* when each was last accepted in its plain spelling
          replayed     \* those accepted, in any spelling, after such an acceptance

history == <<acceptedAt, replayed>>
vars == <<now, cache, history>>

TypeOK ==
  /\ now \in Nat
  /\ cache \in [Nonces -> Nat \cup {NotCached}]
  /\ \A n \in Nonces : cache[n] <= now + TTL * 1000
  /\ acceptedAt \in [Nonces -> Nat \cup {Never}]
  /\ replayed \in SUBSET Nonces

Init ==
  /\ now = StartTime
  /\ cache = [n \in Nonces |-> NotCached]
  /\ acceptedAt = [n \in Nonces |-> Never]
  /\ replayed = {}

\* What can be wrong with a header before its value counts: it is absent, or
\* not of its form (HMAC sha256=<hex>; a number).
Header == {"absent", "malformed", "good"}
HeaderSet == [authorization : Header, timestamp : Header, nonce : Header]

\* extractHeaders wants all three, parseAuthorizationHeader and the two isNaN
\* checks want each in its form.
WellFormed(h) == h = [authorization |-> "good", timestamp |-> "good", nonce |-> "good"]

\* The request is stopped there, before the cache is consulted.
Malformed(h) ==
  /\ ~WellFormed(h)
  /\ UNCHANGED vars

Seconds == now \div 1000
Distance(a, b) == IF a >= b THEN a - b ELSE b - a

\* validateTimestamp
TimestampValid(ts) == Distance(Seconds, ts) <= Tolerance

\* validateNonce, its two window checks
NonceInWindow(n, ts) ==
  /\ n >= (ts - Threshold) * 1000
  /\ n <= (ts + Tolerance) * 1000

Expired(n) == cache[n] # NotCached /\ now >= cache[n]

\* NonceCache.has looks the parsed number up.
Has(n) == cache[n] # NotCached /\ ~Expired(n)

\* Mutant of CacheAfterHas: has() deletes whatever entry it finds.
CacheAfterHasAny(n) == [cache EXCEPT ![n] = NotCached]

\* has() deletes the entry it finds expired.
CacheAfterHas(n) == IF Expired(n) THEN [cache EXCEPT ![n] = NotCached] ELSE cache

\* The request is stopped by the replay check or by the signature, after has().
Reject(n, ts, signed) ==
  /\ TimestampValid(ts)
  /\ NonceInWindow(n, ts)
  /\ Has(n) \/ ~signed
  /\ cache' = CacheAfterHas(n)
  /\ UNCHANGED <<now, history>>

Replay(n) == replayed' = IF acceptedAt[n] = Never THEN replayed ELSE replayed \cup {n}

\* Mutants of Accept: the TTL is not converted to milliseconds; it is counted
\* from the nonce.
AcceptUntil(n, ts, spelling, expiryTime) ==
  /\ TimestampValid(ts) /\ NonceInWindow(n, ts) /\ ~Has(n)
  /\ spelling = "plain"
  /\ cache' = [cache EXCEPT ![n] = expiryTime]
  /\ acceptedAt' = [acceptedAt EXCEPT ![n] = now]
  /\ Replay(n)
  /\ UNCHANGED now
AcceptInSeconds(n, ts, spelling) == AcceptUntil(n, ts, spelling, now + TTL)
AcceptFromNonce(n, ts, spelling) == AcceptUntil(n, ts, spelling, n + TTL * 1000)

\* The request is accepted: add() stores the header as it was spelt, under a
\* key has() looks up only if the spelling is the plain one.
Accept(n, ts, spelling) ==
  /\ TimestampValid(ts)
  /\ NonceInWindow(n, ts)
  /\ ~Has(n)
  /\ \/ /\ spelling = "plain"
        /\ cache' = [cache EXCEPT ![n] = now + TTL * 1000]
        /\ acceptedAt' = [acceptedAt EXCEPT ![n] = now]
     \/ /\ spelling = "other"
        /\ cache' = CacheAfterHas(n)
        /\ UNCHANGED acceptedAt
  /\ Replay(n)
  /\ UNCHANGED now

\* Mutant of Cleanup: the comparison is reversed.
CleanupReversed ==
  /\ cache' = [n \in Nonces |-> IF now < cache[n] THEN NotCached ELSE cache[n]]
  /\ UNCHANGED <<now, history>>

\* cleanup(), on its interval
Cleanup ==
  /\ cache' = [n \in Nonces |-> IF Expired(n) THEN NotCached ELSE cache[n]]
  /\ UNCHANGED <<now, history>>

\* The clock never goes back.
Tick ==
  /\ \E d \in Steps : now + d <= MaxTime /\ now' = now + d
  /\ UNCHANGED <<cache, history>>

Next ==
  \/ Cleanup \/ Tick
  \/ \E h \in HeaderSet : Malformed(h)
  \/ \E n \in Nonces, ts \in Timestamps :
       \/ \E signed \in BOOLEAN : Reject(n, ts, signed)
       \/ \E spelling \in Spellings : Accept(n, ts, spelling)

Spec == Init /\ [][Next]_vars
FairSpec == Spec /\ WF_vars(Cleanup)

-----------------------------------------------------------------------------
\* A nonce that was accepted in its plain spelling is not accepted again, in
\* this spelling or another: by the time its entry has expired every timestamp
\* that could carry it is out of tolerance, although the window is measured from
\* the timestamp and the entry's life from the clock.  It takes SafeSettings.
AcceptedOnce == replayed = {}

\* For the whole TTL after such an acceptance the cache has the nonce, whatever
\* replays, requests that fail, other spellings and cleanups come in between.
RemembersForTTL ==
  \A n \in Nonces :
    acceptedAt[n] # Never /\ now < acceptedAt[n] + TTL * 1000 => Has(n)

\* Entries do not pile up: one that has expired is removed.
CacheForgets == \A n \in Nonces : Expired(n) ~> cache[n] = NotCached
=============================================================================

------------------------------ MODULE Settings ------------------------------
(***************************************************************************)
(* How lib/Client.js and server.js read their numbers from the             *)
(* environment, and what Node's setTimeout makes of them.                  *)
(*                                                                         *)
(* A variable of the environment is Unset, Garbage (text that parseInt     *)
(* cannot read; NaN once it was read) or the integer parseInt finds in it. *)
(***************************************************************************)
EXTENDS Integers

CONSTANTS Unset, Garbage,
          DefaultGrace,      \* DEFAULT_GRACE_PERIOD, 30000 in the code
          DefaultMaxGrace,   \* 300000
          DefaultWsTimeout,  \* 10000
          TimeoutMax         \* longest delay of setTimeout, 2147483647 ms

ASSUME SettingsAssumption ==
  /\ {Unset, Garbage} \cap Int = {}
  /\ {DefaultGrace, DefaultMaxGrace, DefaultWsTimeout, TimeoutMax} \subseteq Nat \ {0}
  /\ DefaultGrace <= TimeoutMax /\ DefaultMaxGrace <= TimeoutMax

EnvValue == Int \cup {Unset, Garbage}

Lesser(a, b) == IF a <= b THEN a ELSE b
Greater(a, b) == IF a >= b THEN a ELSE b

\* LT_MAX_GRACE_PERIOD: what is not a positive number is ignored.
getMaxGracePeriod(env) ==
  IF env \in {Unset, Garbage} \/ env <= 0 THEN DefaultMaxGrace ELSE env

\* Mutant of getGracePeriod: the maximum is not applied.
getGracePeriodUnclamped(env, maxEnv) ==
  IF env \in {Unset, Garbage} \/ env < 0 THEN DefaultGrace ELSE env

\* LT_GRACE_PERIOD: 0 is allowed, the maximum clamps what was configured, and
\* the default is taken as it is.
getGracePeriod(env, maxEnv) ==
  IF env \in {Unset, Garbage} \/ env < 0 THEN DefaultGrace
  ELSE Lesser(env, getMaxGracePeriod(maxEnv))

\* WEBSOCKET_TIMEOUT of server.js: parseInt without a check.
webSocketTimeout(env) == IF env = Unset THEN DefaultWsTimeout ELSE env

\* setTimeout: a delay that is not in its range, NaN included, becomes 1.
TimerDelay(d) == IF d \in 1..TimeoutMax THEN d ELSE 1
=============================================================================

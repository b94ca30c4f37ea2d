----------------------------- MODULE GraceClock -----------------------------
(***************************************************************************)
(* The timers of one Client against the clock: the grace timer of          *)
(* lib/Client.js, the waits of upgrades that server.js bounds with         *)
(* getGracePeriodRemaining, and the advice ("Try again in ...s",           *)
(* Retry-After) made from it.                                              *)
(*                                                                         *)
(* Time is in units of setTimeout, Second of them to a second (1000 in the *)
(* code).  A timer fires when the clock reads its deadline: the lateness   *)
(* of a busy event loop is left out.                                       *)
(***************************************************************************)
EXTENDS Settings

CONSTANTS Second,      \* units in one second
          Upgrades,    \* upgrades that may wait for the client
          GraceEnv, MaxGraceEnv, WsEnv, \* what the environment may hold
          MaxTime      \* bound on Date.now()

ASSUME ClockAssumption ==
  /\ Second \in Nat \ {0}
  /\ MaxTime \in Nat
  /\ GraceEnv \subseteq EnvValue
  /\ MaxGraceEnv \subseteq {v \in EnvValue : v \in Int => v <= TimeoutMax}
  /\ WsEnv \subseteq EnvValue

NoTimer == -1   \* no timer, no advice
StartTime == 1

VARIABLES
  now,           \* Date.now()
  env,           \* the settings the process was started with
  life,          \* the client: none, mapped, removed
  createdAt,     \* client.createdAt
  immediate,     \* the setImmediate of its constructor has not run
  isOnline,      \* client.isOnline
  graceTimeout,  \* client.graceTimeout: its deadline, or NoTimer
  offlineSince,  \* when the client was last without a connection
  wait,          \* the deadline of each waitForClientOnline, or NoTimer
  advice,        \* seconds in the last advice, or NoTimer
  advisedAt      \* when it was given

clientVars == <<life, createdAt, immediate, isOnline, graceTimeout, offlineSince>>
adviceVars == <<advice, advisedAt>>
vars == <<now, env, clientVars, wait, adviceVars>>

GracePeriod == getGracePeriod(env.grace, env.maxGrace)

\* Deadlines and advice are numbers, and a deadline is not in the past.
TypeOK ==
  /\ now \in Nat
  /\ env \in [grace : GraceEnv, maxGrace : MaxGraceEnv, ws : WsEnv]
  /\ life \in {"none", "mapped", "removed"}
  /\ createdAt \in Nat /\ offlineSince \in Nat /\ advisedAt \in Nat
  /\ {immediate, isOnline} \subseteq BOOLEAN
  /\ graceTimeout \in Nat \cup {NoTimer}
  /\ wait \in [Upgrades -> Nat \cup {NoTimer}]
  /\ advice \in Nat \cup {NoTimer}
  /\ \A t \in {graceTimeout} \cup {wait[u] : u \in Upgrades} : t # NoTimer => now <= t

Init ==
  /\ now = StartTime
  /\ env \in [grace : GraceEnv, maxGrace : MaxGraceEnv, ws : WsEnv]
  /\ life = "none"
  /\ createdAt = 0 /\ offlineSince = 0
  /\ immediate = FALSE /\ isOnline = FALSE
  /\ graceTimeout = NoTimer
  /\ wait = [u \in Upgrades |-> NoTimer]
  /\ advice = NoTimer /\ advisedAt = 0

-----------------------------------------------------------------------------
(* The client                                                              *)

NewClient ==
  /\ life = "none"
  /\ life' = "mapped"
  /\ createdAt' = now /\ offlineSince' = now
  /\ immediate' = TRUE
  /\ UNCHANGED <<now, env, isOnline, graceTimeout, wait, adviceVars>>

\* _setGracePeriod: when the timer it sets will fire.
Deadline == now + TimerDelay(GracePeriod)

\* The setImmediate of the constructor, of a client that was removed meanwhile as
\* well, whose timer is then set once more.
RunImmediate ==
  /\ immediate
  /\ immediate' = FALSE
  /\ graceTimeout' = IF isOnline THEN graceTimeout ELSE Deadline
  /\ UNCHANGED <<now, env, life, createdAt, isOnline, offlineSince, wait, adviceVars>>

\* Mutant of Online: the timer keeps running.
OnlineKeepsTimer ==
  /\ life = "mapped" /\ ~immediate /\ ~isOnline
  /\ isOnline' = TRUE
  /\ advice' = NoTimer
  /\ UNCHANGED <<now, env, life, createdAt, immediate, graceTimeout, offlineSince, wait, advisedAt>>

\* 'online': the first socket.  The advice given before has been overtaken.
Online ==
  /\ life = "mapped"
  /\ ~immediate
  /\ ~isOnline
  /\ isOnline' = TRUE
  /\ graceTimeout' = NoTimer
  /\ advice' = NoTimer
  /\ UNCHANGED <<now, env, life, createdAt, immediate, offlineSince, wait, advisedAt>>

\* 'offline': the last socket, of a client that was removed as well.
Offline ==
  /\ isOnline
  /\ isOnline' = FALSE
  /\ offlineSince' = now
  /\ graceTimeout' = Deadline
  /\ UNCHANGED <<now, env, life, createdAt, immediate, wait, adviceVars>>

\* The grace timer: close(), and removal from the map.
GraceExpired ==
  /\ graceTimeout = now
  /\ graceTimeout' = NoTimer
  /\ life' = "removed"
  /\ UNCHANGED <<now, env, createdAt, immediate, isOnline, offlineSince, wait, adviceVars>>

\* removeClient, for its owner's next client.
Replaced ==
  /\ life = "mapped"
  /\ graceTimeout' = NoTimer
  /\ life' = "removed"
  /\ UNCHANGED <<now, env, createdAt, immediate, isOnline, offlineSince, wait, adviceVars>>

-----------------------------------------------------------------------------
(* What is made of the time that remains                                   *)

\* Mutant of getGracePeriodRemaining: no Math.max.
RemainingUnbounded ==
  IF graceTimeout = NoTimer THEN 0 ELSE GracePeriod - (now - createdAt)

\* It counts from the client's creation, whenever the timer was set.
getGracePeriodRemaining ==
  IF graceTimeout = NoTimer THEN 0 ELSE Greater(0, GracePeriod - (now - createdAt))

InGrace == life = "mapped" /\ ~isOnline /\ graceTimeout # NoTimer

\* Mutant of Ceil: Math.floor.
Floor(t) == t \div Second

\* Math.ceil(t / 1000)
Ceil(t) == (t + Second - 1) \div Second

\* newClient in strict mode for another identity.  A request in CASE 2 is told
\* the same number in its Retry-After.
Refused ==
  /\ InGrace
  /\ advice' = Ceil(getGracePeriodRemaining)
  /\ advisedAt' = now
  /\ UNCHANGED <<now, env, clientVars, wait>>

\* Math.min(WEBSOCKET_TIMEOUT, gracePeriodRemaining), NaN if the first is NaN.
waitTime ==
  LET ws == webSocketTimeout(env.ws)
  IN IF ws = Garbage THEN Garbage ELSE Lesser(ws, getGracePeriodRemaining)

\* Mutant of UpgradeOffline: the grace period does not limit the wait.
UpgradeOfflineFull(u) ==
  /\ InGrace /\ wait[u] = NoTimer
  /\ wait' = [wait EXCEPT ![u] = now + TimerDelay(webSocketTimeout(env.ws))]
  /\ UNCHANGED <<now, env, clientVars, adviceVars>>

\* CASE 6: await waitForClientOnline.
UpgradeOffline(u) ==
  /\ InGrace
  /\ wait[u] = NoTimer
  /\ wait' = [wait EXCEPT ![u] = now + TimerDelay(waitTime)]
  /\ UNCHANGED <<now, env, clientVars, adviceVars>>

\* Its timeout, the only end it has: 503.
OnlineTimeout(u) ==
  /\ wait[u] = now
  /\ wait' = [wait EXCEPT ![u] = NoTimer]
  /\ UNCHANGED <<now, env, clientVars, adviceVars>>

\* The clock does not pass a deadline, nor a setImmediate.
Tick ==
  /\ now < MaxTime
  /\ ~immediate
  /\ graceTimeout # now
  /\ \A u \in Upgrades : wait[u] # now
  /\ now' = now + 1
  /\ UNCHANGED <<env, clientVars, wait, adviceVars>>

ClientNext == NewClient \/ RunImmediate \/ Online \/ Offline \/ GraceExpired \/ Replaced

Next ==
  \/ ClientNext
  \/ Refused
  \/ \E u \in Upgrades : UpgradeOffline(u) \/ OnlineTimeout(u)
  \/ Tick

Spec == Init /\ [][Next]_vars

-----------------------------------------------------------------------------
(* Properties                                                              *)

\* A subdomain is removed by the timer only after its client has been without
\* a connection for the whole grace period, however often the client came and
\* went before: no timer of an earlier absence is left to fire.
ReservationKept ==
  [][GraceExpired /\ life = "mapped" =>
       ~isOnline /\ now - offlineSince >= GracePeriod]_vars

\* And it is held no longer than that (a period of 0 becomes a delay of 1), so
\* that LT_MAX_GRACE_PERIOD bounds every reservation whose LT_GRACE_PERIOD was
\* configured.  Where that is missing, misspelt or negative the default is taken,
\* which the code does not compare with the maximum: there it bounds nothing.
Configured == env.grace \notin {Unset, Garbage} /\ env.grace >= 0
HeldNoLonger ==
  life = "mapped" /\ ~isOnline =>
    LET held == now - offlineSince
    IN /\ held <= Greater(GracePeriod, 1)
       /\ Configured => held <= getMaxGracePeriod(env.maxGrace)

\* No upgrade waits for a client past the end of its reservation, but for the
\* one unit that a delay of 0 becomes.
WaitsWithinGrace ==
  graceTimeout # NoTimer => \A u \in Upgrades : wait[u] <= graceTimeout + 1

\* Who is told to try again in so many seconds is never sent past the end of the
\* reservation by a second or more, and comes too early by no more than the time
\* the client had from its creation to its last absence, which is where
\* getGracePeriodRemaining counts from: never, if it has had no connection.
AdviceBounded ==
  InGrace /\ advice # NoTimer /\ GracePeriod # 0 =>
    /\ graceTimeout <= advisedAt + Second * advice + (offlineSince - createdAt)
    /\ advisedAt + Second * advice < graceTimeout + Second

\* With the time left out this is the life that ClientLife describes.
Life == INSTANCE ClientLife
          WITH mapped <- life = "mapped", young <- immediate, online <- isOnline,
               timer <- graceTimeout # NoTimer
ImplementsLife == Life!Spec

\* "Try again in 25s": who does when they have passed is not refused again.
AdviceKept ==
  advice # NoTimer /\ Refused => now <= advisedAt + Second * advice \/ GracePeriod = 0
AdviceHolds == [][AdviceKept]_vars
=============================================================================

-------------------------- MODULE GraceClockProofs --------------------------
(***************************************************************************)
(* Theorems about GraceClock, for every setting of the environment that    *)
(* ClockAssumption allows, every number of upgrades and every length of a  *)
(* second.                                                                 *)
(***************************************************************************)
EXTENDS GraceClock, TLAPS

-----------------------------------------------------------------------------
(* The settings                                                            *)

\* Whatever the environment holds, the grace period is a number that setTimeout
\* takes as it is, unless it is 0, and at most the maximum if it was configured.
LEMMA GraceFits ==
  ASSUME NEW e \in [grace : GraceEnv, maxGrace : MaxGraceEnv, ws : WsEnv]
  PROVE  LET g == getGracePeriod(e.grace, e.maxGrace)
         IN /\ g \in Nat
            /\ getMaxGracePeriod(e.maxGrace) \in Nat \ {0}
            /\ e.grace \notin {Unset, Garbage} /\ e.grace >= 0
                 => g <= getMaxGracePeriod(e.maxGrace)
            /\ TimerDelay(g) = Greater(g, 1)
<1> DEFINE g == getGracePeriod(e.grace, e.maxGrace)
           m == getMaxGracePeriod(e.maxGrace)
<1>1. /\ DefaultGrace \in Nat /\ DefaultGrace >= 1 /\ DefaultGrace <= TimeoutMax
      /\ DefaultMaxGrace \in Nat /\ DefaultMaxGrace >= 1 /\ DefaultMaxGrace <= TimeoutMax
      /\ TimeoutMax \in Nat
  BY SettingsAssumption
<1>2. e.maxGrace \in EnvValue /\ (e.maxGrace \in Int => e.maxGrace <= TimeoutMax)
  BY ClockAssumption
<1>3. e.grace \in EnvValue
  BY ClockAssumption
<1>4. m \in Nat /\ m >= 1 /\ m <= TimeoutMax
  <2>1. CASE e.maxGrace \in {Unset, Garbage}
    BY <1>1, <2>1 DEF getMaxGracePeriod
  <2>2. CASE e.maxGrace \notin {Unset, Garbage}
    <3>1. e.maxGrace \in Int /\ e.maxGrace <= TimeoutMax
      BY <1>2, <2>2 DEF EnvValue
    <3>2. QED
      BY <1>1, <2>2, <3>1 DEF getMaxGracePeriod
  <2>3. QED
    BY <2>1, <2>2
<1>5. /\ g = DefaultGrace \/ (g \in Nat /\ g <= m)
      /\ e.grace \notin {Unset, Garbage} /\ e.grace >= 0 => g <= m
  <2>1. CASE e.grace \in {Unset, Garbage}
    BY <2>1 DEF getGracePeriod
  <2>2. CASE e.grace \notin {Unset, Garbage}
    <3>1. e.grace \in Int
      BY <1>3, <2>2 DEF EnvValue
    <3>2. g = IF e.grace < 0 THEN DefaultGrace ELSE Lesser(e.grace, m)
      BY <2>2 DEF getGracePeriod
    <3> HIDE DEF g, m
    <3>3. QED
      BY <1>4, <3>1, <3>2 DEF Lesser
  <2>3. QED
    BY <2>1, <2>2
<1> HIDE DEF g, m
<1>6. g \in Nat /\ g <= TimeoutMax
  BY <1>1, <1>4, <1>5
<1>7. TimerDelay(g) = Greater(g, 1)
  BY <1>1, <1>6 DEF TimerDelay, Greater
<1>8. QED
  BY <1>4, <1>5, <1>6, <1>7 DEF g, m

\* The same of the settings the process was started with.
LEMMA PeriodFits ==
  ASSUME TypeOK
  PROVE  /\ GracePeriod \in Nat
         /\ TimerDelay(GracePeriod) = Greater(GracePeriod, 1)
         /\ getMaxGracePeriod(env.maxGrace) \in Nat \ {0}
         /\ Configured => GracePeriod <= getMaxGracePeriod(env.maxGrace)
<1>1. env \in [grace : GraceEnv, maxGrace : MaxGraceEnv, ws : WsEnv]
  BY DEF TypeOK
<1>2. QED
  BY <1>1, GraceFits DEF GracePeriod, Configured

\* The wait of an upgrade is a number of units, 1 at least, and no more than is
\* left of the grace period, unless that is 0.
LEMMA WaitFits ==
  ASSUME TypeOK
  PROVE  /\ getGracePeriodRemaining \in Nat
         /\ TimerDelay(waitTime) \in Nat
         /\ TimerDelay(waitTime) >= 1
         /\ TimerDelay(waitTime) <= Greater(getGracePeriodRemaining, 1)
<1> DEFINE left == getGracePeriodRemaining
<1>1. GracePeriod \in Nat /\ now \in Nat /\ createdAt \in Nat /\ graceTimeout \in Int
  BY PeriodFits DEF TypeOK, NoTimer
<1>2. left \in Nat
  BY <1>1 DEF getGracePeriodRemaining, Greater
<1>3. TimeoutMax \in Nat /\ TimeoutMax >= 1 /\ DefaultWsTimeout \in Int
      /\ Garbage \notin Int
  BY SettingsAssumption
<1>4. webSocketTimeout(env.ws) \in Int \cup {Garbage}
  <2>1. env.ws \in EnvValue
    BY ClockAssumption DEF TypeOK
  <2>2. QED
    BY <1>3, <2>1 DEF EnvValue, webSocketTimeout
<1> HIDE DEF left
<1>5. CASE webSocketTimeout(env.ws) = Garbage
  <2>1. waitTime = Garbage
    BY <1>5 DEF waitTime
  <2>2. Garbage \notin 1..TimeoutMax
    BY <1>3
  <2>3. TimerDelay(waitTime) = 1
    BY <2>1, <2>2 DEF TimerDelay
  <2>4. QED
    BY <1>2, <2>3 DEF Greater, left
<1>6. CASE webSocketTimeout(env.ws) \in Int
  <2>1. waitTime = Lesser(webSocketTimeout(env.ws), left)
    BY <1>3, <1>6 DEF waitTime, left
  <2>2. waitTime \in Int /\ waitTime <= left
    BY <1>2, <1>6, <2>1 DEF Lesser
  <2>3. TimerDelay(waitTime) \in Nat /\ TimerDelay(waitTime) >= 1
        /\ (TimerDelay(waitTime) = waitTime \/ TimerDelay(waitTime) = 1)
    BY <1>3, <2>2 DEF TimerDelay
  <2>4. QED
    BY <1>2, <2>2, <2>3 DEF Greater, left
<1>7. QED
  BY <1>4, <1>5, <1>6

\* Math.ceil(t / 1000) seconds are not less than t, and less than a second more.
LEMMA CeilCovers ==
  ASSUME NEW t \in Nat
  PROVE  /\ Ceil(t) \in Nat
         /\ Second * Ceil(t) >= t /\ Second * Ceil(t) < t + Second
         /\ t = 0 => Second * Ceil(t) = 0
<1>1. Second \in Nat /\ Second >= 1
  BY ClockAssumption
<1> DEFINE q == (t + Second - 1) \div Second
<1>2. q \in Int /\ Second * q <= t + Second - 1 /\ t + Second - 1 < Second * q + Second
  BY <1>1
<1>3. q \in Nat
  BY <1>1
<1>4. t = 0 => q = 0
  BY <1>1, <1>2, <1>3
<1>5. QED
  BY <1>1, <1>2, <1>3, <1>4 DEF Ceil

-----------------------------------------------------------------------------
(* The timer and the state of the client                                   *)

\* The client the timers are about.
Born == life = "none" => ~isOnline /\ ~immediate /\ graceTimeout = NoTimer

\* createdAt, the last absence and the clock are in order, and the setImmediate
\* runs at the time the client was made.
InOrder ==
  /\ createdAt <= offlineSince
  /\ offlineSince <= now
  /\ immediate => life # "none" /\ ~isOnline /\ offlineSince = now /\ graceTimeout = NoTimer

\* A client in the map has no timer while it is online, and is otherwise one
\* grace period away from its last absence.
TimerOfAbsence ==
  life = "mapped" =>
    /\ isOnline => graceTimeout = NoTimer
    /\ ~isOnline /\ ~immediate => graceTimeout = offlineSince + TimerDelay(GracePeriod)

\* An upgrade waits until the end of the period that began with the client's
\* creation, or for one unit.
WaitBound ==
  \A u \in Upgrades : wait[u] <= createdAt + GracePeriod \/ wait[u] <= now + 1

\* The moment the last advice told to come back.
Told == advisedAt + Second * advice

\* The advice reaches to the end of the period that began with the client's
\* creation, and less than a second further, or says to come back at once.
AdviceReaches ==
  /\ life = "none" => advice = NoTimer
  /\ life = "mapped" /\ advice # NoTimer =>
       /\ createdAt + GracePeriod <= Told
       /\ Told < createdAt + GracePeriod + Second \/ Told <= now

ClockInv == TypeOK /\ Born /\ InOrder /\ TimerOfAbsence

LEMMA InitClock == Init => ClockInv /\ WaitBound /\ WaitsWithinGrace /\ AdviceReaches
<1> SUFFICES ASSUME Init
             PROVE  ClockInv /\ WaitBound /\ WaitsWithinGrace /\ AdviceReaches
  OBVIOUS
<1>1. TypeOK
  BY DEF Init, TypeOK, StartTime, NoTimer
<1>2. Born /\ InOrder /\ TimerOfAbsence
  BY DEF Init, Born, InOrder, TimerOfAbsence, StartTime
<1>3. WaitBound
  BY DEF Init, WaitBound, StartTime, NoTimer
<1>4. WaitsWithinGrace /\ AdviceReaches
  BY DEF Init, WaitsWithinGrace, AdviceReaches
<1>5. QED
  BY <1>1, <1>2, <1>3, <1>4 DEF ClockInv

\* What a timer set now will be: later than now, and not before the period ends.
LEMMA DeadlineAhead ==
  ASSUME TypeOK
  PROVE  /\ Deadline \in Nat
         /\ Deadline = now + TimerDelay(GracePeriod)
         /\ Deadline >= now + 1
         /\ Deadline >= now + GracePeriod
<1>1. now \in Nat /\ GracePeriod \in Nat /\ TimerDelay(GracePeriod) = Greater(GracePeriod, 1)
  BY PeriodFits DEF TypeOK
<1>2. QED
  BY <1>1 DEF Deadline, Greater

\* A step of the client leaves the waits as they are and takes no time.
LEMMA ClientStepClock ==
  ASSUME ClockInv, ClientNext
  PROVE  ClockInv' /\ UNCHANGED <<now, env, wait>>
<1> USE DEF ClockInv
<1>0. /\ Deadline \in Nat /\ Deadline >= now
      /\ Deadline = now + TimerDelay(GracePeriod)
      /\ now \in Nat /\ graceTimeout \in Int
  BY DeadlineAhead DEF TypeOK, NoTimer
<1>1. CASE NewClient
  <2>1. UNCHANGED <<now, env, isOnline, graceTimeout, wait, adviceVars>>
    BY <1>1 DEF NewClient
  <2>2. TypeOK'
    BY <1>1, <2>1 DEF NewClient, TypeOK, adviceVars
  <2>3. QED
    BY <1>0, <1>1, <2>1, <2>2 DEF NewClient, Born, InOrder, TimerOfAbsence
<1>2. CASE RunImmediate
  <2>1. /\ UNCHANGED <<now, env, life, createdAt, isOnline, offlineSince, wait, adviceVars>>
        /\ immediate' = FALSE
        /\ life # "none" /\ ~isOnline /\ offlineSince = now
        /\ graceTimeout' = Deadline
    BY <1>2 DEF RunImmediate, InOrder
  <2>2. TypeOK'
    BY <1>0, <2>1 DEF TypeOK, adviceVars
  <2>3. GracePeriod' = GracePeriod
    BY <2>1 DEF GracePeriod
  <2>4. QED
    BY <1>0, <2>1, <2>2, <2>3 DEF Born, InOrder, TimerOfAbsence
<1>3. CASE Online
  <2>1. /\ UNCHANGED <<now, env, life, createdAt, immediate, offlineSince, wait, advisedAt>>
        /\ life = "mapped" /\ ~immediate
        /\ isOnline' = TRUE
        /\ graceTimeout' = NoTimer /\ advice' = NoTimer
    BY <1>3 DEF Online
  <2>2. TypeOK'
    BY <2>1 DEF TypeOK, NoTimer
  <2>3. QED
    BY <2>1, <2>2 DEF Born, InOrder, TimerOfAbsence
<1>4. CASE Offline
  <2>1. /\ UNCHANGED <<now, env, life, createdAt, immediate, wait, adviceVars>>
        /\ isOnline /\ isOnline' = FALSE
        /\ offlineSince' = now /\ graceTimeout' = Deadline
    BY <1>4 DEF Offline
  <2>2. TypeOK'
    BY <1>0, <2>1 DEF TypeOK, adviceVars
  <2>3. GracePeriod' = GracePeriod
    BY <2>1 DEF GracePeriod
  <2>4. createdAt <= now
    BY <1>0 DEF InOrder, TypeOK
  <2>5. QED
    BY <1>0, <2>1, <2>2, <2>3, <2>4 DEF Born, InOrder, TimerOfAbsence
<1>5. CASE GraceExpired \/ Replaced
  <2>1. /\ UNCHANGED <<now, env, createdAt, immediate, isOnline, offlineSince, wait, adviceVars>>
        /\ life' = "removed" /\ graceTimeout' = NoTimer
    BY <1>5 DEF GraceExpired, Replaced
  <2>2. TypeOK'
    BY <2>1 DEF TypeOK, adviceVars, NoTimer
  <2>3. Born' /\ InOrder'
    BY <2>1 DEF Born, InOrder
  <2>4. QED
    BY <2>1, <2>2, <2>3 DEF TimerOfAbsence
<1>6. QED
  BY <1>1, <1>2, <1>3, <1>4, <1>5 DEF ClientNext, NewClient, RunImmediate, Online, Offline,
                                      GraceExpired, Replaced

\* The steps of the server's handlers leave the client and the clock alone.
Waits(u)   == UpgradeOffline(u) \/ OnlineTimeout(u)
HandlerStep == Refused \/ \E u \in Upgrades : Waits(u)

LEMMA HandlerStepClock ==
  ASSUME ClockInv, HandlerStep
  PROVE  ClockInv' /\ UNCHANGED <<now, env, clientVars>>
<1> USE DEF ClockInv
<1>1. UNCHANGED <<now, env, clientVars>>
  BY DEF HandlerStep, Waits, Refused, UpgradeOffline, OnlineTimeout
<1>2. (Born /\ InOrder /\ TimerOfAbsence)'
  BY <1>1 DEF clientVars, Born, InOrder, TimerOfAbsence, GracePeriod
<1>3. TypeOK'
  <2>1. CASE Refused
    <3>1. advice' \in Nat /\ advisedAt' = now /\ wait' = wait
      BY <2>1, WaitFits, CeilCovers DEF Refused
    <3>2. QED
      BY <1>1, <3>1 DEF clientVars, TypeOK
  <2>2. ASSUME NEW u \in Upgrades, UpgradeOffline(u) PROVE TypeOK'
    <3>1. /\ wait' = [wait EXCEPT ![u] = now + TimerDelay(waitTime)]
          /\ UNCHANGED adviceVars
      BY <2>2 DEF UpgradeOffline
    <3>2. now \in Nat /\ TimerDelay(waitTime) \in Nat
      BY WaitFits DEF TypeOK
    <3>3. wait' \in [Upgrades -> Nat \cup {NoTimer}]
      BY <3>1, <3>2 DEF TypeOK
    <3>4. \A w \in Upgrades : wait'[w] # NoTimer => now <= wait'[w]
      BY <3>1, <3>2 DEF TypeOK
    <3>5. QED
      BY <1>1, <3>1, <3>3, <3>4 DEF clientVars, adviceVars, TypeOK
  <2>3. ASSUME NEW u \in Upgrades, OnlineTimeout(u) PROVE TypeOK'
    <3>1. /\ wait' = [wait EXCEPT ![u] = NoTimer]
          /\ UNCHANGED adviceVars
      BY <2>3 DEF OnlineTimeout
    <3>2. wait' \in [Upgrades -> Nat \cup {NoTimer}]
      BY <3>1 DEF TypeOK
    <3>3. \A w \in Upgrades : wait'[w] # NoTimer => now <= wait'[w]
      BY <3>1 DEF TypeOK
    <3>4. QED
      BY <1>1, <3>1, <3>2, <3>3 DEF clientVars, adviceVars, TypeOK
  <2>4. QED
    BY <2>1, <2>2, <2>3 DEF HandlerStep, Waits
<1>4. QED
  BY <1>1, <1>2, <1>3

\* The clock stops at every deadline.
LEMMA TickClock ==
  ASSUME ClockInv, Tick
  PROVE  ClockInv' /\ now' = now + 1 /\ UNCHANGED <<env, clientVars, wait, adviceVars>>
<1> USE DEF ClockInv
<1>1. now' = now + 1 /\ UNCHANGED <<env, clientVars, wait, adviceVars>> /\ ~immediate
  BY DEF Tick
<1>2. graceTimeout # now /\ \A u \in Upgrades : wait[u] # now
  BY DEF Tick
<1>3. graceTimeout # NoTimer => now + 1 <= graceTimeout
  BY <1>2 DEF TypeOK, NoTimer
<1>4. \A u \in Upgrades : wait[u] # NoTimer => now + 1 <= wait[u]
  BY <1>2 DEF TypeOK, NoTimer
<1>5. TypeOK'
  BY <1>1, <1>3, <1>4 DEF TypeOK, clientVars, adviceVars
<1>6. (Born /\ InOrder /\ TimerOfAbsence)'
  <2>1. now \in Nat /\ offlineSince \in Nat
    BY DEF TypeOK
  <2>2. QED
    BY <1>1, <2>1 DEF clientVars, Born, InOrder, TimerOfAbsence, GracePeriod
<1>7. QED
  BY <1>1, <1>5, <1>6

LEMMA StepClock == ClockInv /\ [Next]_vars => ClockInv'
<1> SUFFICES ASSUME ClockInv, [Next]_vars PROVE ClockInv'
  OBVIOUS
<1>1. CASE UNCHANGED vars
  BY <1>1 DEF vars, clientVars, adviceVars, ClockInv, TypeOK, Born, InOrder, TimerOfAbsence, GracePeriod
<1>2. QED
  BY <1>1, ClientStepClock, HandlerStepClock, TickClock DEF Next, HandlerStep, Waits

LEMMA ClockInvariant == Spec => []ClockInv
<1>1. Init => ClockInv
  BY InitClock
<1>2. QED
  BY <1>1, StepClock, PTL DEF Spec

\* The clock, the timers and the advice keep their types, and no deadline is
\* passed, in every behaviour and under every setting of the environment.
THEOREM TypeCorrect == Spec => []TypeOK
<1>1. ClockInv => TypeOK
  BY DEF ClockInv
<1>2. QED
  BY <1>1, ClockInvariant, PTL

-----------------------------------------------------------------------------
(* The reservation                                                         *)

\* The grace timer removes a client that is in the map only after one whole
\* period without a connection.
THEOREM ReservationCorrect == Spec => ReservationKept
<1>1. ClockInv /\ [Next]_vars
        => [GraceExpired /\ life = "mapped" => ~isOnline /\ now - offlineSince >= GracePeriod]_vars
  <2> SUFFICES ASSUME ClockInv, GraceExpired, life = "mapped"
               PROVE  ~isOnline /\ now - offlineSince >= GracePeriod
    OBVIOUS
  <2>1. graceTimeout = now /\ now \in Nat /\ offlineSince \in Nat
    BY DEF GraceExpired, ClockInv, TypeOK
  <2>2. ~isOnline /\ ~immediate
    BY <2>1 DEF ClockInv, TimerOfAbsence, InOrder, NoTimer
  <2>3. now = offlineSince + TimerDelay(GracePeriod)
    BY <2>1, <2>2 DEF ClockInv, TimerOfAbsence
  <2>4. GracePeriod \in Nat /\ TimerDelay(GracePeriod) = Greater(GracePeriod, 1)
    BY PeriodFits DEF ClockInv
  <2>5. now - offlineSince >= GracePeriod
    BY <2>1, <2>3, <2>4 DEF Greater
  <2>6. QED
    BY <2>2, <2>5
<1>2. QED
  BY <1>1, ClockInvariant, PTL DEF Spec, ReservationKept

\* No client without a connection stays in the map longer than the grace period,
\* nor, if the period was configured, than the maximum, for any settings.
THEOREM HeldCorrect == Spec => []HeldNoLonger
<1>1. ClockInv => HeldNoLonger
  <2> SUFFICES ASSUME ClockInv, life = "mapped", ~isOnline
               PROVE  /\ now - offlineSince <= Greater(GracePeriod, 1)
                      /\ Configured => now - offlineSince <= getMaxGracePeriod(env.maxGrace)
    BY DEF HeldNoLonger
  <2> DEFINE longest == getMaxGracePeriod(env.maxGrace)
  <2>1. now \in Nat /\ offlineSince \in Nat /\ graceTimeout \in Nat \cup {NoTimer}
        /\ (graceTimeout # NoTimer => now <= graceTimeout)
    BY DEF ClockInv, TypeOK
  <2>2. /\ GracePeriod \in Nat /\ longest \in Nat /\ longest >= 1
        /\ TimerDelay(GracePeriod) = Greater(GracePeriod, 1)
        /\ Configured => GracePeriod <= longest
    BY PeriodFits DEF ClockInv
  <2> HIDE DEF longest
  <2>3. now <= offlineSince + Greater(GracePeriod, 1)
    <3>1. CASE immediate
      BY <2>1, <2>2, <3>1 DEF ClockInv, InOrder, Greater
    <3>2. CASE ~immediate
      <4>1. graceTimeout = offlineSince + TimerDelay(GracePeriod)
        BY <3>2 DEF ClockInv, TimerOfAbsence
      <4>2. QED
        BY <2>1, <2>2, <4>1 DEF Greater, NoTimer
    <3>3. QED
      BY <3>1, <3>2
  <2>4. now - offlineSince <= Greater(GracePeriod, 1)
    BY <2>1, <2>2, <2>3 DEF Greater
  <2>5. Configured => now - offlineSince <= longest
    BY <2>1, <2>2, <2>4 DEF Greater
  <2>6. QED
    BY <2>4, <2>5 DEF longest
<1>2. QED
  BY <1>1, ClockInvariant, PTL

-----------------------------------------------------------------------------
(* The waits of upgrades                                                   *)

WaitInv == WaitBound /\ WaitsWithinGrace

LEMMA ClientStepWaits ==
  ASSUME ClockInv, WaitInv, ClientNext
  PROVE  WaitInv'
<1>1. ClockInv' /\ now' = now /\ env' = env /\ wait' = wait
  BY ClientStepClock
<1>2. GracePeriod' = GracePeriod /\ GracePeriod \in Nat
  BY <1>1, PeriodFits DEF GracePeriod, ClockInv
<1>3. /\ createdAt' \in Nat /\ createdAt \in Nat /\ createdAt' >= createdAt
      /\ createdAt' <= now /\ now \in Nat
  <2>1. createdAt \in Nat /\ createdAt' \in Nat /\ offlineSince \in Nat /\ now \in Nat
    BY <1>1 DEF ClockInv, TypeOK
  <2>2. createdAt <= now
    BY <2>1 DEF ClockInv, InOrder
  <2>3. createdAt' \in {createdAt, now}
    BY DEF ClientNext, NewClient, RunImmediate, Online, Offline, GraceExpired, Replaced
  <2>4. QED
    BY <2>1, <2>2, <2>3
<1>4. \A u \in Upgrades : wait[u] \in Int
  BY DEF ClockInv, TypeOK, NoTimer
<1>5. WaitBound'
  <2> SUFFICES ASSUME NEW u \in Upgrades
               PROVE  wait[u] <= createdAt' + GracePeriod \/ wait[u] <= now + 1
    BY <1>1, <1>2 DEF WaitBound
  <2>1. wait[u] <= createdAt + GracePeriod \/ wait[u] <= now + 1
    BY DEF WaitInv, WaitBound
  <2>2. QED
    BY <1>2, <1>3, <1>4, <2>1
<1>6. WaitsWithinGrace'
  <2> SUFFICES ASSUME graceTimeout' # NoTimer, NEW u \in Upgrades
               PROVE  wait[u] <= graceTimeout' + 1
    BY <1>1 DEF WaitsWithinGrace
  <2>1. graceTimeout' \in {graceTimeout, NoTimer, Deadline}
    BY DEF ClientNext, NewClient, RunImmediate, Online, Offline, GraceExpired, Replaced
  <2>2. CASE graceTimeout' = graceTimeout
    BY <2>2 DEF WaitInv, WaitsWithinGrace
  <2>3. CASE graceTimeout' = Deadline
    <3>1. Deadline \in Nat /\ Deadline >= now + 1 /\ Deadline >= now + GracePeriod
      BY DeadlineAhead DEF ClockInv
    <3>2. wait[u] <= createdAt + GracePeriod \/ wait[u] <= now + 1
      BY DEF WaitInv, WaitBound
    <3>3. QED
      BY <1>2, <1>3, <1>4, <2>3, <3>1, <3>2
  <2>4. QED
    BY <2>1, <2>2, <2>3
<1>7. QED
  BY <1>5, <1>6 DEF WaitInv

\* A wait that begins now ends before the reservation does, or in one unit.
LEMMA WaitBegins ==
  ASSUME ClockInv, InGrace
  PROVE  /\ \/ now + TimerDelay(waitTime) <= createdAt + GracePeriod
            \/ now + TimerDelay(waitTime) <= now + 1
         /\ now + TimerDelay(waitTime) <= graceTimeout + 1
<1>1. /\ now \in Nat /\ createdAt \in Nat /\ offlineSince \in Nat /\ graceTimeout \in Nat
      /\ now <= graceTimeout /\ createdAt <= offlineSince
  BY DEF ClockInv, TypeOK, InOrder, InGrace
<1>2. /\ GracePeriod \in Nat /\ TimerDelay(GracePeriod) = Greater(GracePeriod, 1)
  BY PeriodFits DEF ClockInv
<1>3. graceTimeout = offlineSince + TimerDelay(GracePeriod)
  BY DEF ClockInv, InOrder, TimerOfAbsence, InGrace
<1>4. getGracePeriodRemaining = Greater(0, GracePeriod - (now - createdAt))
  BY DEF getGracePeriodRemaining, InGrace
<1>5. /\ TimerDelay(waitTime) \in Nat
      /\ TimerDelay(waitTime) <= Greater(getGracePeriodRemaining, 1)
  BY WaitFits DEF ClockInv
<1>6. TimerDelay(waitTime) <= 1 \/ TimerDelay(waitTime) <= GracePeriod - (now - createdAt)
  BY <1>1, <1>2, <1>4, <1>5 DEF Greater
<1>7. graceTimeout >= createdAt + GracePeriod
  BY <1>1, <1>2, <1>3 DEF Greater
<1>8. QED
  BY <1>1, <1>2, <1>5, <1>6, <1>7

LEMMA StepWaits == ClockInv /\ WaitInv /\ [Next]_vars => WaitInv'
<1> SUFFICES ASSUME ClockInv, WaitInv, [Next]_vars PROVE WaitInv'
  OBVIOUS
<1>0. /\ GracePeriod \in Nat /\ now \in Nat /\ createdAt \in Nat /\ graceTimeout \in Int
      /\ \A u \in Upgrades : wait[u] \in Int
  BY PeriodFits DEF ClockInv, TypeOK, NoTimer
<1>1. CASE UNCHANGED <<now, env, clientVars, wait>>
  BY <1>1 DEF clientVars, WaitInv, WaitBound, WaitsWithinGrace, GracePeriod
<1>2. CASE ClientNext
  BY <1>2, ClientStepWaits
<1>3. ASSUME NEW u \in Upgrades, UpgradeOffline(u) PROVE WaitInv'
  <2>1. /\ InGrace /\ UNCHANGED <<now, env, clientVars>>
        /\ wait' = [wait EXCEPT ![u] = now + TimerDelay(waitTime)]
    BY <1>3 DEF UpgradeOffline
  <2>2. /\ \/ now + TimerDelay(waitTime) <= createdAt + GracePeriod
           \/ now + TimerDelay(waitTime) <= now + 1
        /\ now + TimerDelay(waitTime) <= graceTimeout + 1
    BY <2>1, WaitBegins
  <2>3. \A w \in Upgrades : wait'[w] = wait[w] \/ wait'[w] = now + TimerDelay(waitTime)
    BY <2>1 DEF ClockInv, TypeOK
  <2>4. GracePeriod' = GracePeriod
    BY <2>1 DEF GracePeriod
  <2>5. QED
    BY <2>1, <2>2, <2>3, <2>4 DEF clientVars, WaitInv, WaitBound, WaitsWithinGrace
<1>4. ASSUME NEW u \in Upgrades, OnlineTimeout(u) PROVE WaitInv'
  <2>1. UNCHANGED <<now, env, clientVars>> /\ wait' = [wait EXCEPT ![u] = NoTimer]
    BY <1>4 DEF OnlineTimeout
  <2>2. \A w \in Upgrades : wait'[w] = wait[w] \/ wait'[w] = NoTimer
    BY <2>1 DEF ClockInv, TypeOK
  <2>3. GracePeriod' = GracePeriod
    BY <2>1 DEF GracePeriod
  <2>4. NoTimer <= now + 1 /\ (graceTimeout # NoTimer => NoTimer <= graceTimeout + 1)
    BY <1>0 DEF NoTimer, ClockInv, TypeOK
  <2>5. QED
    BY <2>1, <2>2, <2>3, <2>4 DEF clientVars, WaitInv, WaitBound, WaitsWithinGrace
<1>5. CASE Tick
  <2>1. now' = now + 1 /\ UNCHANGED <<env, clientVars, wait, adviceVars>>
    BY <1>5 DEF Tick
  <2>2. GracePeriod' = GracePeriod
    BY <2>1 DEF GracePeriod
  <2>3. WaitBound'
    <3> SUFFICES ASSUME NEW u \in Upgrades
                 PROVE  wait[u] <= createdAt + GracePeriod \/ wait[u] <= now + 1 + 1
      BY <2>1, <2>2 DEF WaitBound, clientVars
    <3>1. wait[u] <= createdAt + GracePeriod \/ wait[u] <= now + 1
      BY DEF WaitInv, WaitBound
    <3>2. QED
      BY <1>0, <3>1
  <2>4. QED
    BY <2>1, <2>3 DEF clientVars, WaitInv, WaitsWithinGrace
<1>6. QED
  <2>1. CASE Refused \/ UNCHANGED vars
    BY <1>1, <2>1 DEF Refused, vars
  <2>2. QED
    BY <1>2, <1>3, <1>4, <1>5, <2>1 DEF Next

\* No upgrade waits for a client past the end of its reservation, whatever the
\* client did before the wait began or does meanwhile.
THEOREM WaitsCorrect == Spec => []WaitsWithinGrace
<1>1. Init => WaitInv
  BY InitClock DEF WaitInv
<1>2. WaitInv => WaitsWithinGrace
  BY DEF WaitInv
<1>3. QED
  BY <1>1, <1>2, StepWaits, ClockInvariant, PTL DEF Spec

-----------------------------------------------------------------------------
(* The advice                                                              *)

LEMMA ClientStepAdvice ==
  ASSUME ClockInv, AdviceReaches, ClientNext
  PROVE  AdviceReaches'
<1>1. UNCHANGED <<now, advisedAt>> /\ advice' \in {advice, NoTimer}
  BY DEF ClientNext, NewClient, RunImmediate, Online, Offline, GraceExpired, Replaced, adviceVars
<1>2. GracePeriod' = GracePeriod
  BY ClientStepClock DEF GracePeriod
<1>3. CASE NewClient
  BY <1>3 DEF NewClient, AdviceReaches, adviceVars
<1>4. CASE Online
  BY <1>4 DEF Online, AdviceReaches
<1>5. CASE RunImmediate \/ Offline \/ GraceExpired \/ Replaced
  <2>1. /\ UNCHANGED <<createdAt, adviceVars>>
        /\ life' = life \/ life' = "removed"
    BY <1>5 DEF RunImmediate, Offline, GraceExpired, Replaced
  <2>2. QED
    BY <1>1, <1>2, <2>1 DEF AdviceReaches, Told, adviceVars
<1>6. QED
  BY <1>3, <1>4, <1>5 DEF ClientNext

LEMMA RefusedAdvice ==
  ASSUME ClockInv, Refused
  PROVE  AdviceReaches'
<1> DEFINE left == getGracePeriodRemaining
           far  == Second * Ceil(left)
<1>1. /\ InGrace /\ UNCHANGED <<now, env, clientVars>>
      /\ advice' = Ceil(left) /\ advisedAt' = now
  BY DEF Refused
<1>2. GracePeriod' = GracePeriod /\ UNCHANGED <<life, createdAt>>
  BY <1>1 DEF GracePeriod, clientVars
<1>3. Second \in Nat /\ GracePeriod \in Nat /\ now \in Nat /\ createdAt \in Nat
  BY ClockAssumption, PeriodFits DEF ClockInv, TypeOK
<1>4. left = Greater(0, GracePeriod - (now - createdAt)) /\ life = "mapped"
  BY <1>1 DEF getGracePeriodRemaining, InGrace
<1>5. left \in Nat
  BY WaitFits DEF ClockInv
<1>6. /\ Ceil(left) \in Nat /\ far >= left /\ far < left + Second
      /\ left = 0 => far = 0
  BY <1>5, CeilCovers
<1>7. Told' = now + far
  BY <1>1 DEF Told
<1>8. far \in Nat
  BY <1>3, <1>6
<1> HIDE DEF left, far
<1>9. /\ createdAt + GracePeriod <= now + far
      /\ now + far < createdAt + GracePeriod + Second \/ now + far <= now
  BY <1>3, <1>4, <1>5, <1>6, <1>8 DEF Greater
<1>10. QED
  BY <1>1, <1>2, <1>4, <1>7, <1>9 DEF AdviceReaches

LEMMA StepAdvice == ClockInv /\ AdviceReaches /\ [Next]_vars => AdviceReaches'
<1> SUFFICES ASSUME ClockInv, AdviceReaches, [Next]_vars PROVE AdviceReaches'
  OBVIOUS
<1>1. ASSUME UNCHANGED <<env, clientVars, adviceVars>>, now' \in {now, now + 1}
      PROVE  AdviceReaches'
  <2> DEFINE told == Told
  <2>1. Told' = told /\ GracePeriod' = GracePeriod /\ UNCHANGED <<life, createdAt, advice>>
    BY <1>1 DEF clientVars, adviceVars, Told, GracePeriod
  <2>2. now \in Nat
    BY DEF ClockInv, TypeOK
  <2>3. advice # NoTimer => told \in Nat
    <3>1. Second \in Nat /\ advisedAt \in Nat /\ (advice # NoTimer => advice \in Nat)
      BY ClockAssumption DEF ClockInv, TypeOK
    <3>2. QED
      BY <3>1 DEF Told
  <2> HIDE DEF told
  <2>4. told <= now /\ advice # NoTimer => told <= now'
    BY <1>1, <2>2, <2>3
  <2>5. QED
    BY <2>1, <2>4 DEF AdviceReaches, told
<1>2. CASE ClientNext
  BY <1>2, ClientStepAdvice
<1>3. CASE Refused
  BY <1>3, RefusedAdvice
<1>4. QED
  <2>1. CASE UNCHANGED vars
    BY <1>1, <2>1 DEF vars
  <2>2. ASSUME NEW u \in Upgrades, UpgradeOffline(u) \/ OnlineTimeout(u)
        PROVE  UNCHANGED <<now, env, clientVars, adviceVars>>
    BY <2>2 DEF UpgradeOffline, OnlineTimeout
  <2>3. CASE Tick
    BY <1>1, <2>3 DEF Tick
  <2>4. QED
    BY <1>1, <1>2, <1>3, <2>1, <2>2, <2>3 DEF Next

\* Nobody is told to come back a second or more after the reservation can end,
\* rounding included, and the advice is short by no more than the age the client
\* had when it was last seen: by nothing, until its first connection.
THEOREM AdviceCorrect == Spec => []AdviceBounded
<1>1. ClockInv /\ AdviceReaches => AdviceBounded
  <2> SUFFICES ASSUME ClockInv, AdviceReaches, InGrace, advice # NoTimer, GracePeriod # 0
               PROVE  /\ graceTimeout <= Told + (offlineSince - createdAt)
                      /\ Told < graceTimeout + Second
    BY DEF AdviceBounded, Told
  <2>1. life = "mapped" /\ ~isOnline /\ graceTimeout # NoTimer
    BY DEF InGrace
  <2>2. /\ now \in Nat /\ now <= graceTimeout /\ graceTimeout \in Nat
        /\ createdAt \in Nat /\ offlineSince \in Nat /\ createdAt <= offlineSince
        /\ graceTimeout = offlineSince + TimerDelay(GracePeriod)
    BY <2>1 DEF ClockInv, TypeOK, InOrder, TimerOfAbsence
  <2>3. GracePeriod \in Nat /\ TimerDelay(GracePeriod) = Greater(GracePeriod, 1)
    BY PeriodFits DEF ClockInv
  <2>4. graceTimeout = offlineSince + GracePeriod
    BY <2>2, <2>3 DEF Greater
  <2>5. /\ createdAt + GracePeriod <= Told
        /\ Told < createdAt + GracePeriod + Second \/ Told <= now
    BY <2>1 DEF AdviceReaches
  <2> DEFINE far == Second * advice
             told == Told
  <2>6. advisedAt \in Nat /\ Second \in Nat /\ Second >= 1 /\ advice \in Nat
    BY ClockAssumption DEF ClockInv, TypeOK
  <2>7. told \in Nat
    BY <2>6 DEF Told
  <2> HIDE DEF told
  <2>8. /\ graceTimeout <= told + (offlineSince - createdAt)
        /\ told < graceTimeout + Second
    <3>1. /\ createdAt + GracePeriod <= told
          /\ told < createdAt + GracePeriod + Second \/ told <= now
      BY <2>5 DEF told
    <3>2. QED
      BY <2>2, <2>3, <2>4, <2>6, <2>7, <3>1
  <2>9. QED
    BY <2>8 DEF told
<1>2. Init => AdviceReaches
  BY InitClock
<1>3. QED
  BY <1>1, <1>2, StepAdvice, ClockInvariant, PTL DEF Spec

-----------------------------------------------------------------------------
(* The client's life                                                       *)

\* Of a client that left the map as well.
OnlineHasNoTimer == isOnline => graceTimeout = NoTimer

LEMMA LifeOfClient ==
  ASSUME ClockInv, OnlineHasNoTimer, ClientNext
  PROVE  OnlineHasNoTimer' /\ [Life!Next]_Life!vars
<1> USE DEF ClockInv
<1>1. Deadline # NoTimer /\ {immediate, isOnline} \subseteq BOOLEAN /\ now # NoTimer
  BY DeadlineAhead DEF TypeOK, NoTimer
<1>2. CASE NewClient
  <2>1. Life!Born
    BY <1>2 DEF NewClient, Born, Life!Born
  <2>2. OnlineHasNoTimer'
    BY <1>2 DEF NewClient, OnlineHasNoTimer
  <2>3. QED
    BY <2>1, <2>2 DEF Life!Next
<1>3. CASE RunImmediate
  <2>1. ~isOnline
    BY <1>3 DEF RunImmediate, InOrder
  <2>2. Life!Settle /\ OnlineHasNoTimer'
    BY <1>1, <1>3, <2>1 DEF RunImmediate, OnlineHasNoTimer, Life!Settle
  <2>3. QED
    BY <2>2 DEF Life!Next
<1>4. CASE Online
  <2>1. Life!Connect /\ OnlineHasNoTimer'
    BY <1>4 DEF Online, OnlineHasNoTimer, Life!Connect
  <2>2. QED
    BY <2>1 DEF Life!Next
<1>5. CASE Offline
  <2>1. Life!Disconnect /\ OnlineHasNoTimer'
    BY <1>1, <1>5 DEF Offline, OnlineHasNoTimer, Life!Disconnect
  <2>2. QED
    BY <2>1 DEF Life!Next
<1>6. CASE GraceExpired
  <2>1. Life!Expire /\ OnlineHasNoTimer'
    BY <1>1, <1>6 DEF GraceExpired, OnlineHasNoTimer, Life!Expire
  <2>2. QED
    BY <2>1 DEF Life!Next
<1>7. CASE Replaced
  <2>1. Life!Replace /\ OnlineHasNoTimer'
    BY <1>7 DEF Replaced, OnlineHasNoTimer, Life!Replace
  <2>2. QED
    BY <2>1 DEF Life!Next
<1>8. QED
  BY <1>2, <1>3, <1>4, <1>5, <1>6, <1>7 DEF ClientNext

LEMMA StepLife ==
  ClockInv /\ OnlineHasNoTimer /\ [Next]_vars => OnlineHasNoTimer' /\ [Life!Next]_Life!vars
<1> SUFFICES ASSUME ClockInv, OnlineHasNoTimer, [Next]_vars
             PROVE  OnlineHasNoTimer' /\ [Life!Next]_Life!vars
  OBVIOUS
<1>1. CASE ClientNext
  BY <1>1, LifeOfClient
<1>2. CASE UNCHANGED clientVars
  BY <1>2 DEF clientVars, OnlineHasNoTimer, Life!vars
<1>3. QED
  BY <1>1, <1>2, HandlerStepClock, TickClock DEF Next, HandlerStep, Waits, vars

\* With deadlines in place of the event loop's order the client still lives as
\* ClientLife says, for any settings: the reservations, waits and advice proved
\* about here are those of the client that PublicServer and ClientManager have.
THEOREM ClientLifeImplemented == Spec => ImplementsLife
<1>1. Init => OnlineHasNoTimer /\ Life!Init
  BY DEF Init, OnlineHasNoTimer, Life!Init
<1>2. QED
  BY <1>1, StepLife, ClockInvariant, PTL DEF Spec, ImplementsLife, Life!Spec
=============================================================================

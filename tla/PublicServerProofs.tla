------------------------- MODULE PublicServerProofs -------------------------
(***************************************************************************)
(* Theorems about PublicServer, for every set of sockets and callers and   *)
(* every limit: with the agent's theorems, isOnline is exact, the queue    *)
(* stays short and the client lives as ClientLife says.                    *)
(***************************************************************************)
EXTENDS PublicServer, PoolProofs

-----------------------------------------------------------------------------
(* The server's steps as steps of the agent                                *)

LEMMA StepImplements == [PublicNext]_publicVars => [Next]_vars
<1> SUFFICES ASSUME [PublicNext]_publicVars PROVE [Next]_vars
  OBVIOUS
<1>1. CASE ClientNext
  BY <1>1 DEF ClientNext, NewClient, RunImmediate, GraceExpired, Replaced, Close, Next
<1>2. ASSUME NEW s \in Sockets, SocketEvents(s) PROVE [Next]_vars
  BY <1>2 DEF SocketEvents, SocketConnects, SocketCloses, SocketNext, Next
<1>3. ASSUME NEW c \in HttpCallers, RequestNext(c) PROVE [Next]_vars
  <2>1. c \in Callers
    BY DEF Callers
  <2>2. UNCHANGED vars \/ HttpRequest(c) \/ HttpReuse(c)
    BY <1>3 DEF RequestNext, RequestOffline, RequestBusy, RequestHandled
  <2>3. QED
    BY <2>1, <2>2 DEF CallerNext, Next
<1>4. ASSUME NEW u \in UpgradeCallers, UpgradeNext(u) PROVE [Next]_vars
  <2>1. u \in Callers
    BY DEF Callers
  <2>2. UNCHANGED vars \/ Upgrade(u) \/ UpgradeGone(u)
    BY <1>4 DEF UpgradeNext, UpgradeOffline, UpgradeBusy, UpgradeHandled,
                OnlineTimeout, SocketPoll, SocketTimeout
  <2>3. QED
    BY <2>1, <2>2 DEF CallerNext, Next
<1>5. CASE Unseen(AgentAlone)
  BY <1>5 DEF Unseen, AgentAlone, SocketNext, CallerNext, Next
<1>6. CASE UNCHANGED publicVars
  BY <1>6 DEF publicVars
<1>7. QED
  BY <1>1, <1>2, <1>3, <1>4, <1>5, <1>6 DEF PublicNext

LEMMA ServerUsesAgent == PublicSpec => Spec
<1>1. PublicInit => Init
  BY DEF PublicInit
<1>2. QED
  BY <1>1, StepImplements, PTL DEF PublicSpec, Spec

\* What PoolProofs shows of the agent for any order of calls holds under the
\* handlers of server.js and with the removal of clients: sockets are exclusive and
\* accounted for, callbacks are called once, a due answer stays due until given,
\* and the leases of sockets are those of SocketLease.
THEOREM ServerKeepsPool ==
  PublicSpec => /\ [](PoolOrQueueEmpty /\ CountExact)
                /\ [](ExclusiveSockets /\ SocketsAccounted /\ CallbackOnce /\ ClosedIsQuiet)
                /\ DueStaysDue /\ ImplementsLease
BY ServerUsesAgent, NoLostWakeup, CountCorrect, ExclusiveCorrect, SocketsCorrect,
   CallbackCorrect, QuietCorrect, DueCorrect, LeaseImplemented, PTL

-----------------------------------------------------------------------------
(* Online means connected                                                  *)

PublicBooleans == {mapped, immediate, isOnline, graceTimeout} \subseteq BOOLEAN

PublicInv == PublicBooleans /\ OnlineIsConnected

\* What OnlineIsConnected says of the agent, by the count it keeps.
LEMMA CountSaysConnected ==
  ASSUME TypeOK, CountExact
  PROVE  /\ connectedSockets > 0 <=> Accepted # {}
         /\ connectedSockets = 0 <=> Accepted = {}
<1>1. IsFiniteSet(Accepted)
  BY AcceptedFinite
<1>2. Cardinality(Accepted) \in Nat
  BY <1>1, FS_CardinalityType
<1>3. Cardinality(Accepted) = 0 <=> Accepted = {}
  BY <1>1, FS_EmptySet
<1>4. QED
  BY <1>2, <1>3 DEF CountExact

\* The steps of the agent that emit neither 'online' nor 'offline' leave the
\* accepted sockets alone.
LEMMA AgentAloneAccepted ==
  ASSUME TypeOK, AgentAlone \/ Destroy \/ Listen \/ UNCHANGED vars
  PROVE  Accepted' = Accepted
<1>1. ASSUME UNCHANGED sockState PROVE Accepted' = Accepted
  BY <1>1 DEF Accepted
<1>2. CASE Bound \/ ServerClose \/ Listen
  BY <1>1, <1>2 DEF Bound, ServerClose, Listen
<1>3. CASE FireHandoff
  BY <1>1, <1>3, DestroyedAccepted DEF FireHandoff
<1>4. CASE Destroy
  BY <1>4, DestroyedAccepted DEF Destroy
<1>5. ASSUME NEW s \in Sockets, Refuse(s) \/ RefusedClosed(s) \/ Disconnect(s)
      PROVE Accepted' = Accepted
  BY <1>5 DEF Refuse, Connectable, RefusedClosed, Disconnect, Accepted, TypeOK
<1>6. ASSUME NEW c \in Callers, Abandon(c) \/ FinishKeep(c) \/ FinishDestroy(c)
      PROVE Accepted' = Accepted
  BY <1>1, <1>6, DestroyedAccepted DEF Abandon, FinishKeep, FinishDestroy
<1>7. CASE UNCHANGED vars
  BY <1>1, <1>7 DEF vars
<1>8. QED
  BY <1>2, <1>3, <1>4, <1>5, <1>6, <1>7 DEF AgentAlone

LEMMA CallsAccepted ==
  ASSUME TypeOK, NEW c \in Callers,
         HttpRequest(c) \/ HttpReuse(c) \/ Upgrade(c) \/ UpgradeGone(c)
  PROVE  Accepted' = Accepted
<1>1. CASE HttpRequest(c) \/ HttpReuse(c) \/ Upgrade(c)
  BY <1>1 DEF HttpRequest, HttpReuse, Upgrade, Accepted
<1>2. CASE UpgradeGone(c)
  BY <1>2, DestroyedAccepted DEF UpgradeGone
<1>3. QED
  BY <1>1, <1>2

LEMMA StepPublicInv ==
  /\ TypeOK /\ TypeOK' /\ CountExact /\ CountExact'
  /\ PublicInv /\ [PublicNext]_publicVars
  => PublicInv'
<1> SUFFICES ASSUME TypeOK, TypeOK', CountExact, CountExact', PublicInv,
                    [PublicNext]_publicVars
             PROVE  PublicInv'
  OBVIOUS
<1>1. ASSUME Accepted' = Accepted, UNCHANGED clientVars PROVE PublicInv'
  BY <1>1 DEF PublicInv, PublicBooleans, OnlineIsConnected, clientVars
<1>2. CASE ClientNext
  <2>1. CASE NewClient
    <3>1. Accepted' = Accepted
      BY <2>1, AgentAloneAccepted DEF NewClient
    <3>2. QED
      BY <2>1, <3>1 DEF NewClient, PublicInv, PublicBooleans, OnlineIsConnected
  <2>2. CASE RunImmediate
    <3>1. Accepted' = Accepted
      BY <2>2, AgentAloneAccepted DEF RunImmediate
    <3>2. QED
      BY <2>2, <3>1 DEF RunImmediate, PublicInv, PublicBooleans, OnlineIsConnected
  <2>3. CASE Close
    <3>1. Accepted' = Accepted
      BY <2>3, AgentAloneAccepted DEF Close
    <3>2. QED
      BY <2>3, <3>1 DEF Close, PublicInv, PublicBooleans, OnlineIsConnected
  <2>4. QED
    BY <1>2, <2>1, <2>2, <2>3 DEF ClientNext, GraceExpired, Replaced
<1>3. ASSUME NEW s \in Sockets, SocketEvents(s) PROVE PublicInv'
  <2>1. CASE SocketConnects(s)
    <3>1. connectedSockets' > 0
      BY <2>1, CountSaysConnected DEF SocketConnects, Accept, TypeOK, CountExact
    <3>2. Accepted' # {}
      BY <2>1 DEF SocketConnects, Accept, Accepted, TypeOK
    <3>3. CASE connectedSockets = 0
      BY <2>1, <3>2, <3>3 DEF SocketConnects, PublicInv, PublicBooleans, OnlineIsConnected
    <3>4. CASE connectedSockets # 0
      <4>1. Accepted # {}
        BY <3>4, CountSaysConnected
      <4>2. QED
        BY <2>1, <3>2, <3>4, <4>1 DEF SocketConnects, PublicInv, PublicBooleans, OnlineIsConnected
    <3>5. QED
      BY <3>3, <3>4
  <2>2. CASE SocketCloses(s)
    <3>1. s \in Accepted /\ Accepted' = Accepted \ {s}
      BY <2>2 DEF SocketCloses, SocketClosed, Accepted, TypeOK
    <3>2. connectedSockets' <= 0 <=> Accepted' = {}
      <4>1. Cardinality(Accepted') \in Nat /\ (Cardinality(Accepted') = 0 <=> Accepted' = {})
        BY <3>1, AcceptedFinite, FS_RemoveElement, FS_CardinalityType, FS_EmptySet
      <4>2. QED
        BY <4>1 DEF CountExact
    <3>3. connectedSockets' \in Int
      BY DEF TypeOK
    <3>4. CASE connectedSockets' <= 0
      <4>1. ~(connectedSockets' > 0)
        BY <3>3, <3>4
      <4>2. isOnline' = FALSE /\ graceTimeout' = TRUE /\ UNCHANGED <<mapped, immediate>>
        BY <2>2, <4>1 DEF SocketCloses
      <4>3. QED
        BY <3>2, <3>4, <4>2 DEF PublicInv, PublicBooleans, OnlineIsConnected
    <3>5. CASE ~(connectedSockets' <= 0)
      <4>1. UNCHANGED <<isOnline, graceTimeout, mapped, immediate>>
        BY <2>2, <3>5 DEF SocketCloses
      <4>2. QED
        BY <3>1, <3>2, <3>5, <4>1 DEF PublicInv, PublicBooleans, OnlineIsConnected
    <3>6. QED
      BY <3>4, <3>5
  <2>3. QED
    BY <1>3, <2>1, <2>2 DEF SocketEvents
<1>4. ASSUME NEW c \in HttpCallers, RequestNext(c) PROVE PublicInv'
  <2>1. c \in Callers
    BY DEF Callers
  <2>2. UNCHANGED clientVars
    BY <1>4 DEF RequestNext, RequestOffline, RequestBusy, RequestHandled
  <2>3. UNCHANGED vars \/ HttpRequest(c) \/ HttpReuse(c)
    BY <1>4 DEF RequestNext, RequestOffline, RequestBusy, RequestHandled
  <2>4. QED
    BY <1>1, <2>1, <2>2, <2>3, CallsAccepted, AgentAloneAccepted
<1>5. ASSUME NEW u \in UpgradeCallers, UpgradeNext(u) PROVE PublicInv'
  <2>1. u \in Callers
    BY DEF Callers
  <2>2. UNCHANGED clientVars
    BY <1>5 DEF UpgradeNext, UpgradeOffline, UpgradeBusy, UpgradeHandled,
                OnlineTimeout, SocketPoll, SocketTimeout
  <2>3. UNCHANGED vars \/ Upgrade(u) \/ UpgradeGone(u)
    BY <1>5 DEF UpgradeNext, UpgradeOffline, UpgradeBusy, UpgradeHandled,
                OnlineTimeout, SocketPoll, SocketTimeout
  <2>4. QED
    BY <1>1, <2>1, <2>2, <2>3, CallsAccepted, AgentAloneAccepted
<1>6. CASE Unseen(AgentAlone)
  BY <1>1, <1>6, AgentAloneAccepted DEF Unseen
<1>7. CASE UNCHANGED publicVars
  BY <1>1, <1>7, AgentAloneAccepted DEF publicVars
<1>8. QED
  BY <1>2, <1>3, <1>4, <1>5, <1>6, <1>7 DEF PublicNext

LEMMA PublicInvariant == PublicSpec => [](TypeOK /\ PublicInv)
<1>1. PublicInit => PublicInv
  BY DEF PublicInit, Init, PublicInv, PublicBooleans, OnlineIsConnected, Accepted
<1>2. QED
  BY <1>1, StepPublicInv, ServerUsesAgent, TypeCorrect, CountCorrect, PTL
     DEF PublicSpec

\* isOnline agrees with the tunnel sockets in every behaviour, and a client in
\* the map is online, in its grace period, or just born.
THEOREM OnlineCorrect == PublicSpec => []OnlineIsConnected
BY PublicInvariant, PTL DEF PublicInv

-----------------------------------------------------------------------------
(* The queue                                                               *)

LEMMA CallQueues ==
  ASSUME TypeOK, NEW c \in Callers,
         HttpRequest(c) \/ HttpReuse(c) \/ Upgrade(c) \/ UpgradeGone(c),
         availableSockets # <<>>
  PROVE  waitingCreateConn' = waitingCreateConn
BY DEF HttpRequest, HttpReuse, Upgrade, UpgradeGone, CreateConnection, poolVars

LEMMA AgentAloneQueues ==
  ASSUME TypeOK,
         AgentAlone \/ Destroy \/ Listen \/ UNCHANGED vars
           \/ \E s \in Sockets : Accept(s) \/ SocketClosed(s)
  PROVE  Len(waitingCreateConn') <= Len(waitingCreateConn)
<1>1. Len(waitingCreateConn) \in Nat
  BY DEF TypeOK
<1>2. ASSUME UNCHANGED waitingCreateConn PROVE Len(waitingCreateConn') <= Len(waitingCreateConn)
  BY <1>1, <1>2
<1>3. CASE Bound \/ FireHandoff \/ Listen \/ Destroy \/ UNCHANGED vars
  BY <1>2, <1>3 DEF Bound, FireHandoff, Listen, Destroy, vars, poolVars
<1>4. CASE ServerClose
  <2>1. waitingCreateConn' = <<>>
    BY <1>4 DEF ServerClose
  <2>2. QED
    BY <1>1, <2>1
<1>5. ASSUME NEW s \in Sockets,
             Refuse(s) \/ RefusedClosed(s) \/ Disconnect(s) \/ SocketClosed(s)
      PROVE Len(waitingCreateConn') <= Len(waitingCreateConn)
  BY <1>2, <1>5 DEF Refuse, RefusedClosed, Disconnect, SocketClosed, poolVars
<1>6. ASSUME NEW s \in Sockets, Accept(s)
      PROVE Len(waitingCreateConn') <= Len(waitingCreateConn)
  <2>1. CASE waitingCreateConn # <<>> /\ waitingCreateConn' = Tail(waitingCreateConn)
    BY <2>1 DEF TypeOK
  <2>2. CASE UNCHANGED waitingCreateConn
    BY <1>2, <2>2
  <2>3. QED
    BY <1>6, <2>1, <2>2 DEF Accept
<1>7. ASSUME NEW c \in Callers, Abandon(c) \/ FinishKeep(c) \/ FinishDestroy(c)
      PROVE Len(waitingCreateConn') <= Len(waitingCreateConn)
  BY <1>2, <1>7 DEF Abandon, FinishKeep, FinishDestroy, poolVars
<1>8. QED
  BY <1>3, <1>4, <1>5, <1>6, <1>7 DEF AgentAlone

LEMMA StepQueue ==
  TypeOK /\ PublicInv /\ [PublicNext]_publicVars
  => [Len(waitingCreateConn') > Len(waitingCreateConn) => immediate]_publicVars
<1> SUFFICES ASSUME TypeOK, PublicInv, PublicNext,
                    Len(waitingCreateConn') > Len(waitingCreateConn)
             PROVE  immediate
  OBVIOUS
<1>1. Len(waitingCreateConn) \in Nat
  BY DEF TypeOK
<1>2. waitingCreateConn' # waitingCreateConn
  BY <1>1
<1>3. ASSUME NEW c \in Callers, Arrives(c), ~InGrace, ~NoSocketAvailable,
             HttpRequest(c) \/ HttpReuse(c) \/ Upgrade(c)
      PROVE  immediate
  <2>1. availableSockets = <<>>
    BY <1>2, <1>3, CallQueues
  <2>2. ~isOnline /\ ~graceTimeout
    BY <1>3, <2>1 DEF InGrace, NoSocketAvailable
  <2>3. QED
    BY <1>3, <2>2 DEF Arrives, PublicInv, OnlineIsConnected
<1>4. ASSUME Len(waitingCreateConn') <= Len(waitingCreateConn) PROVE FALSE
  <2>1. Len(waitingCreateConn') \in Nat
    BY StepType, StepImplements DEF TypeOK
  <2>2. QED
    BY <1>1, <1>4, <2>1
<1>5. CASE ClientNext
  BY <1>4, <1>5, AgentAloneQueues
     DEF ClientNext, NewClient, RunImmediate, GraceExpired, Replaced, Close
<1>6. ASSUME NEW s \in Sockets, SocketEvents(s) PROVE immediate
  BY <1>4, <1>6, AgentAloneQueues DEF SocketEvents, SocketConnects, SocketCloses
<1>7. ASSUME NEW c \in HttpCallers, RequestNext(c) PROVE immediate
  <2>1. c \in Callers
    BY DEF Callers
  <2>2. CASE UNCHANGED vars
    BY <1>4, <2>2, AgentAloneQueues
  <2>3. CASE RequestHandled(c)
    BY <1>3, <2>1, <2>3 DEF RequestHandled
  <2>4. QED
    BY <1>7, <2>2, <2>3 DEF RequestNext, RequestOffline, RequestBusy
<1>8. ASSUME NEW u \in UpgradeCallers, UpgradeNext(u) PROVE immediate
  <2>1. u \in Callers
    BY DEF Callers
  <2>2. CASE UNCHANGED vars
    BY <1>4, <2>2, AgentAloneQueues
  <2>3. CASE UpgradeHandled(u)
    BY <1>3, <2>1, <2>3 DEF UpgradeHandled
  <2>4. CASE SocketPoll(u)
    BY <1>2, <2>1, <2>4, CallQueues DEF SocketPoll
  <2>5. QED
    BY <1>8, <2>2, <2>3, <2>4
       DEF UpgradeNext, UpgradeOffline, UpgradeBusy, OnlineTimeout, SocketTimeout
<1>9. CASE Unseen(AgentAlone)
  BY <1>4, <1>9, AgentAloneQueues DEF Unseen
<1>10. QED
  BY <1>5, <1>6, <1>7, <1>8, <1>9 DEF PublicNext

\* After its setImmediate no request or upgrade of a client joins the agent's
\* queue: cases 2, 3, 6 and 7 and the poll together keep them out.
THEOREM QueueShort == PublicSpec => QueueGrowsOnlyAtBirth
BY PublicInvariant, StepQueue, PTL DEF PublicSpec, QueueGrowsOnlyAtBirth

-----------------------------------------------------------------------------
(* Who is queued for a client that has no tunnel                           *)

\* An agent that has been started and not destroyed belongs to a client in the
\* map, and before that nobody can have called it.
AgentIsMapped ==
  /\ handle \in {"binding", "listening", "failed"} => mapped
  /\ handle = "none" => ~mapped /\ waitingCreateConn = <<>>

\* Only listen(), its outcome and destroy() change the server's state.
LEMMA HandleMoves ==
  ASSUME TypeOK,
         \/ AgentAlone
         \/ \E s \in Sockets : Accept(s) \/ SocketClosed(s)
         \/ \E c \in Callers : HttpRequest(c) \/ HttpReuse(c) \/ Upgrade(c) \/ UpgradeGone(c)
  PROVE  handle' = handle \/ (handle = "binding" /\ handle' \in {"listening", "failed"})
BY DEF AgentAlone, Bound, ServerClose, FireHandoff, Refuse, RefusedClosed, Disconnect, Abandon,
       FinishKeep, FinishDestroy, Accept, SocketClosed, HttpRequest, HttpReuse, Upgrade, UpgradeGone

LEMMA EmptyStays ==
  ASSUME TypeOK, waitingCreateConn = <<>>,
         Len(waitingCreateConn') <= Len(waitingCreateConn), waitingCreateConn' \in Seq(Callers)
  PROVE  waitingCreateConn' = <<>>
OBVIOUS

LEMMA StepMapped ==
  TypeOK /\ TypeOK' /\ PublicBooleans /\ AgentIsMapped /\ [PublicNext]_publicVars => AgentIsMapped'
<1> SUFFICES ASSUME TypeOK, TypeOK', PublicBooleans, AgentIsMapped, [PublicNext]_publicVars
             PROVE  AgentIsMapped'
  OBVIOUS
<1>1. ASSUME UNCHANGED mapped,
             handle' = handle \/ (handle = "binding" /\ handle' \in {"listening", "failed"}),
             handle = "none" => Len(waitingCreateConn') <= Len(waitingCreateConn)
      PROVE  AgentIsMapped'
  <2>1. handle' = "none" => handle = "none"
    BY <1>1
  <2>2. handle = "none" => waitingCreateConn' = <<>>
    <3>1. waitingCreateConn' \in Seq(Callers)
      BY DEF TypeOK
    <3>2. QED
      BY <1>1, <3>1, EmptyStays DEF AgentIsMapped
  <2>3. QED
    BY <1>1, <2>1, <2>2 DEF AgentIsMapped
<1>2. ASSUME UNCHANGED <<vars, mapped>> PROVE AgentIsMapped'
  BY <1>2 DEF vars, poolVars, AgentIsMapped
<1>3. CASE ClientNext
  <2>1. CASE NewClient
    BY <2>1 DEF NewClient, Listen, AgentIsMapped
  <2>2. CASE RunImmediate
    BY <1>2, <2>2 DEF RunImmediate
  <2>3. CASE Close
    BY <2>3 DEF Close, Destroy, vars, AgentIsMapped
  <2>4. QED
    BY <1>3, <2>1, <2>2, <2>3 DEF ClientNext, GraceExpired, Replaced
<1>4. ASSUME NEW s \in Sockets, SocketEvents(s) PROVE AgentIsMapped'
  BY <1>1, <1>4, HandleMoves, AgentAloneQueues DEF SocketEvents, SocketConnects, SocketCloses
<1>5. ASSUME NEW c \in Callers, Arrives(c), UNCHANGED mapped,
             HttpRequest(c) \/ HttpReuse(c) \/ Upgrade(c)
      PROVE  AgentIsMapped'
  <2>1. handle # "none"
    BY <1>5 DEF Arrives, AgentIsMapped
  <2>2. QED
    BY <1>1, <1>5, <2>1, HandleMoves
<1>6. ASSUME NEW c \in HttpCallers, RequestNext(c) PROVE AgentIsMapped'
  <2>1. c \in Callers
    BY DEF Callers
  <2>2. CASE RequestOffline(c) \/ RequestBusy(c)
    BY <1>2, <2>2 DEF RequestOffline, RequestBusy, clientVars
  <2>3. CASE RequestHandled(c)
    BY <1>5, <2>1, <2>3 DEF RequestHandled, clientVars
  <2>4. QED
    BY <1>6, <2>2, <2>3 DEF RequestNext
<1>7. ASSUME NEW u \in UpgradeCallers, UpgradeNext(u) PROVE AgentIsMapped'
  <2>1. u \in Callers
    BY DEF Callers
  <2>2. CASE UpgradeHandled(u)
    BY <1>5, <2>1, <2>2 DEF UpgradeHandled, clientVars
  <2>3. CASE SocketPoll(u)
    <3>1. (Upgrade(u) \/ UpgradeGone(u)) /\ availableSockets # <<>> /\ UNCHANGED mapped
      BY <2>3 DEF SocketPoll, clientVars
    <3>2. waitingCreateConn' = waitingCreateConn
      BY <2>1, <3>1, CallQueues
    <3>3. Len(waitingCreateConn') <= Len(waitingCreateConn)
      BY <3>2 DEF TypeOK
    <3>4. QED
      BY <1>1, <2>1, <3>1, <3>3, HandleMoves
  <2>4. CASE UpgradeOffline(u) \/ UpgradeBusy(u) \/ OnlineTimeout(u) \/ SocketTimeout(u)
    BY <1>2, <2>4 DEF UpgradeOffline, UpgradeBusy, OnlineTimeout, SocketTimeout, clientVars
  <2>5. QED
    BY <1>7, <2>2, <2>3, <2>4 DEF UpgradeNext
<1>8. CASE Unseen(AgentAlone)
  BY <1>1, <1>8, HandleMoves, AgentAloneQueues DEF Unseen, clientVars
<1>9. CASE UNCHANGED publicVars
  BY <1>2, <1>9 DEF publicVars, clientVars
<1>10. QED
  BY <1>3, <1>4, <1>6, <1>7, <1>8, <1>9 DEF PublicNext

LEMMA MappedInvariant == PublicSpec => []AgentIsMapped
<1>1. PublicInit => AgentIsMapped
  BY DEF PublicInit, Init, AgentIsMapped
<1>2. PublicInv => PublicBooleans
  BY DEF PublicInv
<1>3. QED
  BY <1>1, <1>2, StepMapped, PublicInvariant, PTL DEF PublicSpec

\* Nobody is left in the queue of an agent that nothing will fill or destroy: the
\* safety half of QueuedWithoutTunnelEnds, for any number of callers.
THEOREM WatchedCorrect == PublicSpec => []QueuedIsWatched
<1>1. TypeOK /\ PoolInv /\ PublicInv /\ AgentIsMapped => QueuedIsWatched
  <2> SUFFICES ASSUME TypeOK, PoolInv, PublicInv, AgentIsMapped, NEW c \in Callers,
                      phase[c] = "queued", handle # "closed"
               PROVE  isOnline \/ graceTimeout \/ immediate
    BY DEF QueuedIsWatched
  <2>1. waitingCreateConn # <<>>
    BY DEF PoolInv, PhasesExact, Queue, Elements
  <2>2. mapped
    BY <2>1 DEF TypeOK, AgentIsMapped
  <2>3. QED
    BY <2>2 DEF PublicInv, OnlineIsConnected
<1>2. QED
  BY <1>1, MappedInvariant, PublicInvariant, ServerUsesAgent, PoolInvariant, PTL

-----------------------------------------------------------------------------
(* The client's life                                                       *)

\* Before listen() there is nothing of the client, and no socket connects before
\* its setImmediate.
BirthInOrder ==
  /\ handle = "none" => ~immediate /\ ~isOnline /\ ~graceTimeout
  /\ immediate => ~isOnline

LEMMA LifeOfClient ==
  ASSUME TypeOK, PublicInv, AgentIsMapped, BirthInOrder, ClientNext
  PROVE  BirthInOrder' /\ [Life!Next]_Life!vars
<1> USE DEF PublicInv, PublicBooleans
<1>1. CASE NewClient
  <2>1. handle = "none" /\ handle' # "none"
    BY <1>1 DEF NewClient, Listen
  <2>2. Life!Born
    BY <1>1, <2>1 DEF NewClient, BirthInOrder, AgentIsMapped, Life!Born
  <2>3. ~isOnline'
    BY <1>1, <2>1 DEF NewClient, BirthInOrder
  <2>4. QED
    BY <2>1, <2>2, <2>3 DEF BirthInOrder, Life!Next
<1>2. CASE RunImmediate
  <2>1. handle' = handle /\ handle # "none"
    BY <1>2 DEF RunImmediate, vars, BirthInOrder
  <2>2. Life!Settle
    BY <1>2 DEF RunImmediate, BirthInOrder, Life!Settle
  <2>3. QED
    BY <2>1, <2>2 DEF BirthInOrder, Life!Settle, Life!Next
<1>3. CASE Close /\ (graceTimeout \/ mapped)
  <2>1. handle' # "none"
    BY <1>3 DEF Close, Destroy, vars
  <2>2. graceTimeout => Life!Expire
    BY <1>3 DEF Close, OnlineIsConnected, Life!Expire
  <2>3. mapped => Life!Replace
    BY <1>3 DEF Close, Life!Replace
  <2>4. QED
    BY <1>3, <2>1, <2>2, <2>3 DEF Close, BirthInOrder, Life!Next
<1>4. QED
  BY <1>1, <1>2, <1>3 DEF ClientNext, GraceExpired, Replaced

\* isOnline changes with the first and the last accepted socket, and no socket is
\* accepted once the agent's server is closed, which is when the client goes.
LEMMA LifeOfSockets ==
  ASSUME TypeOK, CountExact, PublicInv, PublicInv', AgentIsMapped, BirthInOrder,
         NEW s \in Sockets, SocketEvents(s)
  PROVE  BirthInOrder' /\ [Life!Next]_Life!vars
<1> USE DEF PublicInv, PublicBooleans
<1>1. CASE SocketConnects(s)
  <2>1. handle' = handle /\ handle = "listening"
    BY <1>1 DEF SocketConnects, Accept, Connectable
  <2>2. mapped /\ ~immediate
    BY <1>1, <2>1 DEF SocketConnects, AgentIsMapped
  <2>3. CASE connectedSockets = 0
    <3>1. ~isOnline
      BY <2>3, CountSaysConnected DEF OnlineIsConnected
    <3>2. Life!Connect
      BY <1>1, <2>2, <2>3, <3>1 DEF SocketConnects, Life!Connect
    <3>3. QED
      BY <2>1, <3>2 DEF Life!Connect, BirthInOrder, Life!Next
  <2>4. CASE connectedSockets # 0
    BY <1>1, <2>1, <2>4 DEF SocketConnects, BirthInOrder, Life!vars
  <2>5. QED
    BY <2>3, <2>4
<1>2. CASE SocketCloses(s)
  <2>1. isOnline
    BY <1>2 DEF SocketCloses, SocketClosed, Accepted, OnlineIsConnected
  <2>2. handle' = handle /\ handle # "none"
    BY <1>2, <2>1 DEF SocketCloses, SocketClosed, BirthInOrder
  <2>3. UNCHANGED <<mapped, immediate>>
    BY <1>2 DEF SocketCloses
  <2>4. CASE isOnline' = FALSE /\ graceTimeout' = TRUE
    <3>1. Life!Disconnect
      BY <2>1, <2>3, <2>4 DEF Life!Disconnect
    <3>2. QED
      BY <2>2, <3>1 DEF Life!Disconnect, BirthInOrder, Life!Next
  <2>5. CASE UNCHANGED <<isOnline, graceTimeout>>
    BY <2>2, <2>3, <2>5 DEF BirthInOrder, Life!vars
  <2>6. QED
    BY <1>2, <2>4, <2>5 DEF SocketCloses
<1>3. QED
  BY <1>1, <1>2 DEF SocketEvents

LEMMA StepLife ==
  /\ TypeOK /\ CountExact /\ PublicInv /\ PublicInv'
  /\ AgentIsMapped /\ AgentIsMapped' /\ BirthInOrder /\ [PublicNext]_publicVars
  => BirthInOrder' /\ [Life!Next]_Life!vars
<1> SUFFICES ASSUME TypeOK, CountExact, PublicInv, PublicInv', AgentIsMapped, AgentIsMapped',
                    BirthInOrder, [PublicNext]_publicVars
             PROVE  BirthInOrder' /\ [Life!Next]_Life!vars
  OBVIOUS
<1>1. ASSUME UNCHANGED clientVars, handle' = handle \/ handle' # "none"
      PROVE  BirthInOrder' /\ [Life!Next]_Life!vars
  BY <1>1 DEF clientVars, BirthInOrder, Life!vars
<1>2. ASSUME NEW c \in Callers, HttpRequest(c) \/ HttpReuse(c) \/ Upgrade(c) \/ UpgradeGone(c)
      PROVE  handle' = handle \/ handle' # "none"
  BY <1>2, HandleMoves
<1>3. CASE ClientNext
  BY <1>3, LifeOfClient
<1>4. ASSUME NEW s \in Sockets, SocketEvents(s) PROVE BirthInOrder' /\ [Life!Next]_Life!vars
  BY <1>4, LifeOfSockets
<1>5. ASSUME NEW c \in HttpCallers, RequestNext(c)
      PROVE  BirthInOrder' /\ [Life!Next]_Life!vars
  <2>1. c \in Callers
    BY DEF Callers
  <2>2. UNCHANGED clientVars
    BY <1>5 DEF RequestNext, RequestOffline, RequestBusy, RequestHandled
  <2>3. UNCHANGED vars \/ HttpRequest(c) \/ HttpReuse(c)
    BY <1>5 DEF RequestNext, RequestOffline, RequestBusy, RequestHandled
  <2>4. QED
    BY <1>1, <1>2, <2>1, <2>2, <2>3 DEF vars
<1>6. ASSUME NEW u \in UpgradeCallers, UpgradeNext(u)
      PROVE  BirthInOrder' /\ [Life!Next]_Life!vars
  <2>1. u \in Callers
    BY DEF Callers
  <2>2. UNCHANGED clientVars
    BY <1>6 DEF UpgradeNext, UpgradeOffline, UpgradeBusy, UpgradeHandled,
                OnlineTimeout, SocketPoll, SocketTimeout
  <2>3. UNCHANGED vars \/ Upgrade(u) \/ UpgradeGone(u)
    BY <1>6 DEF UpgradeNext, UpgradeOffline, UpgradeBusy, UpgradeHandled,
                OnlineTimeout, SocketPoll, SocketTimeout
  <2>4. QED
    BY <1>1, <1>2, <2>1, <2>2, <2>3 DEF vars
<1>7. CASE Unseen(AgentAlone)
  BY <1>1, <1>7, HandleMoves DEF Unseen
<1>8. CASE UNCHANGED publicVars
  BY <1>1, <1>8 DEF publicVars, vars
<1>9. QED
  BY <1>3, <1>4, <1>5, <1>6, <1>7, <1>8 DEF PublicNext

\* The client of the public server lives as ClientLife says: no request, upgrade or
\* step of its agent brings it back online once it left the map, and its timer
\* runs out only when no tunnel socket is connected.
THEOREM ClientLifeImplemented == PublicSpec => ImplementsLife
<1>1. PublicInit => BirthInOrder /\ Life!Init
  BY DEF PublicInit, BirthInOrder, Life!Init
<1>2. QED
  BY <1>1, StepLife, MappedInvariant, PublicInvariant, ServerUsesAgent, CountCorrect, PTL
     DEF PublicSpec, ImplementsLife, Life!Spec

-----------------------------------------------------------------------------
(* Types                                                                   *)

ServerTypes ==
  /\ wait \in [UpgradeCallers -> {"nothing", "online", "socket"}]
  /\ answer \in [Callers -> {"none", "offline", "busy"}]

LEMMA StepServerTypes == ServerTypes /\ [PublicNext]_publicVars => ServerTypes'
<1> SUFFICES ASSUME ServerTypes, [PublicNext]_publicVars PROVE ServerTypes'
  OBVIOUS
<1>1. CASE UNCHANGED serverVars
  BY <1>1 DEF ServerTypes, serverVars
<1>2. CASE ClientNext
  BY <1>1, <1>2 DEF ClientNext, NewClient, RunImmediate, GraceExpired, Replaced, Close
<1>3. ASSUME NEW s \in Sockets, SocketEvents(s) PROVE ServerTypes'
  BY <1>1, <1>3 DEF SocketEvents, SocketConnects, SocketCloses
<1>4. ASSUME NEW c \in HttpCallers, RequestNext(c) PROVE ServerTypes'
  BY <1>4 DEF RequestNext, RequestOffline, RequestBusy, RequestHandled, ServerTypes
<1>5. ASSUME NEW u \in UpgradeCallers, UpgradeNext(u) PROVE ServerTypes'
  BY <1>5 DEF UpgradeNext, UpgradeOffline, UpgradeBusy, UpgradeHandled,
              OnlineTimeout, SocketPoll, SocketTimeout, ServerTypes
<1>6. CASE Unseen(AgentAlone)
  BY <1>1, <1>6 DEF Unseen
<1>7. CASE UNCHANGED publicVars
  BY <1>1, <1>7 DEF publicVars
<1>8. QED
  BY <1>2, <1>3, <1>4, <1>5, <1>6, <1>7 DEF PublicNext

LEMMA ServerTypesInvariant == PublicSpec => []ServerTypes
<1>1. PublicInit => ServerTypes
  BY DEF PublicInit, ServerTypes
<1>2. QED
  BY <1>1, StepServerTypes, PTL DEF PublicSpec

\* The variables of the handlers and of the client keep their types.
THEOREM PublicTypeCorrect == PublicSpec => []PublicTypeOK
<1>1. TypeOK /\ PublicInv /\ ServerTypes => PublicTypeOK
  BY DEF PublicTypeOK, PublicInv, PublicBooleans, ServerTypes
<1>2. QED
  BY <1>1, PublicInvariant, ServerTypesInvariant, PTL

-----------------------------------------------------------------------------
(* A refused caller takes no socket                                        *)

\* Only the call of a handler takes a caller out of rest: the agent's own steps
\* move callers that are queued, promised or served.
LEMMA RestingStays ==
  ASSUME TypeOK, PoolInv, NEW c \in Callers, Ready(c),
         AgentAlone \/ Destroy \/ Listen \/ UNCHANGED vars
           \/ \E s \in Sockets : Accept(s) \/ SocketClosed(s)
  PROVE  Ready(c)'
<1> USE DEF Ready
<1>1. CASE UNCHANGED phase
  BY <1>1
<1>2. CASE Bound \/ Listen \/ Destroy \/ UNCHANGED vars
  BY <1>1, <1>2 DEF Bound, Listen, Destroy, vars, callerVars
<1>3. CASE ServerClose
  BY <1>3 DEF ServerClose
<1>4. CASE FireHandoff
  <2>1. Head(handoffs) \in Handoff /\ Head(handoffs) \in Pending
    BY <1>4, TailElements DEF FireHandoff, TypeOK, PoolInv, ListsDistinct, Pending
  <2>2. Head(handoffs).cb # c
    BY <2>1 DEF PoolInv, PhasesExact
  <2>3. phase'[c] = phase[c]
    BY <1>4, <2>2 DEF FireHandoff, TypeOK
  <2>4. QED
    BY <2>3
<1>5. ASSUME NEW s \in Sockets, Refuse(s) \/ RefusedClosed(s) \/ Disconnect(s)
      PROVE  Ready(c)'
  BY <1>1, <1>5 DEF Refuse, RefusedClosed, Disconnect, callerVars
<1>6. ASSUME NEW s \in Sockets, SocketClosed(s) PROVE Ready(c)'
  BY <1>6 DEF SocketClosed
<1>7. ASSUME NEW s \in Sockets, Accept(s) PROVE Ready(c)'
  <2>1. CASE waitingCreateConn = <<>>
    BY <1>1, <1>7, <2>1 DEF Accept
  <2>2. CASE waitingCreateConn # <<>>
    <3>1. Head(waitingCreateConn) \in Queue
      BY <2>2, TailElements DEF TypeOK, PoolInv, ListsDistinct, Queue
    <3>2. Head(waitingCreateConn) # c
      BY <3>1 DEF PoolInv, PhasesExact
    <3>3. phase' = [phase EXCEPT ![Head(waitingCreateConn)] = "promised"]
      BY <1>7, <2>2 DEF Accept
    <3>4. phase'[c] = phase[c]
      BY <3>2, <3>3 DEF TypeOK
    <3>5. QED
      BY <3>4
  <2>3. QED
    BY <2>1, <2>2
<1>8. ASSUME NEW d \in Callers, Abandon(d) \/ FinishKeep(d) \/ FinishDestroy(d)
      PROVE  Ready(c)'
  <2>1. UNCHANGED phase \/ phase' = [phase EXCEPT ![d] = "idle"]
    BY <1>8 DEF Abandon, FinishKeep, FinishDestroy
  <2>2. QED
    BY <2>1 DEF TypeOK
<1>9. QED
  BY <1>2, <1>3, <1>4, <1>5, <1>6, <1>7, <1>8 DEF AgentAlone

\* A handler's call moves its own caller only.
LEMMA CallMovesOne ==
  ASSUME TypeOK, NEW c \in Callers,
         HttpRequest(c) \/ HttpReuse(c) \/ Upgrade(c) \/ UpgradeGone(c),
         NEW d \in Callers, d # c
  PROVE  phase'[d] = phase[d]
<1>1. \E to \in {"failed", "served", "queued"} : phase' = [phase EXCEPT ![c] = to]
  BY DEF HttpRequest, HttpReuse, Upgrade, UpgradeGone, CreateConnection
<1>2. QED
  BY <1>1 DEF TypeOK

LEMMA StepRefused ==
  /\ TypeOK /\ PoolInv /\ ServerTypes
  /\ RefusedTakesNoSocket /\ [PublicNext]_publicVars
  => RefusedTakesNoSocket'
<1> SUFFICES ASSUME TypeOK, PoolInv, ServerTypes, RefusedTakesNoSocket,
                    [PublicNext]_publicVars, NEW d \in Callers
             PROVE  /\ answer'[d] # "none" => Ready(d)'
                    /\ d \in UpgradeCallers /\ wait'[d] # "nothing"
                         => Ready(d)' /\ answer'[d] = "none"
  BY DEF RefusedTakesNoSocket
<1> DEFINE Rule == /\ answer'[d] # "none" => Ready(d)'
                   /\ d \in UpgradeCallers /\ wait'[d] # "nothing"
                        => Ready(d)' /\ answer'[d] = "none"
<1>1. /\ answer[d] # "none" => Ready(d)
      /\ d \in UpgradeCallers /\ wait[d] # "nothing" => Ready(d) /\ answer[d] = "none"
  BY DEF RefusedTakesNoSocket
<1>2. ASSUME Ready(d) => Ready(d)', UNCHANGED serverVars PROVE Rule
  BY <1>1, <1>2 DEF serverVars
<1>3. ASSUME UNCHANGED vars PROVE Ready(d) <=> Ready(d)'
  BY <1>3 DEF vars, callerVars, Ready
<1>4. CASE ClientNext
  BY <1>2, <1>3, <1>4, RestingStays
     DEF ClientNext, NewClient, RunImmediate, GraceExpired, Replaced, Close
<1>5. ASSUME NEW s \in Sockets, SocketEvents(s) PROVE Rule
  BY <1>2, <1>5, RestingStays DEF SocketEvents, SocketConnects, SocketCloses
<1>6. ASSUME NEW c \in HttpCallers, RequestNext(c) PROVE Rule
  <2>1. c \in Callers /\ c \notin UpgradeCallers
    BY AgentAssumption DEF Callers
  <2>2. UNCHANGED wait
    BY <1>6 DEF RequestNext, RequestOffline, RequestBusy, RequestHandled
  <2>3. CASE RequestOffline(c) \/ RequestBusy(c)
    <3>1. UNCHANGED vars /\ Ready(c)
      BY <2>3 DEF RequestOffline, RequestBusy, Arrives
    <3>2. d # c => answer'[d] = answer[d]
      BY <2>3 DEF RequestOffline, RequestBusy, ServerTypes
    <3>3. QED
      BY <1>1, <1>3, <2>1, <2>2, <3>1, <3>2
  <2>4. CASE RequestHandled(c)
    <3>1. answer'[d] = IF d = c THEN "none" ELSE answer[d]
      BY <2>4 DEF RequestHandled, ServerTypes
    <3>2. d # c => (Ready(d) <=> Ready(d)')
      BY <2>1, <2>4, CallMovesOne DEF RequestHandled, Ready
    <3>3. QED
      BY <1>1, <2>1, <2>2, <3>1, <3>2
  <2>5. QED
    BY <1>6, <2>3, <2>4 DEF RequestNext
<1>7. ASSUME NEW u \in UpgradeCallers, UpgradeNext(u) PROVE Rule
  <2>1. u \in Callers
    BY DEF Callers
  <2>2. d # u => /\ answer'[d] = answer[d]
                 /\ d \in UpgradeCallers => wait'[d] = wait[d]
    BY <1>7 DEF UpgradeNext, UpgradeOffline, UpgradeBusy, UpgradeHandled,
                OnlineTimeout, SocketPoll, SocketTimeout, ServerTypes
  <2>3. CASE UpgradeOffline(u) \/ UpgradeBusy(u)
    <3>1. UNCHANGED vars /\ Ready(u) /\ answer'[u] = "none"
      BY <2>1, <2>3 DEF UpgradeOffline, UpgradeBusy, Arrives, ServerTypes
    <3>2. QED
      BY <1>1, <1>3, <2>2, <3>1
  <2>4. CASE OnlineTimeout(u) \/ SocketTimeout(u)
    <3>1. UNCHANGED vars /\ wait[u] # "nothing" /\ wait'[u] = "nothing"
      BY <2>4 DEF OnlineTimeout, SocketTimeout, ServerTypes
    <3>2. QED
      BY <1>1, <1>3, <2>2, <3>1
  <2>5. CASE UpgradeHandled(u) \/ SocketPoll(u)
    <3>1. Upgrade(u) \/ UpgradeGone(u)
      BY <2>5 DEF UpgradeHandled, SocketPoll
    <3>2. d # u => (Ready(d) <=> Ready(d)')
      BY <2>1, <3>1, CallMovesOne DEF Ready
    <3>3. wait'[u] = "nothing"
      BY <2>5 DEF UpgradeHandled, SocketPoll, Arrives, ServerTypes
    <3>4. answer'[u] = "none"
      <4>1. CASE UpgradeHandled(u)
        BY <2>1, <4>1 DEF UpgradeHandled, ServerTypes
      <4>2. CASE SocketPoll(u)
        BY <2>1, <4>2 DEF SocketPoll, RefusedTakesNoSocket
      <4>3. QED
        BY <2>5, <4>1, <4>2
    <3>5. QED
      BY <1>1, <2>2, <3>2, <3>3, <3>4
  <2>6. QED
    BY <1>7, <2>3, <2>4, <2>5 DEF UpgradeNext
<1>8. CASE Unseen(AgentAlone)
  BY <1>2, <1>8, RestingStays DEF Unseen
<1>9. CASE UNCHANGED publicVars
  BY <1>2, <1>3, <1>9 DEF publicVars
<1>10. QED
  BY <1>4, <1>5, <1>6, <1>7, <1>8, <1>9 DEF PublicNext

\* No handler of server.js goes on after it has answered 503: a refused caller
\* neither holds a tunnel socket nor waits for one, whatever fires later.
THEOREM RefusedCorrect == PublicSpec => []RefusedTakesNoSocket
<1>1. PublicInit => RefusedTakesNoSocket
  BY DEF PublicInit, RefusedTakesNoSocket
<1>2. QED
  BY <1>1, StepRefused, ServerTypesInvariant, ServerUsesAgent, TypeCorrect,
     PoolInvariant, PTL DEF PublicSpec
=============================================================================

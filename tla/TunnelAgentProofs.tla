------------------------- MODULE TunnelAgentProofs -------------------------
(***************************************************************************)
(* Theorems about TunnelAgent, for every set of sockets and callers and    *)
(* every limit.                                                            *)
(***************************************************************************)
EXTENDS TunnelAgent, FiniteSetTheorems, TLAPS

-----------------------------------------------------------------------------
(* Sequences                                                               *)

LEMMA AppendType ==
  ASSUME NEW S, NEW seq \in Seq(S), NEW e \in S
  PROVE  Append(seq, e) \in Seq(S)
OBVIOUS

LEMMA TailType ==
  ASSUME NEW S, NEW seq \in Seq(S), seq # <<>>
  PROVE  /\ Tail(seq) \in Seq(S)
         /\ Head(seq) \in S
OBVIOUS

\* Splicing one element out of a sequence leaves a sequence over the same set.
LEMMA SpliceType ==
  ASSUME NEW S, NEW seq \in Seq(S), NEW idx \in 1..Len(seq)
  PROVE  SubSeq(seq, 1, idx-1) \o SubSeq(seq, idx+1, Len(seq)) \in Seq(S)
OBVIOUS

\* RemoveAvailable leaves a pool of sockets, and an empty pool empty.
LEMMA RemoveAvailableType ==
  ASSUME NEW s \in Sockets, availableSockets \in Seq(Sockets), RemoveAvailable(s)
  PROVE  /\ availableSockets' \in Seq(Sockets)
         /\ availableSockets = <<>> => availableSockets' = <<>>
<1>1. CASE UNCHANGED availableSockets
  BY <1>1
<1>2. ASSUME NEW idx \in 1..Len(availableSockets),
             availableSockets' = SubSeq(availableSockets, 1, idx-1)
                                   \o SubSeq(availableSockets, idx+1, Len(availableSockets))
      PROVE  /\ availableSockets' \in Seq(Sockets)
             /\ availableSockets = <<>> => availableSockets' = <<>>
  <2>1. availableSockets' \in Seq(Sockets)
    BY <1>2, SpliceType
  <2>2. availableSockets # <<>>
    BY <1>2
  <2>3. QED
    BY <2>1, <2>2
<1>3. QED
  BY <1>1, <1>2 DEF RemoveAvailable

-----------------------------------------------------------------------------
(* Type correctness                                                        *)

LEMMA InitType == Init => TypeOK
<1> SUFFICES ASSUME Init PROVE TypeOK
  OBVIOUS
<1>1. \A S : <<>> \in Seq(S)
  OBVIOUS
<1>2. closed \in BOOLEAN
  BY DEF Init
<1>3. QED
  BY <1>1, <1>2 DEF Init, TypeOK

LEMMA DestroyedType ==
  ASSUME TypeOK, NEW S
  PROVE  Destroyed(S) \in [Sockets -> {"away", "open", "dying", "refused"}]
BY DEF TypeOK, Destroyed

LEMMA CreateConnectionType ==
  ASSUME TypeOK, NEW c \in Callers, CreateConnection(c)
  PROVE  /\ availableSockets' \in Seq(Sockets)
         /\ waitingCreateConn' \in Seq(Callers)
         /\ phase' \in [Callers -> {"idle", "queued", "promised", "served", "failed"}]
         /\ given' \in [Callers -> Sockets \cup {NoSocket}]
<1>1. /\ availableSockets \in Seq(Sockets)
      /\ waitingCreateConn \in Seq(Callers)
      /\ phase \in [Callers -> {"idle", "queued", "promised", "served", "failed"}]
      /\ given \in [Callers -> Sockets \cup {NoSocket}]
  BY DEF TypeOK
<1>2. CASE closed /\ phase' = [phase EXCEPT ![c] = "failed"]
                  /\ UNCHANGED <<availableSockets, waitingCreateConn, given>>
  BY <1>1, <1>2
<1>3. CASE /\ availableSockets # <<>>
           /\ availableSockets' = Tail(availableSockets)
           /\ phase' = [phase EXCEPT ![c] = "served"]
           /\ given' = [given EXCEPT ![c] = Head(availableSockets)]
           /\ UNCHANGED waitingCreateConn
  <2>1. Tail(availableSockets) \in Seq(Sockets) /\ Head(availableSockets) \in Sockets
    BY <1>1, <1>3, TailType
  <2>2. QED
    BY <1>1, <1>3, <2>1
<1>4. CASE /\ waitingCreateConn' = Append(waitingCreateConn, c)
           /\ phase' = [phase EXCEPT ![c] = "queued"]
           /\ UNCHANGED <<availableSockets, given>>
  <2>1. waitingCreateConn' \in Seq(Callers)
    BY <1>1, <1>4, AppendType
  <2>2. QED
    BY <1>1, <1>4, <2>1
<1>5. QED
  BY <1>2, <1>3, <1>4 DEF CreateConnection

LEMMA StepType == TypeOK /\ [Next]_vars => TypeOK'
<1> SUFFICES ASSUME TypeOK, [Next]_vars PROVE TypeOK'
  OBVIOUS
<1>1. CASE Listen
  BY <1>1 DEF TypeOK, Listen, poolVars, callerVars
<1>2. CASE Bound
  BY <1>2 DEF TypeOK, Bound, poolVars, callerVars
<1>3. CASE Destroy
  BY <1>3, DestroyedType DEF TypeOK, Destroy, poolVars, callerVars
<1>4. CASE ServerClose
  BY <1>4 DEF TypeOK, ServerClose
<1>5. CASE FireHandoff
  <2>1. /\ handoffs' \in Seq(Handoff)
        /\ Head(handoffs).cb \in Callers
        /\ Head(handoffs).sock \in Sockets
    <3>1. Head(handoffs) \in Handoff /\ Tail(handoffs) \in Seq(Handoff)
      BY <1>5, TailType DEF TypeOK, FireHandoff
    <3>2. QED
      BY <1>5, <3>1 DEF FireHandoff, Handoff
  <2> DEFINE c == Head(handoffs).cb
             s == Head(handoffs).sock
  <2>2. CASE /\ phase' = [phase EXCEPT ![c] = "served"]
             /\ given' = [given EXCEPT ![c] = s]
             /\ UNCHANGED <<sockState, abandoned>>
    BY <1>5, <2>1, <2>2 DEF TypeOK, FireHandoff
  <2>3. CASE /\ phase' = [phase EXCEPT ![c] = "failed"]
             /\ sockState' = Destroyed({s})
             /\ abandoned' = abandoned \ {c}
             /\ UNCHANGED given
    BY <1>5, <2>1, <2>3, DestroyedType DEF TypeOK, FireHandoff
  <2>4. QED
    BY <1>5, <2>2, <2>3 DEF FireHandoff
<1>6. ASSUME NEW s \in Sockets, SocketNext(s) PROVE TypeOK'
  <2>1. CASE Refuse(s)
    BY <2>1 DEF TypeOK, Refuse, poolVars, callerVars
  <2>2. CASE Accept(s)
    <3>1. CASE waitingCreateConn # <<>>
      <4>1. /\ Head(waitingCreateConn) \in Callers
            /\ Tail(waitingCreateConn) \in Seq(Callers)
        BY <3>1, TailType DEF TypeOK
      <4>2. [cb |-> Head(waitingCreateConn), sock |-> s] \in Handoff
        BY <4>1 DEF Handoff
      <4>3. /\ waitingCreateConn' = Tail(waitingCreateConn)
            /\ handoffs' = Append(handoffs, [cb |-> Head(waitingCreateConn), sock |-> s])
            /\ phase' = [phase EXCEPT ![Head(waitingCreateConn)] = "promised"]
            /\ availableSockets' = availableSockets
        BY <2>2, <3>1 DEF Accept
      <4>4. handoffs \in Seq(Handoff)
        BY DEF TypeOK
      <4>5. handoffs' \in Seq(Handoff)
        BY <4>2, <4>3, <4>4, AppendType
      <4>6. QED
        BY <2>2, <4>1, <4>3, <4>5 DEF TypeOK, Accept
    <3>2. CASE waitingCreateConn = <<>>
      <4>1. /\ availableSockets' = Append(availableSockets, s)
            /\ UNCHANGED <<waitingCreateConn, handoffs, phase>>
        BY <2>2, <3>2 DEF Accept
      <4>2. availableSockets' \in Seq(Sockets)
        BY <4>1, AppendType DEF TypeOK
      <4>3. QED
        BY <2>2, <4>1, <4>2 DEF TypeOK, Accept
    <3>3. QED
      BY <3>1, <3>2
  <2>3. CASE RefusedClosed(s)
    BY <2>3 DEF TypeOK, RefusedClosed, poolVars, callerVars
  <2>4. CASE Disconnect(s)
    BY <2>4 DEF TypeOK, Disconnect, poolVars, callerVars
  <2>5. CASE SocketClosed(s)
    <3>1. availableSockets' \in Seq(Sockets)
      BY <2>5, RemoveAvailableType DEF TypeOK, SocketClosed
    <3>2. QED
      BY <2>5, <3>1 DEF TypeOK, SocketClosed
  <2>6. QED
    BY <1>6, <2>1, <2>2, <2>3, <2>4, <2>5 DEF SocketNext
<1>7. ASSUME NEW c \in Callers, CallerNext(c) PROVE TypeOK'
  <2>1. CASE Upgrade(c)
    BY <2>1, CreateConnectionType DEF TypeOK, Upgrade
  <2>2. CASE HttpRequest(c)
    BY <2>2, CreateConnectionType DEF TypeOK, HttpRequest
  <2>3. CASE HttpReuse(c)
    BY <2>3 DEF TypeOK, HttpReuse, poolVars
  <2>4. CASE Abandon(c)
    BY <2>4 DEF TypeOK, Abandon, poolVars
  <2>5. CASE FinishKeep(c)
    BY <2>5 DEF TypeOK, FinishKeep, poolVars
  <2>6. CASE FinishDestroy(c)
    BY <2>6, DestroyedType DEF TypeOK, FinishDestroy, poolVars
  <2>7. CASE UpgradeGone(c)
    <3>1. Tail(availableSockets) \in Seq(Sockets)
      BY <2>7, TailType DEF TypeOK, UpgradeGone
    <3>2. QED
      BY <2>7, <3>1, DestroyedType DEF TypeOK, UpgradeGone
  <2>8. QED
    BY <1>7, <2>1, <2>2, <2>3, <2>4, <2>5, <2>6, <2>7 DEF CallerNext
<1>8. CASE UNCHANGED vars
  BY <1>8 DEF TypeOK, vars, poolVars, callerVars
<1>9. QED
  BY <1>1, <1>2, <1>3, <1>4, <1>5, <1>6, <1>7, <1>8 DEF Next

\* Every variable of the agent keeps its type (the pool holds sockets, the
\* queue holds callers) in every behaviour of lib/TunnelAgent.js.
THEOREM TypeCorrect == Spec => []TypeOK
BY InitType, StepType, PTL DEF Spec

-----------------------------------------------------------------------------
(* No lost wake-up                                                         *)

LEMMA StepPoolOrQueueEmpty ==
  TypeOK /\ PoolOrQueueEmpty /\ [Next]_vars => PoolOrQueueEmpty'
<1> SUFFICES ASSUME TypeOK, PoolOrQueueEmpty, [Next]_vars PROVE PoolOrQueueEmpty'
  OBVIOUS
<1>1. ASSUME UNCHANGED <<availableSockets, waitingCreateConn>> PROVE PoolOrQueueEmpty'
  BY <1>1 DEF PoolOrQueueEmpty
<1>2. CASE Listen \/ Bound \/ Destroy
  BY <1>1, <1>2 DEF Listen, Bound, Destroy, poolVars
<1>3. CASE FireHandoff
  BY <1>1, <1>3 DEF FireHandoff
<1>4. CASE ServerClose
  BY <1>4 DEF ServerClose, PoolOrQueueEmpty
<1>5. ASSUME NEW s \in Sockets, SocketNext(s) PROVE PoolOrQueueEmpty'
  <2>1. CASE Refuse(s) \/ RefusedClosed(s) \/ Disconnect(s)
    BY <1>1, <2>1 DEF Refuse, RefusedClosed, Disconnect, poolVars
  <2>2. CASE Accept(s)
    <3>1. CASE waitingCreateConn # <<>>
      BY <2>2, <3>1 DEF Accept, PoolOrQueueEmpty
    <3>2. CASE waitingCreateConn = <<>>
      BY <2>2, <3>2 DEF Accept, PoolOrQueueEmpty
    <3>3. QED
      BY <3>1, <3>2
  <2>3. CASE SocketClosed(s)
    BY <2>3, RemoveAvailableType DEF TypeOK, SocketClosed, PoolOrQueueEmpty
  <2>4. QED
    BY <1>5, <2>1, <2>2, <2>3 DEF SocketNext
<1>6. ASSUME NEW c \in Callers, CallerNext(c) PROVE PoolOrQueueEmpty'
  <2>1. ASSUME CreateConnection(c) PROVE PoolOrQueueEmpty'
    BY <1>1, <2>1 DEF CreateConnection, PoolOrQueueEmpty
  <2>2. CASE Upgrade(c) \/ HttpRequest(c)
    BY <2>1, <2>2 DEF Upgrade, HttpRequest
  <2>3. CASE HttpReuse(c) \/ Abandon(c) \/ FinishKeep(c) \/ FinishDestroy(c)
    BY <1>1, <2>3 DEF HttpReuse, Abandon, FinishKeep, FinishDestroy, poolVars
  <2>4. CASE UpgradeGone(c)
    BY <2>4 DEF UpgradeGone, PoolOrQueueEmpty
  <2>5. QED
    BY <1>6, <2>2, <2>3, <2>4 DEF CallerNext
<1>7. CASE UNCHANGED vars
  BY <1>1, <1>7 DEF vars, poolVars
<1>8. QED
  BY <1>2, <1>3, <1>4, <1>5, <1>6, <1>7 DEF Next

\* No socket idles in the pool while a callback waits in the queue, however
\* connections, closes, requests and the flush of _onClose interleave.
THEOREM NoLostWakeup == Spec => []PoolOrQueueEmpty
<1>1. Init => PoolOrQueueEmpty
  BY DEF Init, PoolOrQueueEmpty
<1>2. QED
  BY <1>1, StepPoolOrQueueEmpty, TypeCorrect, PTL DEF Spec

-----------------------------------------------------------------------------
(* The connection count                                                    *)

LEMMA AcceptedFinite == IsFiniteSet(Accepted)
<1>1. Accepted \subseteq Sockets
  BY DEF Accepted
<1>2. QED
  BY <1>1, FS_Subset, AgentAssumption

\* Ending sockets leaves their 'close' to come: the accepted sockets are the same.
LEMMA DestroyedAccepted ==
  ASSUME TypeOK, NEW S, sockState' = Destroyed(S)
  PROVE  Accepted' = Accepted
BY DEF TypeOK, Destroyed, Accepted

LEMMA StepCountExact == TypeOK /\ CountExact /\ [Next]_vars => CountExact'
<1> SUFFICES ASSUME TypeOK, CountExact, [Next]_vars PROVE CountExact'
  OBVIOUS
<1>1. ASSUME connectedSockets' = connectedSockets, Accepted' = Accepted PROVE CountExact'
  BY <1>1 DEF CountExact
<1>2. ASSUME UNCHANGED sockState PROVE Accepted' = Accepted
  BY <1>2 DEF Accepted
<1>3. CASE Listen \/ Bound \/ ServerClose
  BY <1>1, <1>2, <1>3 DEF Listen, Bound, ServerClose, poolVars
<1>4. CASE Destroy
  BY <1>1, <1>4, DestroyedAccepted DEF Destroy, poolVars
<1>5. CASE FireHandoff
  <2>1. connectedSockets' = connectedSockets
    BY <1>5 DEF FireHandoff
  <2>2. UNCHANGED sockState \/ sockState' = Destroyed({Head(handoffs).sock})
    BY <1>5 DEF FireHandoff
  <2>3. QED
    BY <1>1, <1>2, <2>1, <2>2, DestroyedAccepted
<1>6. ASSUME NEW s \in Sockets, SocketNext(s) PROVE CountExact'
  <2>1. CASE Refuse(s)
    <3>1. Accepted' = Accepted
      BY <2>1 DEF Refuse, Connectable, Accepted, TypeOK
    <3>2. QED
      BY <1>1, <2>1, <3>1 DEF Refuse, poolVars
  <2>2. CASE RefusedClosed(s)
    <3>1. Accepted' = Accepted
      BY <2>2 DEF RefusedClosed, Accepted, TypeOK
    <3>2. QED
      BY <1>1, <2>2, <3>1 DEF RefusedClosed, poolVars
  <2>3. CASE Disconnect(s)
    <3>1. Accepted' = Accepted
      BY <2>3 DEF Disconnect, Accepted, TypeOK
    <3>2. QED
      BY <1>1, <2>3, <3>1 DEF Disconnect, poolVars
  <2>4. CASE Accept(s)
    <3>1. Accepted' = Accepted \cup {s} /\ s \notin Accepted
      BY <2>4 DEF Accept, Connectable, Accepted, TypeOK
    <3>2. Cardinality(Accepted') = Cardinality(Accepted) + 1
      BY <3>1, AcceptedFinite, FS_AddElement
    <3>3. connectedSockets' = connectedSockets + 1 /\ connectedSockets < MaxTcpSockets
      BY <2>4 DEF Accept
    <3>4. QED
      BY <3>2, <3>3, AgentAssumption DEF CountExact, TypeOK
  <2>5. CASE SocketClosed(s)
    <3>1. Accepted' = Accepted \ {s} /\ s \in Accepted
      BY <2>5 DEF SocketClosed, Accepted, TypeOK
    <3>2. Cardinality(Accepted') = Cardinality(Accepted) - 1
      BY <3>1, AcceptedFinite, FS_RemoveElement
    <3>3. connectedSockets' = connectedSockets - 1
      BY <2>5 DEF SocketClosed
    <3>4. QED
      BY <3>2, <3>3, AgentAssumption DEF CountExact, TypeOK
  <2>6. QED
    BY <1>6, <2>1, <2>2, <2>3, <2>4, <2>5 DEF SocketNext
<1>7. ASSUME NEW c \in Callers, CallerNext(c) PROVE CountExact'
  <2>1. CASE Upgrade(c) \/ HttpRequest(c) \/ HttpReuse(c) \/ Abandon(c) \/ FinishKeep(c)
    BY <1>1, <1>2, <2>1 DEF Upgrade, HttpRequest, HttpReuse, Abandon, FinishKeep, poolVars
  <2>2. CASE FinishDestroy(c)
    BY <1>1, <2>2, DestroyedAccepted DEF FinishDestroy, poolVars
  <2>3. CASE UpgradeGone(c)
    BY <1>1, <2>3, DestroyedAccepted DEF UpgradeGone
  <2>4. QED
    BY <1>7, <2>1, <2>2, <2>3 DEF CallerNext
<1>8. CASE UNCHANGED vars
  BY <1>1, <1>2, <1>8 DEF vars, poolVars
<1>9. QED
  BY <1>3, <1>4, <1>5, <1>6, <1>7, <1>8 DEF Next

\* The counter agrees with the accepted sockets whose 'close' is to come and
\* respects the limit, for every limit: so 'online' and 'offline' are emitted
\* exactly on the first connection and the last close.
THEOREM CountCorrect == Spec => []CountExact
<1>1. Init => CountExact
  <2> SUFFICES ASSUME Init PROVE CountExact
    OBVIOUS
  <2>1. Accepted = {}
    BY DEF Init, Accepted
  <2>2. Cardinality(Accepted) = 0
    BY <2>1, FS_EmptySet
  <2>3. QED
    BY <2>2, AgentAssumption DEF Init, CountExact
<1>2. QED
  BY <1>1, StepCountExact, TypeCorrect, PTL DEF Spec
=============================================================================

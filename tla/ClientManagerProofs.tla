------------------------ MODULE ClientManagerProofs ------------------------
(***************************************************************************)
(* Theorems about ClientManager, for every set of ids, identities and      *)
(* clients, every port range, limit and mode.  Those about ownership       *)
(* assume that hri.random() returns an id that is not in use.              *)
(***************************************************************************)
EXTENDS ClientManager, FiniteSetTheorems, TLAPS

-----------------------------------------------------------------------------
(* Types                                                                   *)

\* A client with a 'close' listener has an id, which the listener captured.
ListenerHasId == \A k \in closeListener : clientId[k] \in Ids

LEMMA PortRangeType == PortRange \in Seq(Ports)
<1>1. CASE RangeConfigured
  <2>1. PortStart \in Int /\ PortEnd \in Int
    BY ManagerAssumption
  <2>2. Ports = PortStart..PortEnd
    BY <1>1 DEF Ports
  <2>3. Cardinality(Ports) = IF PortStart > PortEnd THEN 0 ELSE PortEnd - PortStart + 1
    BY <2>1, <2>2, FS_Interval
  <2>4. Cardinality(Ports) \in Nat
    BY <2>1, <2>3
  <2>5. \A i \in 1..Cardinality(Ports) : PortStart + i - 1 \in Ports
    BY <2>1, <2>2, <2>3
  <2>6. QED
    BY <2>4, <2>5 DEF PortRange
<1>2. CASE ~RangeConfigured
  <2>1. Cardinality(Ports) = 0
    BY <1>2, FS_EmptySet DEF Ports
  <2>2. PortRange = <<>>
    BY <2>1 DEF PortRange
  <2>3. QED
    BY <2>2
<1>3. QED
  BY <1>1, <1>2

LEMMA InitType == Init => TypeOK /\ ListenerHasId
<1> SUFFICES ASSUME Init PROVE TypeOK /\ ListenerHasId
  OBVIOUS
<1>1. availablePorts \in Seq(Ports)
  BY PortRangeType DEF Init
<1>2. QED
  BY <1>1 DEF Init, TypeOK, ListenerHasId

\* _releasePort leaves a pool of ports and a set of ports in use.
LEMMA ReleaseType ==
  ASSUME TypeOK, NEW k \in Clients \cup {None}
  PROVE  PoolWith(k) \in Seq(Ports) /\ UsedWithout(k) \in SUBSET Ports
<1>1. availablePorts \in Seq(Ports) /\ usedPorts \in SUBSET Ports
  BY DEF TypeOK
<1>2. UsedWithout(k) \in SUBSET Ports
  BY <1>1 DEF UsedWithout
<1>3. CASE k # None /\ port[k] \in usedPorts
  <2>1. port[k] \in Ports
    BY <1>1, <1>3
  <2>2. Append(availablePorts, port[k]) \in Seq(Ports)
    BY <1>1, <2>1
  <2>3. QED
    BY <1>2, <1>3, <2>2 DEF PoolWith
<1>4. CASE ~(k # None /\ port[k] \in usedPorts)
  BY <1>1, <1>2, <1>4 DEF PoolWith
<1>5. QED
  BY <1>3, <1>4

\* What Create does, with the client it makes picked out.
CreatesClient(id, who, old, k) ==
  /\ k \in Clients
  /\ Unused(k)
  /\ clients' = [clients EXCEPT ![id] = k]
  /\ clientId' = [clientId EXCEPT ![k] = id]
  /\ identifier' = [identifier EXCEPT ![k] = who]
  /\ server' = [l \in Clients |-> IF l = k THEN "binding"
                                  ELSE IF l = old THEN "closed" ELSE server[l]]
  /\ call' = [call EXCEPT ![k] = "pending"]
  /\ immediate' = immediate \cup {k}
  /\ isOnline' = isOnline \ {k}
  /\ graceTimeout' = graceTimeout \ {old}
  /\ closeListener' = (closeListener \ {old}) \cup {k}
  /\ connectedSockets' = connectedSockets

LEMMA CreateType ==
  ASSUME TypeOK, ListenerHasId, NEW id \in Ids, NEW who \in Identities,
         NEW old \in Clients \cup {None}, Create(id, who, old)
  PROVE  TypeOK' /\ ListenerHasId'
<1> DEFINE pool == PoolWith(old)
           p    == IF pool = <<>> THEN NoPort ELSE Head(pool)
<1>1. pool \in Seq(Ports) /\ UsedWithout(old) \in SUBSET Ports
  BY ReleaseType
<1> HIDE DEF pool
<1>2. p \in Ports \cup {NoPort}
  BY <1>1
<1>3. (IF pool = <<>> THEN pool ELSE Tail(pool)) \in Seq(Ports)
  BY <1>1
<1> HIDE DEF p
<1>4. /\ availablePorts' \in Seq(Ports)
      /\ usedPorts' = UsedWithout(old) \cup ({p} \ {NoPort})
      /\ tunnels' = IF old = None THEN tunnels ELSE tunnels - 1
  BY <1>3 DEF Create, pool, p
<1>5. usedPorts' \in SUBSET Ports
  BY <1>1, <1>2, <1>4
<1>6. tunnels' \in Int
  BY <1>4 DEF TypeOK
<1>7. PICK k \in Clients : CreatesClient(id, who, old, k) /\ port' = [port EXCEPT ![k] = p]
  BY DEF Create, CreatesClient, pool, p
<1>8. /\ clients' \in [Ids -> Clients \cup {None}]
      /\ clientId' \in [Clients -> Ids \cup {None}]
      /\ identifier' \in [Clients -> Identities \cup {None}]
      /\ port' \in [Clients -> Ports \cup {NoPort}]
  BY <1>2, <1>7 DEF CreatesClient, TypeOK
<1>9. /\ server' \in [Clients -> {"none", "binding", "listening", "failed", "closed"}]
      /\ call' \in [Clients -> {"none", "pending", "settled"}]
  BY <1>7 DEF CreatesClient, TypeOK
<1>10. /\ immediate' \in SUBSET Clients
       /\ isOnline' \in SUBSET Clients
       /\ graceTimeout' \in SUBSET Clients
       /\ closeListener' \in SUBSET Clients
       /\ connectedSockets' \in [Clients -> Int]
  BY <1>7 DEF CreatesClient, TypeOK
<1>11. ListenerHasId'
  <2> SUFFICES ASSUME NEW l \in closeListener' PROVE clientId'[l] \in Ids
    BY DEF ListenerHasId
  <2>1. l \in Clients
    BY <1>10
  <2>2. CASE l = k
    BY <1>7, <2>1, <2>2 DEF CreatesClient, TypeOK
  <2>3. CASE l # k
    BY <1>7, <2>1, <2>3 DEF CreatesClient, TypeOK, ListenerHasId
  <2>4. QED
    BY <2>2, <2>3
<1>12. QED
  BY <1>4, <1>5, <1>6, <1>8, <1>9, <1>10, <1>11 DEF TypeOK

\* Every call of newClient that gets to its await is a Create for the id asked
\* for or, when hri.random() is fresh, for one that nobody has.
LEMMA CallCreates ==
  ASSUME TypeOK, NEW id \in Ids, NEW who \in Identities, NEW explicit \in BOOLEAN,
         NewClient(id, who) \/ Reconnect(id, who, explicit) \/ AssignRandom(id, who, explicit)
  PROVE  \E i \in Ids, old \in Clients \cup {None} :
           /\ Create(i, who, old)
           /\ old # None => old = clients[i] /\ identifier[old] = who
           /\ old = None => (HriFresh => clients[i] = None)
<1>1. CASE NewClient(id, who)
  BY <1>1 DEF NewClient
<1>2. CASE Reconnect(id, who, explicit)
  <2>1. clients[id] \in Clients \cup {None} /\ clients[id] # None
    BY <1>2 DEF Reconnect, TypeOK
  <2>2. Create(id, who, clients[id]) /\ identifier[clients[id]] = who
    BY <1>2 DEF Reconnect
  <2>3. QED
    BY <2>1, <2>2
<1>3. CASE AssignRandom(id, who, explicit)
  BY <1>3 DEF AssignRandom, RandomId
<1>4. QED
  BY <1>1, <1>2, <1>3

\* The client that the expiry of k's timer removes from the map.
Victim(k) == IF k \in closeListener THEN clients[clientId[k]] ELSE None

LEMMA VictimType ==
  ASSUME TypeOK, ListenerHasId, NEW k \in Clients
  PROVE  Victim(k) \in Clients \cup {None}
BY DEF TypeOK, ListenerHasId, Victim

\* Everything but the two lists of ports; the call that throws leaves it alone.
portless == <<clients, tunnels, birthVars, server, call, immediate, isOnline,
              graceTimeout, closeListener, connectedSockets>>

LEMMA ThrowOrStutter ==
  ASSUME UNCHANGED vars \/ \E id \in Accessors : CreateThrows(id)
  PROVE  UNCHANGED portless
BY DEF vars, managerVars, CreateThrows, portless

LEMMA ThrowType ==
  ASSUME TypeOK, NEW id \in Accessors, CreateThrows(id)
  PROVE  availablePorts' \in Seq(Ports) /\ usedPorts' \in SUBSET Ports
<1>1. availablePorts \in Seq(Ports) /\ usedPorts \in SUBSET Ports /\ availablePorts # <<>>
  BY DEF TypeOK, CreateThrows
<1>2. Tail(availablePorts) \in Seq(Ports) /\ Head(availablePorts) \in Ports
  BY <1>1
<1>3. QED
  BY <1>1, <1>2 DEF CreateThrows

LEMMA StepType == TypeOK /\ ListenerHasId /\ [Next]_vars => TypeOK' /\ ListenerHasId'
<1> SUFFICES ASSUME TypeOK, ListenerHasId, [Next]_vars PROVE TypeOK' /\ ListenerHasId'
  OBVIOUS
<1>1. ASSUME NEW id \in Ids, NEW who \in Identities, NEW explicit \in BOOLEAN,
             NewClient(id, who) \/ Reconnect(id, who, explicit) \/ AssignRandom(id, who, explicit)
      PROVE  TypeOK' /\ ListenerHasId'
  BY <1>1, CallCreates, CreateType
<1>2. ASSUME NEW k \in Clients, ClientNext(k) PROVE TypeOK' /\ ListenerHasId'
  <2>1. CASE Listening(k)
    BY <2>1 DEF Listening, TypeOK, ListenerHasId, birthVars
  <2>2. CASE ListenError(k)
    BY <2>2 DEF ListenError, TypeOK, ListenerHasId, managerVars, birthVars
  <2>3. CASE RunImmediate(k)
    BY <2>3 DEF RunImmediate, TypeOK, ListenerHasId, managerVars, birthVars
  <2>4. CASE Accept(k)
    BY <2>4 DEF Accept, TypeOK, ListenerHasId, managerVars, birthVars
  <2>5. CASE SocketClosed(k)
    BY <2>5 DEF SocketClosed, TypeOK, ListenerHasId, managerVars, birthVars
  <2>6. CASE GraceExpired(k)
    <3>1. Victim(k) \in Clients \cup {None}
      BY VictimType
    <3>2. availablePorts' \in Seq(Ports) /\ usedPorts' \in SUBSET Ports
      BY <2>6, <3>1, ReleaseType DEF GraceExpired, Victim
    <3>3. clients' \in [Ids -> Clients \cup {None}] /\ tunnels' \in Int
      BY <2>6 DEF GraceExpired, TypeOK
    <3>4. server' \in [Clients -> {"none", "binding", "listening", "failed", "closed"}]
      BY <2>6 DEF GraceExpired, TypeOK
    <3>5. graceTimeout' \in SUBSET Clients /\ closeListener' \subseteq closeListener
      BY <2>6 DEF GraceExpired, TypeOK
    <3>6. UNCHANGED <<birthVars, call, immediate, isOnline, connectedSockets>>
      BY <2>6 DEF GraceExpired
    <3>7. QED
      BY <3>2, <3>3, <3>4, <3>5, <3>6 DEF TypeOK, ListenerHasId, birthVars
  <2>7. QED
    BY <1>2, <2>1, <2>2, <2>3, <2>4, <2>5, <2>6 DEF ClientNext
<1>3. CASE UNCHANGED vars
  BY <1>3 DEF vars, managerVars, birthVars, TypeOK, ListenerHasId
<1>4. ASSUME NEW id \in Accessors, CreateThrows(id) PROVE TypeOK' /\ ListenerHasId'
  BY <1>4, ThrowType, ThrowOrStutter DEF portless, birthVars, TypeOK, ListenerHasId
<1>5. QED
  <2>1. ASSUME NEW id \in Ids, NEW who \in Identities, NewClient(id, who)
        PROVE  TypeOK' /\ ListenerHasId'
    BY <1>1, <2>1
  <2>2. QED
    BY <1>1, <1>2, <1>3, <1>4, <2>1 DEF Next

LEMMA TypeInvariant == Spec => [](TypeOK /\ ListenerHasId)
BY InitType, StepType, PTL DEF Spec

\* The manager's maps, pools and counters and its clients' states keep their
\* types in every behaviour; the victim of a nested removal is always a client.
THEOREM TypeCorrect == Spec => []TypeOK
BY TypeInvariant, PTL

-----------------------------------------------------------------------------
(* The clients in the map                                                  *)

\* What of MapMatchesClients holds with any random ids: a client in the map is
\* under its own id, not closed, and its 'close' will remove what the map has
\* for that id.
MappedListened ==
  \A i \in Ids : clients[i] # None =>
    /\ clientId[clients[i]] = i
    /\ server[clients[i]] # "closed"
    /\ clients[i] \in closeListener

LEMMA CreateListened ==
  ASSUME TypeOK, MappedListened, NEW id \in Ids, NEW who \in Identities,
         NEW old \in Clients \cup {None}, Create(id, who, old),
         old # None => old = clients[id]
  PROVE  MappedListened'
<1>0. None \notin Clients
  BY ManagerAssumption
<1>1. PICK k \in Clients : CreatesClient(id, who, old, k)
  BY DEF Create, CreatesClient
<1>2. \A i \in Ids : clients[i] # k
  BY <1>1 DEF CreatesClient, Unused, Mapped
<1>3. /\ clients'[id] = k /\ clientId'[k] = id
      /\ server'[k] = "binding" /\ k \in closeListener'
  BY <1>1 DEF CreatesClient, TypeOK
<1>4. ASSUME NEW i \in Ids, i # id, clients'[i] # None
      PROVE  /\ clientId'[clients'[i]] = i
             /\ server'[clients'[i]] # "closed"
             /\ clients'[i] \in closeListener'
  <2> DEFINE l == clients[i]
  <2>1. clients'[i] = l /\ l \in Clients /\ l # k
    BY <1>1, <1>2, <1>4 DEF CreatesClient, TypeOK
  <2>2. clientId[l] = i /\ server[l] # "closed" /\ l \in closeListener
    BY <1>4, <2>1 DEF MappedListened
  <2>3. l # old
    BY <1>0, <1>4, <2>1, <2>2 DEF MappedListened
  <2>4. clientId'[l] = clientId[l] /\ server'[l] = server[l] /\ l \in closeListener'
    BY <1>1, <2>1, <2>2, <2>3 DEF CreatesClient, TypeOK
  <2>5. QED
    BY <2>1, <2>2, <2>4
<1>5. QED
  BY <1>3, <1>4 DEF MappedListened

\* A client that the map still has after a timer expired is neither the timer's
\* nor the one that was removed in its stead.
LEMMA ExpirySpares ==
  ASSUME TypeOK, ListenerHasId, MappedListened, NEW k \in Clients, GraceExpired(k),
         NEW i \in Ids, clients'[i] # None
  PROVE  clients'[i] = clients[i] /\ clients[i] \in Clients /\ clients[i] \notin {k, Victim(k)}
<1>0. None \notin Clients
  BY ManagerAssumption
<1>1. CASE Victim(k) = None
  <2>1. clients' = clients
    BY <1>1 DEF GraceExpired, Victim
  <2>2. clients[i] \in Clients
    BY <2>1 DEF TypeOK
  <2>3. clients[i] # k
    BY <1>0, <1>1, <2>2 DEF MappedListened, Victim
  <2>4. QED
    BY <1>0, <1>1, <2>1, <2>2, <2>3
<1>2. CASE Victim(k) # None
  <2> DEFINE c == clientId[k]
  <2>1. k \in closeListener /\ c \in Ids /\ Victim(k) = clients[c]
    BY <1>2 DEF Victim, ListenerHasId
  <2>2. clients' = [clients EXCEPT ![c] = None]
    BY <1>2 DEF GraceExpired, Victim
  <2> HIDE DEF c
  <2>3. i # c /\ clients'[i] = clients[i] /\ clients[i] \in Clients
    BY <2>1, <2>2 DEF TypeOK
  <2>4. clientId[clients[i]] = i /\ clientId[clients[c]] = c /\ clientId[k] = c
    BY <1>0, <1>2, <2>1, <2>3 DEF MappedListened, c
  <2>5. QED
    BY <2>1, <2>3, <2>4
<1>3. QED
  BY <1>1, <1>2

LEMMA ExpiryListened ==
  ASSUME TypeOK, ListenerHasId, MappedListened, NEW k \in Clients, GraceExpired(k)
  PROVE  MappedListened'
<1>1. /\ clientId' = clientId
      /\ closeListener' = closeListener \ {k, Victim(k)}
      /\ server' = [l \in Clients |-> IF l \in {k, Victim(k)} THEN "closed" ELSE server[l]]
  BY DEF GraceExpired, Victim, birthVars
<1> SUFFICES ASSUME NEW i \in Ids, clients'[i] # None
             PROVE  /\ clientId'[clients'[i]] = i
                    /\ server'[clients'[i]] # "closed"
                    /\ clients'[i] \in closeListener'
  BY DEF MappedListened
<1>2. clients'[i] = clients[i] /\ clients[i] \in Clients /\ clients[i] \notin {k, Victim(k)}
  BY ExpirySpares
<1>3. clientId[clients[i]] = i /\ server[clients[i]] # "closed" /\ clients[i] \in closeListener
  BY <1>2 DEF MappedListened
<1>4. QED
  BY <1>1, <1>2, <1>3

LEMMA StepListened ==
  ASSUME TypeOK, ListenerHasId, MappedListened, [Next]_vars
  PROVE  MappedListened'
<1>1. ASSUME NEW id \in Ids, NEW who \in Identities, NEW explicit \in BOOLEAN,
             NewClient(id, who) \/ Reconnect(id, who, explicit) \/ AssignRandom(id, who, explicit)
      PROVE  MappedListened'
  <2>1. PICK i \in Ids, old \in Clients \cup {None} :
          Create(i, who, old) /\ (old # None => old = clients[i])
    BY <1>1, CallCreates
  <2>2. QED
    BY <2>1, CreateListened
<1>2. ASSUME NEW k \in Clients, ClientNext(k) PROVE MappedListened'
  <2>1. CASE GraceExpired(k)
    BY <2>1, ExpiryListened
  <2>2. CASE Listening(k)
    BY <2>2 DEF Listening, birthVars, TypeOK, MappedListened
  <2>3. CASE ListenError(k)
    BY <2>3 DEF ListenError, managerVars, birthVars, TypeOK, MappedListened
  <2>4. CASE RunImmediate(k) \/ Accept(k) \/ SocketClosed(k)
    BY <2>4 DEF RunImmediate, Accept, SocketClosed, managerVars, birthVars, MappedListened
  <2>5. QED
    BY <1>2, <2>1, <2>2, <2>3, <2>4 DEF ClientNext
<1>3. CASE UNCHANGED portless
  BY <1>3 DEF portless, birthVars, MappedListened
<1>4. ASSUME NEW id \in Ids, NEW who \in Identities, NewClient(id, who) PROVE MappedListened'
  BY <1>1, <1>4
<1>5. QED
  BY <1>1, <1>2, <1>3, <1>4, ThrowOrStutter DEF Next

\* A client in the map is under its own id, open and listened to in every
\* behaviour, also when hri.random() returns an id in use and its client is
\* written over: a removal closes the client that the map has at that moment.
THEOREM ListenedCorrect == Spec => []MappedListened
<1>1. Init => MappedListened
  BY DEF Init, MappedListened
<1>2. QED
  BY <1>1, StepListened, TypeInvariant, PTL DEF Spec

-----------------------------------------------------------------------------
(* The map and the listeners                                               *)

LEMMA CreateMap ==
  ASSUME TypeOK, ListenerHasId, MapMatchesClients,
         NEW id \in Ids, NEW who \in Identities,
         NEW old \in Clients \cup {None}, Create(id, who, old),
         old = clients[id]
  PROVE  MapMatchesClients'
<1>1. PICK k \in Clients : CreatesClient(id, who, old, k)
  BY DEF Create, CreatesClient
<1>2. /\ k \notin closeListener
      /\ \A i \in Ids : clients[i] # k
  BY <1>1 DEF CreatesClient, Unused, Mapped
<1>3. None \notin Clients
  BY ManagerAssumption
<1>4. /\ clients'[id] = k
      /\ clientId'[k] = id
      /\ server'[k] = "binding"
      /\ k \in closeListener'
  BY <1>1 DEF CreatesClient, TypeOK
<1>5. ASSUME NEW i \in Ids, clients'[i] # None
      PROVE  /\ clientId'[clients'[i]] = i
             /\ server'[clients'[i]] # "closed"
             /\ clients'[i] \in closeListener'
  <2>1. CASE i = id
    BY <1>4, <2>1
  <2>2. CASE i # id
    <3> DEFINE l == clients[i]
    <3>1. clients'[i] = l /\ l \in Clients /\ l # k
      BY <1>1, <1>2, <1>5, <2>2 DEF CreatesClient, TypeOK
    <3>2. clientId[l] = i /\ server[l] # "closed" /\ l \in closeListener
      BY <1>5, <3>1 DEF MapMatchesClients
    <3>3. l # old
      BY <1>3, <2>2, <3>1, <3>2 DEF MapMatchesClients
    <3>4. clientId'[l] = clientId[l] /\ server'[l] = server[l] /\ l \in closeListener'
      BY <1>1, <3>1, <3>2, <3>3 DEF CreatesClient, TypeOK
    <3>5. QED
      BY <3>1, <3>2, <3>4
  <2>3. QED
    BY <2>1, <2>2
<1>6. ASSUME NEW l \in closeListener' PROVE clients'[clientId'[l]] = l
  <2>1. CASE l = k
    BY <1>4, <2>1
  <2>2. CASE l # k
    <3>1. l \in closeListener /\ l # old /\ l \in Clients
      BY <1>1, <1>6, <2>2 DEF CreatesClient, TypeOK
    <3>2. clients[clientId[l]] = l /\ clientId[l] \in Ids
      BY <3>1 DEF MapMatchesClients, ListenerHasId
    <3>3. clientId[l] # id
      BY <3>1, <3>2
    <3>4. clientId'[l] = clientId[l]
      BY <1>1, <2>2, <3>1 DEF CreatesClient, TypeOK
    <3>5. QED
      BY <1>1, <3>2, <3>3, <3>4 DEF CreatesClient, TypeOK
  <2>3. QED
    BY <2>1, <2>2
<1>7. QED
  BY <1>5, <1>6 DEF MapMatchesClients

\* When the map matches the clients, an expiring timer removes its own client
\* or, its listener spent, nobody.
LEMMA VictimIsSelf ==
  ASSUME MapMatchesClients, NEW k \in Clients
  PROVE  Victim(k) \in {k, None}
BY DEF MapMatchesClients, Victim

LEMMA ExpiryMap ==
  ASSUME TypeOK, ListenerHasId, MapMatchesClients, NEW k \in Clients, GraceExpired(k)
  PROVE  MapMatchesClients'
<1>1. None \notin Clients
  BY ManagerAssumption
<1>2. CASE Victim(k) = None
  <2>1. UNCHANGED <<clients, clientId>>
    BY <1>2 DEF GraceExpired, Victim, birthVars
  <2>2. k \notin closeListener
    BY <1>1, <1>2 DEF Victim, MapMatchesClients
  <2>3. closeListener' = closeListener
    BY <1>1, <1>2, <2>2 DEF GraceExpired, Victim, TypeOK
  <2>4. \A l \in Clients : l # k => server'[l] = server[l]
    BY <1>1, <1>2 DEF GraceExpired, Victim, TypeOK
  <2>5. QED
    BY <2>1, <2>2, <2>3, <2>4 DEF MapMatchesClients, TypeOK
<1>3. CASE Victim(k) = k
  <2>1. k \in closeListener /\ clientId[k] \in Ids /\ clients[clientId[k]] = k
    BY <1>1, <1>3 DEF Victim, MapMatchesClients, ListenerHasId
  <2>2. /\ clients' = [clients EXCEPT ![clientId[k]] = None]
        /\ clientId' = clientId
        /\ closeListener' = closeListener \ {k}
        /\ server' = [l \in Clients |-> IF l = k THEN "closed" ELSE server[l]]
    BY <1>1, <1>3 DEF GraceExpired, Victim, birthVars
  <2>3. ASSUME NEW i \in Ids, clients'[i] # None
        PROVE  /\ clientId'[clients'[i]] = i
               /\ server'[clients'[i]] # "closed"
               /\ clients'[i] \in closeListener'
    <3>1. i # clientId[k] /\ clients'[i] = clients[i] /\ clients[i] \in Clients
      BY <2>2, <2>3 DEF TypeOK
    <3>2. clients[i] # k
      BY <2>1, <3>1, <1>1 DEF MapMatchesClients
    <3>3. QED
      BY <1>1, <2>2, <3>1, <3>2 DEF MapMatchesClients
  <2>4. ASSUME NEW l \in closeListener' PROVE clients'[clientId'[l]] = l
    <3>1. l \in closeListener /\ l # k /\ clientId[l] \in Ids /\ clients[clientId[l]] = l
      BY <2>2, <2>4 DEF MapMatchesClients, ListenerHasId
    <3>2. clientId[l] # clientId[k]
      BY <2>1, <3>1
    <3>3. QED
      BY <2>2, <3>1, <3>2 DEF TypeOK
  <2>5. QED
    BY <2>3, <2>4 DEF MapMatchesClients
<1>4. QED
  BY <1>2, <1>3, VictimIsSelf

\* When hri.random() is fresh, a call of newClient replaces exactly the client
\* the map has for the id it ends up with, if there is one.
LEMMA CallReplaces ==
  ASSUME HriFresh, TypeOK,
         NEW id \in Ids, NEW who \in Identities, NEW explicit \in BOOLEAN,
         NewClient(id, who) \/ Reconnect(id, who, explicit) \/ AssignRandom(id, who, explicit)
  PROVE  \E i \in Ids : /\ clients[i] \in Clients \cup {None}
                        /\ Create(i, who, clients[i])
                        /\ clients[i] # None => identifier[clients[i]] = who
<1>1. PICK i \in Ids, old \in Clients \cup {None} :
        /\ Create(i, who, old)
        /\ old # None => old = clients[i] /\ identifier[old] = who
        /\ old = None => (HriFresh => clients[i] = None)
  BY CallCreates
<1>2. old = clients[i]
  BY <1>1
<1>3. QED
  BY <1>1, <1>2

LEMMA StepMap ==
  ASSUME HriFresh, TypeOK, ListenerHasId, MapMatchesClients, [Next]_vars
  PROVE  MapMatchesClients'
<1>1. ASSUME NEW id \in Ids, NEW who \in Identities, NEW explicit \in BOOLEAN,
             NewClient(id, who) \/ Reconnect(id, who, explicit) \/ AssignRandom(id, who, explicit)
      PROVE  MapMatchesClients'
  <2>1. PICK i \in Ids : clients[i] \in Clients \cup {None} /\ Create(i, who, clients[i])
    BY <1>1, CallReplaces
  <2>2. QED
    BY <2>1, CreateMap
<1>2. ASSUME NEW k \in Clients, ClientNext(k) PROVE MapMatchesClients'
  <2>1. CASE GraceExpired(k)
    BY <2>1, ExpiryMap
  <2>2. CASE Listening(k)
    BY <2>2 DEF Listening, birthVars, TypeOK, MapMatchesClients
  <2>3. CASE ListenError(k)
    BY <2>3 DEF ListenError, managerVars, birthVars, TypeOK, MapMatchesClients
  <2>4. CASE RunImmediate(k)
    BY <2>4 DEF RunImmediate, managerVars, birthVars, MapMatchesClients
  <2>5. CASE Accept(k)
    BY <2>5 DEF Accept, managerVars, birthVars, MapMatchesClients
  <2>6. CASE SocketClosed(k)
    BY <2>6 DEF SocketClosed, managerVars, birthVars, MapMatchesClients
  <2>7. QED
    BY <1>2, <2>1, <2>2, <2>3, <2>4, <2>5, <2>6 DEF ClientNext
<1>3. CASE UNCHANGED portless
  BY <1>3 DEF portless, birthVars, MapMatchesClients
<1>4. QED
  <2>1. ASSUME NEW id \in Ids, NEW who \in Identities, NewClient(id, who)
        PROVE  MapMatchesClients'
    BY <1>1, <2>1
  <2>2. QED
    BY <1>1, <1>2, <1>3, <2>1, ThrowOrStutter DEF Next

\* The map and the clients agree in every behaviour: a client in the map is
\* open, under its id and will be removed when it closes, and one that would
\* be removed is in the map, for any number of nested removals.
THEOREM MapCorrect == ASSUME HriFresh PROVE Spec => []MapMatchesClients
<1>1. Init => MapMatchesClients
  BY DEF Init, MapMatchesClients
<1>2. TypeOK /\ ListenerHasId /\ MapMatchesClients /\ [Next]_vars => MapMatchesClients'
  BY StepMap
<1>3. QED
  BY <1>1, <1>2, TypeInvariant, PTL DEF Spec

\* A step that changes the map's entry of an id removes the client whose timer
\* expired, fills an empty entry, or replaces a client by one of its identity.
LEMMA StepHandsOver ==
  ASSUME HriFresh, TypeOK, ListenerHasId, MapMatchesClients, [Next]_vars,
         NEW i \in Ids, clients'[i] # clients[i]
  PROVE  \/ clients[i] = None
         \/ clients[i] \in graceTimeout /\ clients'[i] = None
         \/ clients'[i] # None /\ identifier'[clients'[i]] = identifier[clients[i]]
<1>0. None \notin Clients
  BY ManagerAssumption
<1>1. ASSUME NEW id \in Ids, NEW who \in Identities, NEW explicit \in BOOLEAN,
             NewClient(id, who) \/ Reconnect(id, who, explicit) \/ AssignRandom(id, who, explicit),
             clients[i] # None
      PROVE  clients'[i] # None /\ identifier'[clients'[i]] = identifier[clients[i]]
  <2>1. PICK j \in Ids : /\ clients[j] \in Clients \cup {None}
                         /\ Create(j, who, clients[j])
                         /\ clients[j] # None => identifier[clients[j]] = who
    BY <1>1, CallReplaces
  <2>2. PICK k \in Clients : CreatesClient(j, who, clients[j], k)
    BY <2>1 DEF Create, CreatesClient
  <2>3. i = j /\ clients'[i] = k /\ identifier'[k] = who
    BY <2>2 DEF CreatesClient, TypeOK
  <2>4. QED
    BY <1>0, <1>1, <2>1, <2>3
<1>2. ASSUME NEW k \in Clients, ClientNext(k)
      PROVE  clients[i] \in graceTimeout /\ clients'[i] = None
  <2>1. UNCHANGED clients \/ GraceExpired(k)
    BY <1>2 DEF ClientNext, Listening, ListenError, RunImmediate, Accept, SocketClosed, managerVars
  <2>2. GraceExpired(k)
    BY <2>1
  <2>3. Victim(k) # None /\ clients' = [clients EXCEPT ![clientId[k]] = None]
    BY <2>2 DEF GraceExpired, Victim
  <2>4. Victim(k) = k /\ clients[clientId[k]] = k
    BY <1>0, <2>3, VictimIsSelf DEF Victim
  <2>5. i = clientId[k] /\ clients'[i] = None
    BY <2>3 DEF TypeOK
  <2>6. QED
    BY <2>2, <2>4, <2>5 DEF GraceExpired
<1>3. ~UNCHANGED portless
  BY DEF portless
<1>4. ASSUME NEW id \in Ids, NEW who \in Identities, NewClient(id, who), clients[i] # None
      PROVE  clients'[i] # None /\ identifier'[clients'[i]] = identifier[clients[i]]
  BY <1>1, <1>4
<1>5. QED
  BY <1>1, <1>2, <1>3, <1>4, ThrowOrStutter DEF Next

-----------------------------------------------------------------------------
(* Ownership of a subdomain                                                *)

\* The identifier of a client that is in the map does not change.
LEMMA MappedKeepsIdentifier ==
  ASSUME HriFresh, TypeOK, [Next]_vars, NEW i \in Ids, clients[i] # None
  PROVE  identifier'[clients[i]] = identifier[clients[i]]
<1>0. clients[i] \in Clients
  BY DEF TypeOK
<1>1. ASSUME NEW id \in Ids, NEW who \in Identities, NEW explicit \in BOOLEAN,
             NewClient(id, who) \/ Reconnect(id, who, explicit) \/ AssignRandom(id, who, explicit)
      PROVE  identifier'[clients[i]] = identifier[clients[i]]
  <2>1. PICK j \in Ids : clients[j] \in Clients \cup {None} /\ Create(j, who, clients[j])
    BY <1>1, CallReplaces
  <2>2. PICK k \in Clients : CreatesClient(j, who, clients[j], k)
    BY <2>1 DEF Create, CreatesClient
  <2>3. clients[i] # k
    BY <2>2 DEF CreatesClient, Unused, Mapped
  <2>4. QED
    BY <1>0, <2>2, <2>3 DEF CreatesClient, TypeOK
<1>2. ASSUME NEW k \in Clients, ClientNext(k) PROVE UNCHANGED identifier
  BY <1>2 DEF ClientNext, Listening, ListenError, RunImmediate, Accept, SocketClosed,
              GraceExpired, birthVars
<1>3. CASE UNCHANGED portless
  BY <1>3 DEF portless, birthVars
<1>4. ASSUME NEW id \in Ids, NEW who \in Identities, NewClient(id, who)
      PROVE  identifier'[clients[i]] = identifier[clients[i]]
  BY <1>1, <1>4
<1>5. QED
  BY <1>1, <1>2, <1>3, <1>4, ThrowOrStutter DEF Next

\* A subdomain never passes from one identity to another in one step.
THEOREM HandoverCorrect == ASSUME HriFresh PROVE Spec => HandoverOnlyToOwner
<1>1. TypeOK /\ ListenerHasId /\ MapMatchesClients /\ [Next]_vars
        => [\A i \in Ids :
              /\ clients[i] # None
              /\ clients'[i] \notin {None, clients[i]}
              => identifier'[clients'[i]] = identifier[clients[i]]]_vars
  <2> SUFFICES ASSUME TypeOK, ListenerHasId, MapMatchesClients, [Next]_vars,
                      NEW i \in Ids, clients[i] # None,
                      clients'[i] \notin {None, clients[i]}
               PROVE  identifier'[clients'[i]] = identifier[clients[i]]
    OBVIOUS
  <2>1. QED
    BY StepHandsOver
<1>2. QED
  BY <1>1, TypeInvariant, MapCorrect, PTL DEF Spec, HandoverOnlyToOwner

-----------------------------------------------------------------------------
(* Who is online, and who is about to be removed                           *)

OnlineMeansConnected == \A k \in Clients : k \in isOnline <=> connectedSockets[k] > 0
OnlineHasNoTimer     == isOnline \cap graceTimeout = {}
OfflineIsWatched     == \A k \in Clients : Mapped(k) => k \in isOnline \cup graceTimeout \cup immediate

LEMMA CreateWatched ==
  ASSUME TypeOK, MappedListened, GraceWatchesOffline,
         NEW id \in Ids, NEW who \in Identities,
         NEW old \in Clients \cup {None}, Create(id, who, old),
         old # None => old = clients[id]
  PROVE  GraceWatchesOffline'
<1>0. None \notin Clients
  BY ManagerAssumption
<1>1. PICK k \in Clients : CreatesClient(id, who, old, k)
  BY DEF Create, CreatesClient
<1>2. connectedSockets[k] = 0
  BY <1>1 DEF CreatesClient, Unused
<1>3. OnlineMeansConnected'
  BY <1>1, <1>2 DEF CreatesClient, GraceWatchesOffline, OnlineMeansConnected
<1>4. OnlineHasNoTimer'
  BY <1>1 DEF CreatesClient, GraceWatchesOffline, OnlineHasNoTimer
<1>5. OfflineIsWatched'
  <2> SUFFICES ASSUME NEW l \in Clients, NEW i \in Ids, clients'[i] = l
               PROVE  l \in isOnline' \cup graceTimeout' \cup immediate'
    BY DEF OfflineIsWatched, Mapped
  <2>1. CASE l = k
    BY <1>1, <2>1 DEF CreatesClient
  <2>2. CASE l # k
    <3>1. i # id /\ clients[i] = l
      BY <1>1, <2>2 DEF CreatesClient, TypeOK
    <3>2. l # old
      BY <1>0, <3>1 DEF MappedListened
    <3>3. l \in isOnline \cup graceTimeout \cup immediate
      BY <3>1 DEF GraceWatchesOffline, Mapped
    <3>4. QED
      BY <1>1, <2>2, <3>2, <3>3 DEF CreatesClient
  <2>3. QED
    BY <2>1, <2>2
<1>6. QED
  BY <1>3, <1>4, <1>5
  DEF GraceWatchesOffline, OnlineMeansConnected, OnlineHasNoTimer, OfflineIsWatched, Mapped

LEMMA AcceptWatched ==
  ASSUME TypeOK, GraceWatchesOffline, NEW k \in Clients, Accept(k)
  PROVE  GraceWatchesOffline'
<1>1. /\ connectedSockets' = [connectedSockets EXCEPT ![k] = @ + 1]
      /\ connectedSockets[k] \in Int
      /\ UNCHANGED <<clients, immediate>>
  BY DEF Accept, TypeOK, managerVars
<1>2. CASE connectedSockets[k] = 0
  <2>1. isOnline' = isOnline \cup {k} /\ graceTimeout' = graceTimeout \ {k}
    BY <1>2 DEF Accept
  <2>2. connectedSockets'[k] > 0
    BY <1>1, <1>2 DEF TypeOK
  <2>3. \A l \in Clients : l # k => connectedSockets'[l] = connectedSockets[l]
    BY <1>1 DEF TypeOK
  <2>4. \A l \in Clients : l \in isOnline' <=> connectedSockets'[l] > 0
    BY <2>1, <2>2, <2>3 DEF GraceWatchesOffline
  <2>5. QED
    BY <1>1, <2>1, <2>4 DEF GraceWatchesOffline, Mapped
<1>3. CASE connectedSockets[k] # 0
  <2>1. UNCHANGED <<isOnline, graceTimeout>>
    BY <1>3 DEF Accept
  <2>2. connectedSockets'[k] > 0 <=> connectedSockets[k] > 0
    BY <1>1, <1>3 DEF TypeOK
  <2>3. \A l \in Clients : l # k => connectedSockets'[l] = connectedSockets[l]
    BY <1>1 DEF TypeOK
  <2>4. \A l \in Clients : l \in isOnline' <=> connectedSockets'[l] > 0
    BY <2>1, <2>2, <2>3 DEF GraceWatchesOffline
  <2>5. QED
    BY <1>1, <2>1, <2>4 DEF GraceWatchesOffline, Mapped
<1>4. QED
  BY <1>2, <1>3

LEMMA ClosedWatched ==
  ASSUME TypeOK, GraceWatchesOffline, NEW k \in Clients, SocketClosed(k)
  PROVE  GraceWatchesOffline'
<1>1. /\ connectedSockets' = [connectedSockets EXCEPT ![k] = @ - 1]
      /\ connectedSockets[k] \in Int /\ connectedSockets[k] > 0
      /\ UNCHANGED <<clients, immediate>>
  BY DEF SocketClosed, TypeOK, managerVars
<1>2. \A l \in Clients : l # k => connectedSockets'[l] = connectedSockets[l]
  BY <1>1 DEF TypeOK
<1>3. connectedSockets'[k] = connectedSockets[k] - 1
  BY <1>1 DEF TypeOK
<1>4. CASE connectedSockets[k] = 1
  <2>1. isOnline' = isOnline \ {k} /\ graceTimeout' = graceTimeout \cup {k}
    BY <1>4 DEF SocketClosed
  <2>2. ~(connectedSockets'[k] > 0)
    BY <1>3, <1>4
  <2>3. \A l \in Clients : l \in isOnline' <=> connectedSockets'[l] > 0
    BY <1>2, <2>1, <2>2 DEF GraceWatchesOffline
  <2>4. QED
    BY <1>1, <2>1, <2>3 DEF GraceWatchesOffline, Mapped
<1>5. CASE connectedSockets[k] # 1
  <2>1. UNCHANGED <<isOnline, graceTimeout>>
    BY <1>5 DEF SocketClosed
  <2>2. connectedSockets'[k] > 0
    BY <1>1, <1>3, <1>5
  <2>3. \A l \in Clients : l \in isOnline' <=> connectedSockets'[l] > 0
    BY <1>1, <1>2, <2>1, <2>2 DEF GraceWatchesOffline
  <2>4. QED
    BY <1>1, <2>1, <2>3 DEF GraceWatchesOffline, Mapped
<1>6. QED
  BY <1>4, <1>5

LEMMA ExpiryWatched ==
  ASSUME TypeOK, ListenerHasId, MappedListened, GraceWatchesOffline,
         NEW k \in Clients, GraceExpired(k)
  PROVE  GraceWatchesOffline'
<1>0. None \notin Clients
  BY ManagerAssumption
<1>1. UNCHANGED <<isOnline, connectedSockets, immediate>>
  BY DEF GraceExpired
<1>2. graceTimeout' = graceTimeout \ {k, Victim(k)}
  BY DEF GraceExpired, Victim
<1>3. ASSUME NEW l \in Clients, NEW i \in Ids, clients'[i] = l
      PROVE  l \in isOnline' \cup graceTimeout' \cup immediate'
  <2>1. clients[i] = l /\ l \notin {k, Victim(k)}
    BY <1>0, <1>3, ExpirySpares
  <2>2. l \in isOnline \cup graceTimeout \cup immediate
    BY <2>1 DEF GraceWatchesOffline, Mapped
  <2>3. QED
    BY <1>1, <1>2, <2>1, <2>2
<1>4. (\A l \in Clients : l \in isOnline <=> connectedSockets[l] > 0)'
  BY <1>1 DEF GraceWatchesOffline
<1>5. (isOnline \cap graceTimeout = {})'
  BY <1>1, <1>2 DEF GraceWatchesOffline
<1>6. QED
  BY <1>3, <1>4, <1>5 DEF GraceWatchesOffline, Mapped

LEMMA StepWatched ==
  ASSUME TypeOK, ListenerHasId, MappedListened, GraceWatchesOffline, [Next]_vars
  PROVE  GraceWatchesOffline'
<1>1. ASSUME NEW id \in Ids, NEW who \in Identities, NEW explicit \in BOOLEAN,
             NewClient(id, who) \/ Reconnect(id, who, explicit) \/ AssignRandom(id, who, explicit)
      PROVE  GraceWatchesOffline'
  <2>1. PICK i \in Ids, old \in Clients \cup {None} :
          Create(i, who, old) /\ (old # None => old = clients[i])
    BY <1>1, CallCreates
  <2>2. QED
    BY <2>1, CreateWatched
<1>2. ASSUME NEW k \in Clients, ClientNext(k) PROVE GraceWatchesOffline'
  <2>1. CASE Listening(k) \/ ListenError(k)
    BY <2>1 DEF Listening, ListenError, managerVars, GraceWatchesOffline, Mapped
  <2>2. CASE RunImmediate(k)
    <3>1. UNCHANGED <<clients, isOnline, connectedSockets>>
      BY <2>2 DEF RunImmediate, managerVars
    <3>2. /\ immediate' = immediate \ {k}
          /\ graceTimeout' = IF k \in isOnline THEN graceTimeout ELSE graceTimeout \cup {k}
      BY <2>2 DEF RunImmediate
    <3>3. QED
      BY <3>1, <3>2 DEF GraceWatchesOffline, Mapped
  <2>3. CASE Accept(k)
    BY <2>3, AcceptWatched
  <2>4. CASE SocketClosed(k)
    BY <2>4, ClosedWatched
  <2>5. CASE GraceExpired(k)
    BY <2>5, ExpiryWatched
  <2>6. QED
    BY <1>2, <2>1, <2>2, <2>3, <2>4, <2>5 DEF ClientNext
<1>3. CASE UNCHANGED portless
  BY <1>3 DEF portless, GraceWatchesOffline, Mapped
<1>4. ASSUME NEW id \in Ids, NEW who \in Identities, NewClient(id, who)
      PROVE  GraceWatchesOffline'
  BY <1>1, <1>4
<1>5. QED
  BY <1>1, <1>2, <1>3, <1>4, ThrowOrStutter DEF Next

\* Online means connected, and a client in the map that is not online has a
\* timer or a setImmediate that will remove it, in every behaviour, also when
\* an id in use is assigned: nothing is left in the map for good.
THEOREM WatchCorrect == Spec => []GraceWatchesOffline
<1>1. Init => GraceWatchesOffline
  BY ManagerAssumption DEF Init, GraceWatchesOffline, Mapped
<1>2. TypeOK /\ ListenerHasId /\ MappedListened /\ GraceWatchesOffline /\ [Next]_vars
        => GraceWatchesOffline'
  BY StepWatched
<1>3. QED
  BY <1>1, <1>2, TypeInvariant, ListenedCorrect, PTL DEF Spec

LEMMA StepTimer ==
  ASSUME TypeOK, ListenerHasId, MappedListened, [Next]_vars, NEW l \in graceTimeout
  PROVE  l \in graceTimeout' \cup isOnline' \/ ~Mapped(l)'
<1>0. l \in Clients /\ None \notin Clients
  BY ManagerAssumption DEF TypeOK
<1>1. ASSUME NEW id \in Ids, NEW who \in Identities, NEW explicit \in BOOLEAN,
             NewClient(id, who) \/ Reconnect(id, who, explicit) \/ AssignRandom(id, who, explicit)
      PROVE  l \in graceTimeout' \/ ~Mapped(l)'
  <2>1. PICK i \in Ids, old \in Clients \cup {None} :
          Create(i, who, old) /\ (old # None => old = clients[i])
    BY <1>1, CallCreates
  <2>2. PICK k \in Clients : CreatesClient(i, who, old, k)
    BY <2>1 DEF Create, CreatesClient
  <2>3. CASE l # old
    BY <2>2, <2>3 DEF CreatesClient
  <2>4. CASE l = old
    <3> SUFFICES ASSUME NEW j \in Ids, clients'[j] = l PROVE FALSE
      BY DEF Mapped
    <3>1. clients[i] = l /\ clientId[l] = i
      BY <1>0, <2>1, <2>4 DEF MappedListened
    <3>2. k # l
      BY <2>2, <3>1 DEF CreatesClient, Unused, Mapped
    <3>3. j # i /\ clients[j] = l
      BY <2>2, <3>2 DEF CreatesClient, TypeOK
    <3>4. QED
      BY <1>0, <3>1, <3>3 DEF MappedListened
  <2>5. QED
    BY <2>3, <2>4
<1>2. ASSUME NEW k \in Clients, ClientNext(k)
      PROVE  l \in graceTimeout' \cup isOnline' \/ ~Mapped(l)'
  <2>1. CASE Listening(k) \/ ListenError(k) \/ RunImmediate(k) \/ SocketClosed(k)
    BY <2>1 DEF Listening, ListenError, RunImmediate, SocketClosed
  <2>2. CASE Accept(k)
    BY <2>2 DEF Accept
  <2>3. CASE GraceExpired(k)
    <3>1. graceTimeout' = graceTimeout \ {k, Victim(k)}
      BY <2>3 DEF GraceExpired, Victim
    <3>2. ASSUME NEW j \in Ids, clients'[j] = l PROVE l \notin {k, Victim(k)}
      BY <1>0, <2>3, <3>2, ExpirySpares
    <3>3. QED
      BY <3>1, <3>2 DEF Mapped
  <2>4. QED
    BY <1>2, <2>1, <2>2, <2>3 DEF ClientNext
<1>3. CASE UNCHANGED portless
  BY <1>3 DEF portless
<1>4. ASSUME NEW id \in Ids, NEW who \in Identities, NewClient(id, who)
      PROVE  l \in graceTimeout' \/ ~Mapped(l)'
  BY <1>1, <1>4
<1>5. QED
  BY <1>1, <1>2, <1>3, <1>4, ThrowOrStutter DEF Next

\* The timer of a client in the map is cleared only when that client connects or
\* is removed: no newClient call and no other client's timer clears it, whatever
\* the random ids.  With WatchCorrect this is what OfflineClientLeaves needs
\* besides fairness.
THEOREM TimerCorrect == Spec => TimerKept
<1>1. TypeOK /\ ListenerHasId /\ MappedListened /\ [Next]_vars
        => [\A k \in graceTimeout :
              Mapped(k) => k \in graceTimeout' \cup isOnline' \/ ~Mapped(k)']_vars
  BY StepTimer
<1>2. QED
  BY <1>1, TypeInvariant, ListenedCorrect, PTL DEF Spec, TimerKept

\* A client with a connection keeps its subdomain, or loses it to one of its
\* own identity: the expired timer is that of a client without connections.
THEOREM OnlineStaysCorrect == ASSUME HriFresh PROVE Spec => OnlineClientStays
<1>1. TypeOK /\ ListenerHasId /\ MapMatchesClients /\ GraceWatchesOffline /\ [Next]_vars
        => [\A i \in Ids :
              /\ clients[i] # None
              /\ connectedSockets[clients[i]] > 0
              => clients'[i] # None /\ identifier'[clients'[i]] = identifier[clients[i]]]_vars
  <2> SUFFICES ASSUME TypeOK, ListenerHasId, MapMatchesClients, GraceWatchesOffline, [Next]_vars,
                      NEW i \in Ids, clients[i] # None, connectedSockets[clients[i]] > 0
               PROVE  clients'[i] # None /\ identifier'[clients'[i]] = identifier[clients[i]]
    OBVIOUS
  <2>1. clients[i] \notin graceTimeout
    BY DEF GraceWatchesOffline, TypeOK
  <2>2. CASE clients'[i] = clients[i]
    BY <2>2, MappedKeepsIdentifier
  <2>3. CASE clients'[i] # clients[i]
    BY <2>1, <2>3, StepHandsOver
  <2>4. QED
    BY <2>2, <2>3
<1>2. QED
  BY <1>1, TypeInvariant, MapCorrect, WatchCorrect, PTL DEF Spec, OnlineClientStays

-----------------------------------------------------------------------------
(* The refinement of SubdomainRegistry                                     *)

\* A client in the map was made for somebody.
MappedHasOwner == \A i \in Ids : clients[i] # None => identifier[clients[i]] \in Identities

\* A call of newClient is, to the registry, the claim of a free name or the
\* return of its owner, who has no connection yet.
LEMMA CreateRegistry ==
  ASSUME TypeOK, ListenerHasId, MapMatchesClients, MappedHasOwner,
         NEW id \in Ids, NEW who \in Identities,
         clients[id] \in Clients \cup {None}, Create(id, who, clients[id]),
         clients[id] # None => identifier[clients[id]] = who
  PROVE  MappedHasOwner' /\ [Registry!Next]_Registry!vars
<1> DEFINE old == clients[id]
<1>0. None \notin Clients /\ None \notin Identities
  BY ManagerAssumption
<1>1. PICK k \in Clients : CreatesClient(id, who, old, k)
  BY DEF Create, CreatesClient
<1>2. \A i \in Ids : clients[i] # k
  BY <1>1 DEF CreatesClient, Unused, Mapped
<1>3. \A i \in Ids : /\ clients'[i] = IF i = id THEN k ELSE clients[i]
                     /\ clients[i] \in Clients \cup {None}
  BY <1>1 DEF CreatesClient, TypeOK
<1>4. \A l \in Clients : identifier'[l] = IF l = k THEN who ELSE identifier[l]
  BY <1>1 DEF CreatesClient, TypeOK
<1>5. isOnline' = isOnline \ {k} /\ isOnline \subseteq Clients
  BY <1>1 DEF CreatesClient, TypeOK
<1>6. MappedHasOwner'
  <2> SUFFICES ASSUME NEW i \in Ids, clients'[i] # None
               PROVE  identifier'[clients'[i]] \in Identities
    BY DEF MappedHasOwner
  <2>1. CASE i = id
    BY <1>3, <1>4, <2>1
  <2>2. CASE i # id
    BY <1>2, <1>3, <1>4, <2>2 DEF MappedHasOwner
  <2>3. QED
    BY <2>1, <2>2
<1>7. \A i \in Ids : i # id => owner'[i] = owner[i]
  <2> SUFFICES ASSUME NEW i \in Ids, i # id PROVE owner'[i] = owner[i]
    OBVIOUS
  <2>1. clients'[i] = clients[i] /\ clients[i] # k
    BY <1>2, <1>3
  <2>2. clients[i] # None => identifier'[clients[i]] = identifier[clients[i]]
    BY <1>3, <1>4, <2>1
  <2>3. QED
    BY <2>1, <2>2 DEF owner
<1>8. owner'[id] = who
  BY <1>0, <1>3, <1>4 DEF owner
<1>9. connected' = connected \ {id}
  BY <1>2, <1>3, <1>5 DEF connected
<1>10. CASE old = None
  <2>1. owner[id] = None /\ id \notin connected
    BY <1>0, <1>5, <1>10 DEF owner, connected
  <2>2. owner' = [owner EXCEPT ![id] = who]
    BY <1>7, <1>8 DEF owner
  <2>3. Registry!Claim(id, who)
    BY <1>9, <2>1, <2>2 DEF Registry!Claim
  <2>4. QED
    BY <1>6, <2>3 DEF Registry!Next
<1>11. CASE old # None
  <2>1. owner[id] = who
    BY <1>11 DEF owner
  <2>2. owner' = owner
    BY <1>7, <1>8, <2>1 DEF owner
  <2>3. CASE id \in connected
    BY <1>6, <1>9, <2>2, <2>3 DEF Registry!Next, Registry!Drop
  <2>4. CASE id \notin connected
    BY <1>6, <1>9, <2>2, <2>4 DEF Registry!vars
  <2>5. QED
    BY <2>3, <2>4
<1>12. QED
  BY <1>10, <1>11

\* The expiry of a grace timer gives up the name of an owner who is not
\* connected, or does nothing to the registry.
LEMMA ExpiryRegistry ==
  ASSUME TypeOK, ListenerHasId, MapMatchesClients, GraceWatchesOffline, MappedHasOwner,
         NEW k \in Clients, GraceExpired(k)
  PROVE  MappedHasOwner' /\ [Registry!Next]_Registry!vars
<1>0. None \notin Clients /\ None \notin Identities
  BY ManagerAssumption
<1>1. UNCHANGED <<identifier, isOnline>> /\ k \notin isOnline /\ isOnline \subseteq Clients
  BY DEF GraceExpired, birthVars, GraceWatchesOffline, TypeOK
<1>2. CASE Victim(k) = None
  <2>1. UNCHANGED clients
    BY <1>2 DEF GraceExpired, Victim
  <2>2. QED
    BY <1>1, <2>1 DEF MappedHasOwner, Registry!vars, owner, connected
<1>3. CASE Victim(k) = k
  <2> DEFINE id == clientId[k]
  <2>1. k \in closeListener /\ id \in Ids /\ clients[id] = k
    BY <1>0, <1>3 DEF Victim, MapMatchesClients, ListenerHasId
  <2>2. clients' = [clients EXCEPT ![id] = None]
    BY <1>0, <1>3 DEF GraceExpired, Victim
  <2> HIDE DEF id
  <2>3. \A i \in Ids : clients'[i] = IF i = id THEN None ELSE clients[i]
    BY <2>1, <2>2 DEF TypeOK
  <2>4. owner[id] # None /\ id \notin connected
    BY <1>0, <1>1, <2>1 DEF owner, connected, MappedHasOwner
  <2>5. owner' = [owner EXCEPT ![id] = None]
    BY <1>1, <2>1, <2>3 DEF owner
  <2>6. connected' = connected
    BY <1>0, <1>1, <2>1, <2>3 DEF connected
  <2>7. Registry!Expire(id)
    BY <2>4, <2>5, <2>6 DEF Registry!Expire
  <2>8. MappedHasOwner'
    BY <1>1, <2>3 DEF MappedHasOwner
  <2>9. QED
    BY <2>1, <2>7, <2>8 DEF Registry!Next
<1>4. QED
  BY <1>2, <1>3, VictimIsSelf

\* The first socket of a client in the map connects its name, the last one
\* drops it, and sockets of clients no longer in the map change nothing.
LEMMA SocketRegistry ==
  ASSUME TypeOK, MapMatchesClients, MappedHasOwner,
         NEW k \in Clients, Accept(k) \/ SocketClosed(k)
  PROVE  MappedHasOwner' /\ [Registry!Next]_Registry!vars
<1>0. None \notin Clients /\ None \notin Identities
  BY ManagerAssumption
<1>1. UNCHANGED <<clients, identifier>>
  BY DEF Accept, SocketClosed, managerVars, birthVars
<1>2. MappedHasOwner' /\ owner' = owner
  BY <1>1 DEF MappedHasOwner, owner
<1>3. isOnline' \in {isOnline, isOnline \cup {k}, isOnline \ {k}}
  BY DEF Accept, SocketClosed
<1>4. CASE \A i \in Ids : clients[i] # k
  <2>1. connected' = connected
    BY <1>1, <1>3, <1>4 DEF connected
  <2>2. QED
    BY <1>2, <2>1 DEF Registry!vars
<1>5. ASSUME NEW i \in Ids, clients[i] = k
      PROVE  [Registry!Next]_Registry!vars
  <2>1. \A j \in Ids : clients[j] = k <=> j = i
    BY <1>0, <1>5 DEF MapMatchesClients
  <2>2. owner[i] # None
    BY <1>0, <1>5 DEF owner, MappedHasOwner
  <2>3. connected' \in {connected, connected \cup {i}, connected \ {i}}
    <3>1. CASE isOnline' = isOnline
      BY <1>1, <3>1 DEF connected
    <3>2. CASE isOnline' = isOnline \cup {k}
      BY <1>1, <2>1, <3>2 DEF connected
    <3>3. CASE isOnline' = isOnline \ {k}
      BY <1>1, <2>1, <3>3 DEF connected
    <3>4. QED
      BY <1>3, <3>1, <3>2, <3>3
  <2>4. CASE connected' = connected \cup {i}
    BY <1>2, <2>2, <2>4 DEF Registry!Next, Registry!Connect
  <2>5. CASE connected' = connected \ {i} /\ i \in connected
    BY <1>2, <2>5 DEF Registry!Next, Registry!Drop
  <2>6. CASE connected' = connected
    BY <1>2, <2>6 DEF Registry!vars
  <2>7. QED
    BY <2>3, <2>4, <2>5, <2>6
<1>6. QED
  BY <1>2, <1>4, <1>5

LEMMA StepRegistry ==
  ASSUME HriFresh, TypeOK, ListenerHasId, MapMatchesClients, GraceWatchesOffline,
         MappedHasOwner, [Next]_vars
  PROVE  MappedHasOwner' /\ [Registry!Next]_Registry!vars
<1>1. ASSUME NEW id \in Ids, NEW who \in Identities, NEW explicit \in BOOLEAN,
             NewClient(id, who) \/ Reconnect(id, who, explicit) \/ AssignRandom(id, who, explicit)
      PROVE  MappedHasOwner' /\ [Registry!Next]_Registry!vars
  <2>1. PICK i \in Ids : /\ clients[i] \in Clients \cup {None}
                         /\ Create(i, who, clients[i])
                         /\ clients[i] # None => identifier[clients[i]] = who
    BY <1>1, CallReplaces
  <2>2. QED
    BY <2>1, CreateRegistry
<1>2. ASSUME UNCHANGED <<clients, identifier, isOnline>>
      PROVE  MappedHasOwner' /\ [Registry!Next]_Registry!vars
  BY <1>2 DEF MappedHasOwner, Registry!vars, owner, connected
<1>3. ASSUME NEW k \in Clients, ClientNext(k)
      PROVE  MappedHasOwner' /\ [Registry!Next]_Registry!vars
  <2>1. CASE Listening(k) \/ ListenError(k) \/ RunImmediate(k)
    BY <1>2, <2>1 DEF Listening, ListenError, RunImmediate, managerVars, birthVars
  <2>2. CASE Accept(k) \/ SocketClosed(k)
    BY <2>2, SocketRegistry
  <2>3. CASE GraceExpired(k)
    BY <2>3, ExpiryRegistry
  <2>4. QED
    BY <1>3, <2>1, <2>2, <2>3 DEF ClientNext
<1>4. CASE UNCHANGED portless
  BY <1>2, <1>4 DEF portless, birthVars
<1>5. ASSUME NEW id \in Ids, NEW who \in Identities, NewClient(id, who)
      PROVE  MappedHasOwner' /\ [Registry!Next]_Registry!vars
  BY <1>1, <1>5
<1>6. QED
  BY <1>1, <1>3, <1>4, <1>5, ThrowOrStutter DEF Next

\* The manager keeps the promise of SubdomainRegistry: a subdomain has at most
\* one owner, who loses it only while not connected.
THEOREM RegistryImplemented == ASSUME HriFresh PROVE Spec => ImplementsRegistry
<1>1. Init => MappedHasOwner /\ Registry!Init
  BY ManagerAssumption DEF Init, MappedHasOwner, Registry!Init, owner, connected
<1>2. TypeOK /\ ListenerHasId /\ MapMatchesClients /\ GraceWatchesOffline /\ MappedHasOwner
        /\ [Next]_vars
        => MappedHasOwner' /\ [Registry!Next]_Registry!vars
  BY StepRegistry
<1>3. QED
  BY <1>1, <1>2, TypeInvariant, MapCorrect, WatchCorrect, PTL
     DEF Spec, ImplementsRegistry, Registry!Spec
=============================================================================

----------------------------- MODULE PortProofs -----------------------------
(***************************************************************************)
(* Theorems about what ClientManager counts, the ports of the range and    *)
(* stats.tunnels, and about each client's life among the others.  They     *)
(* hold for every range, also one that was not configured, and for any     *)
(* number of clients.  That no port is lost and that each client in the    *)
(* map has its own hold for any random ids; that a port leaves use with    *)
(* its client, stats.tunnels and ClientLife assume that hri.random()       *)
(* returns an id that is not in use.                                       *)
(***************************************************************************)
EXTENDS ClientManagerProofs, FunctionTheorems

-----------------------------------------------------------------------------
(* The pool                                                                *)

Distinct(pool) == \A i, j \in 1..Len(pool) : pool[i] = pool[j] => i = j

\* The pool and the ports in use share out the range.
PoolSound(pool, used) ==
  /\ Distinct(pool)
  /\ Elements(pool) \cap used = {}
  /\ Elements(pool) \cup used = Ports
  /\ Len(pool) + Cardinality(used) = Cardinality(Ports)

LEMMA PortsFinite == IsFiniteSet(Ports) /\ Cardinality(Ports) \in Nat /\ NoPort \notin Ports
<1>1. PortStart \in Nat /\ PortEnd \in Nat
  BY ManagerAssumption
<1>2. IsFiniteSet(Ports)
  <2>1. CASE RangeConfigured
    BY <1>1, <2>1, FS_Interval DEF Ports
  <2>2. CASE ~RangeConfigured
    BY <2>2, FS_EmptySet DEF Ports
  <2>3. QED
    BY <2>1, <2>2
<1>3. NoPort \notin Ports
  BY <1>1 DEF NoPort, Ports, RangeConfigured
<1>4. QED
  BY <1>2, <1>3, FS_CardinalityType

LEMMA UsedFinite ==
  ASSUME NEW used \in SUBSET Ports
  PROVE  IsFiniteSet(used) /\ Cardinality(used) \in Nat
BY PortsFinite, FS_Subset, FS_CardinalityType

\* A port given back is one more in the pool and one less in use.
LEMMA GiveSound ==
  ASSUME NEW pool \in Seq(Ports), NEW used \in SUBSET Ports, PoolSound(pool, used),
         NEW p \in used
  PROVE  PoolSound(Append(pool, p), used \ {p})
<1> DEFINE more == Append(pool, p)
<1>1. Len(pool) \in Nat /\ Len(more) = Len(pool) + 1
  OBVIOUS
<1>2. \A i \in 1..Len(pool) : more[i] = pool[i] /\ more[i] # p
  BY DEF PoolSound, Elements
<1>3. more[Len(pool) + 1] = p
  OBVIOUS
<1> HIDE DEF more
<1>4. Distinct(more)
  <2> SUFFICES ASSUME NEW i \in 1..Len(more), NEW j \in 1..Len(more), more[i] = more[j]
               PROVE  i = j
    BY DEF Distinct
  <2>1. CASE i \in 1..Len(pool) /\ j \in 1..Len(pool)
    BY <1>2, <2>1 DEF PoolSound, Distinct
  <2>2. CASE i = Len(pool) + 1 \/ j = Len(pool) + 1
    BY <1>1, <1>2, <1>3, <2>2
  <2>3. QED
    BY <1>1, <2>1, <2>2
<1>5. Elements(more) = Elements(pool) \cup {p}
  BY <1>1, <1>2, <1>3 DEF Elements
<1>6. IsFiniteSet(used) /\ Cardinality(used \ {p}) = Cardinality(used) - 1
  BY UsedFinite, FS_RemoveElement
<1>7. Len(more) + Cardinality(used \ {p}) = Cardinality(Ports)
  BY <1>1, <1>6, UsedFinite, PortsFinite DEF PoolSound
<1>8. QED
  BY <1>4, <1>5, <1>7 DEF PoolSound, more

\* The head of the pool is taken.
LEMMA TakeSound ==
  ASSUME NEW pool \in Seq(Ports), NEW used \in SUBSET Ports, PoolSound(pool, used),
         pool # <<>>
  PROVE  /\ Head(pool) \in Ports /\ Head(pool) \notin used
         /\ PoolSound(Tail(pool), used \cup {Head(pool)})
<1> DEFINE p    == Head(pool)
           less == Tail(pool)
<1>1. Len(pool) \in Nat /\ Len(pool) >= 1 /\ Len(less) = Len(pool) - 1
  OBVIOUS
<1>2. p = pool[1] /\ \A i \in 1..Len(less) : less[i] = pool[i + 1]
  OBVIOUS
<1>3. p \in Ports
  OBVIOUS
<1> HIDE DEF p, less
<1>4. p \in Elements(pool) /\ p \notin used
  BY <1>1, <1>2 DEF PoolSound, Elements
<1>5. Distinct(less)
  <2> SUFFICES ASSUME NEW i \in 1..Len(less), NEW j \in 1..Len(less), less[i] = less[j]
               PROVE  i = j
    BY DEF Distinct
  <2>1. i + 1 \in 1..Len(pool) /\ j + 1 \in 1..Len(pool)
    BY <1>1
  <2>2. pool[i + 1] = pool[j + 1]
    BY <1>2
  <2>3. i + 1 = j + 1
    BY <2>1, <2>2 DEF PoolSound, Distinct
  <2>4. QED
    BY <2>3
<1>6. Elements(pool) = Elements(less) \cup {p}
  <2>1. \A i \in 1..Len(pool) : i = 1 \/ (i - 1 \in 1..Len(less) /\ pool[i] = less[i - 1])
    BY <1>1, <1>2
  <2>2. \A i \in 1..Len(less) : i + 1 \in 1..Len(pool)
    BY <1>1
  <2>3. Elements(pool) \subseteq Elements(less) \cup {p}
    BY <1>2, <2>1 DEF Elements
  <2>4. Elements(less) \subseteq Elements(pool)
    BY <1>2, <2>2 DEF Elements
  <2>5. QED
    BY <1>4, <2>3, <2>4
<1>7. p \notin Elements(less)
  <2> SUFFICES ASSUME NEW i \in 1..Len(less), less[i] = p PROVE FALSE
    BY DEF Elements
  <2>1. i + 1 \in 1..Len(pool) /\ 1 \in 1..Len(pool) /\ pool[i + 1] = pool[1]
    BY <1>1, <1>2
  <2>2. i + 1 = 1
    BY <2>1 DEF PoolSound, Distinct
  <2>3. QED
    BY <2>2
<1>8. Cardinality(used \cup {p}) = Cardinality(used) + 1
  BY <1>4, UsedFinite, FS_AddElement
<1>9. Len(less) + Cardinality(used \cup {p}) = Cardinality(Ports)
  BY <1>1, <1>8, UsedFinite, PortsFinite DEF PoolSound
<1>10. QED
  BY <1>3, <1>4, <1>5, <1>6, <1>7, <1>9 DEF PoolSound, p, less

\* _releasePort keeps the pool sound, whether the port was in use or not.
LEMMA ReleaseSound ==
  ASSUME TypeOK, PoolSound(availablePorts, usedPorts), NEW k \in Clients \cup {None}
  PROVE  PoolSound(PoolWith(k), UsedWithout(k))
<1>0. availablePorts \in Seq(Ports) /\ usedPorts \in SUBSET Ports
  BY DEF TypeOK
<1>1. CASE k # None /\ port[k] \in usedPorts
  BY <1>0, <1>1, GiveSound DEF PoolWith, UsedWithout
<1>2. CASE ~(k # None /\ port[k] \in usedPorts)
  <2>1. PoolWith(k) = availablePorts /\ UsedWithout(k) = usedPorts
    BY <1>2 DEF PoolWith, UsedWithout
  <2>2. QED
    BY <2>1
<1>3. QED
  BY <1>1, <1>2

-----------------------------------------------------------------------------
(* The pool in every step                                                  *)

LEMMA InitPool == Init => PoolSound(availablePorts, usedPorts)
<1> SUFFICES ASSUME Init PROVE PoolSound(availablePorts, usedPorts)
  OBVIOUS
<1>2. availablePorts = PortRange /\ usedPorts = {}
  BY DEF Init
<1>3. Cardinality({}) = 0
  BY FS_EmptySet
<1>4. Len(PortRange) = Cardinality(Ports) /\ Cardinality(Ports) \in Nat
  BY PortsFinite DEF PortRange
<1>5. PortStart \in Int /\ PortEnd \in Int
  BY ManagerAssumption
<1>6. \A i \in 1..Cardinality(Ports) : PortRange[i] = PortStart + i - 1
  BY DEF PortRange
<1>7. Distinct(PortRange)
  BY <1>4, <1>5, <1>6 DEF Distinct
<1>8. Elements(PortRange) = Ports
  <2>1. CASE RangeConfigured
    <3>1. Ports = PortStart..PortEnd
      BY <2>1 DEF Ports
    <3>2. Cardinality(Ports) = IF PortStart > PortEnd THEN 0 ELSE PortEnd - PortStart + 1
      BY <1>5, <3>1, FS_Interval
    <3>3. \A i \in 1..Cardinality(Ports) : PortRange[i] \in Ports
      BY <1>4, <1>5, <1>6, <3>1, <3>2
    <3>4. ASSUME NEW p \in Ports PROVE \E i \in 1..Cardinality(Ports) : PortRange[i] = p
      <4>1. p - PortStart + 1 \in 1..Cardinality(Ports)
        BY <1>5, <3>1, <3>2
      <4>2. PortRange[p - PortStart + 1] = p
        BY <1>5, <1>6, <3>1, <4>1
      <4>3. QED
        BY <4>1, <4>2
    <3>5. QED
      BY <1>4, <3>3, <3>4 DEF Elements
  <2>2. CASE ~RangeConfigured
    <3>1. Ports = {} /\ Len(PortRange) = 0
      BY <1>4, <2>2, FS_EmptySet DEF Ports
    <3>2. QED
      BY <3>1 DEF Elements
  <2>3. QED
    BY <2>1, <2>2
<1>9. QED
  BY <1>2, <1>3, <1>4, <1>7, <1>8 DEF PoolSound

\* newClient up to its await: what it does to the pool once the old client's
\* port is back in it.
LEMMA CreateTakes ==
  ASSUME TypeOK, PoolSound(availablePorts, usedPorts),
         NEW id \in Ids, NEW who \in Identities,
         NEW old \in Clients \cup {None}, Create(id, who, old)
  PROVE  /\ PoolSound(availablePorts', usedPorts')
         /\ \E k \in Clients, p \in Ports \cup {NoPort} :
              /\ CreatesClient(id, who, old, k) /\ port' = [port EXCEPT ![k] = p]
              /\ RangeConfigured => /\ p \in Ports \ UsedWithout(old)
                                    /\ usedPorts' = UsedWithout(old) \cup {p}
<1> DEFINE pool == PoolWith(old)
           used == UsedWithout(old)
           p    == IF pool = <<>> THEN NoPort ELSE Head(pool)
<1>1. pool \in Seq(Ports) /\ used \in SUBSET Ports
  BY ReleaseType
<1>2. PoolSound(pool, used)
  BY ReleaseSound
<1>3. PICK k \in Clients : CreatesClient(id, who, old, k) /\ port' = [port EXCEPT ![k] = p]
  BY DEF Create, CreatesClient
<1>4. /\ pool # <<>> \/ ~RangeConfigured
      /\ availablePorts' = IF pool = <<>> THEN pool ELSE Tail(pool)
      /\ usedPorts' = used \cup ({p} \ {NoPort})
  BY DEF Create
<1> HIDE DEF pool, used, p
<1>5. CASE pool = <<>>
  <2>1. p = NoPort /\ availablePorts' = pool /\ usedPorts' = used
    BY <1>4, <1>5 DEF p
  <2>2. ~RangeConfigured
    BY <1>4, <1>5
  <2>3. QED
    BY <1>2, <1>3, <2>1, <2>2
<1>6. CASE pool # <<>>
  <2>1. p = Head(pool) /\ p \in Ports /\ p \notin used /\ PoolSound(Tail(pool), used \cup {p})
    BY <1>1, <1>2, <1>6, TakeSound DEF p
  <2>2. p # NoPort
    BY <2>1, PortsFinite
  <2>3. availablePorts' = Tail(pool) /\ usedPorts' = used \cup {p}
    BY <1>4, <1>6, <2>2
  <2>4. QED
    BY <1>3, <2>1, <2>3 DEF used
<1>7. QED
  BY <1>5, <1>6

LEMMA StepPool ==
  ASSUME TypeOK, ListenerHasId, PoolSound(availablePorts, usedPorts), [Next]_vars
  PROVE  PoolSound(availablePorts', usedPorts')
<1>1. ASSUME NEW id \in Ids, NEW who \in Identities, NEW explicit \in BOOLEAN,
             NewClient(id, who) \/ Reconnect(id, who, explicit) \/ AssignRandom(id, who, explicit)
      PROVE  PoolSound(availablePorts', usedPorts')
  BY <1>1, CallCreates, CreateTakes
<1>2. CASE UNCHANGED <<availablePorts, usedPorts>>
  BY <1>2
<1>3. ASSUME NEW k \in Clients, ClientNext(k) PROVE PoolSound(availablePorts', usedPorts')
  <2>1. CASE GraceExpired(k)
    <3>1. availablePorts' = PoolWith(Victim(k)) /\ usedPorts' = UsedWithout(Victim(k))
      BY <2>1 DEF GraceExpired, Victim
    <3>2. QED
      BY <3>1, VictimType, ReleaseSound
  <2>2. CASE Listening(k) \/ ListenError(k) \/ RunImmediate(k) \/ Accept(k) \/ SocketClosed(k)
    BY <1>2, <2>2 DEF Listening, ListenError, RunImmediate, Accept, SocketClosed, managerVars
  <2>3. QED
    BY <1>3, <2>1, <2>2 DEF ClientNext
<1>4. CASE UNCHANGED vars
  BY <1>2, <1>4 DEF vars, managerVars
<1>5. ASSUME NEW id \in Ids, NEW who \in Identities, NewClient(id, who)
      PROVE  PoolSound(availablePorts', usedPorts')
  BY <1>1, <1>5
<1>6. ASSUME NEW id \in Accessors, CreateThrows(id)
      PROVE  PoolSound(availablePorts', usedPorts')
  <2>1. /\ availablePorts \in Seq(Ports) /\ usedPorts \in SUBSET Ports /\ availablePorts # <<>>
        /\ availablePorts' = Tail(availablePorts)
        /\ usedPorts' = usedPorts \cup {Head(availablePorts)}
    BY <1>6 DEF CreateThrows, TypeOK
  <2>2. QED
    BY <2>1, TakeSound
<1>7. QED
  BY <1>1, <1>3, <1>4, <1>5, <1>6 DEF Next

LEMMA PoolInvariant == Spec => []PoolSound(availablePorts, usedPorts)
<1>1. TypeOK /\ ListenerHasId /\ PoolSound(availablePorts, usedPorts) /\ [Next]_vars
        => PoolSound(availablePorts, usedPorts)'
  BY StepPool
<1>2. QED
  BY <1>1, InitPool, TypeInvariant, PTL DEF Spec

\* No port of the range is lost or given out twice, over any number of clients,
\* replacements and nested removals, and whatever ids are made up.
THEOREM ConservedCorrect == Spec => []PortsConserved
<1>1. PoolSound(availablePorts, usedPorts) => PortsConserved
  BY DEF PoolSound, PortsConserved
<1>2. QED
  BY <1>1, PoolInvariant, PTL

-----------------------------------------------------------------------------
(* The ports of the clients in the map                                     *)

LEMMA CreateHeld ==
  ASSUME TypeOK, PoolSound(availablePorts, usedPorts), PortsHeld,
         NEW id \in Ids, NEW who \in Identities,
         NEW old \in Clients \cup {None}, Create(id, who, old),
         old # None => old = clients[id]
  PROVE  PortsHeld'
<1> SUFFICES ASSUME RangeConfigured
             PROVE  /\ \A i \in Ids : clients'[i] # None => port'[clients'[i]] \in usedPorts'
                    /\ \A i, j \in Ids : i # j /\ clients'[i] # None /\ clients'[j] # None
                                           => port'[clients'[i]] # port'[clients'[j]]
  BY DEF PortsHeld, RangeConfigured
<1> DEFINE used == UsedWithout(old)
<1>1. PICK k \in Clients, p \in Ports \cup {NoPort} :
        /\ CreatesClient(id, who, old, k) /\ port' = [port EXCEPT ![k] = p]
        /\ p \in Ports \ used /\ usedPorts' = used \cup {p}
  BY CreateTakes
<1>2. used = IF old = None THEN usedPorts ELSE usedPorts \ {port[old]}
  BY DEF UsedWithout
<1> HIDE DEF used
<1>3. clients'[id] = k /\ port'[k] = p
  BY <1>1 DEF CreatesClient, TypeOK
<1>4. ASSUME NEW i \in Ids, i # id, clients'[i] # None
      PROVE  /\ clients[i] # None /\ port'[clients'[i]] = port[clients[i]]
             /\ port[clients[i]] \in used
  <2>1. clients'[i] = clients[i] /\ clients[i] \in Clients /\ clients[i] # None
    BY <1>1, <1>4 DEF CreatesClient, TypeOK
  <2>2. clients[i] # k
    BY <1>1 DEF CreatesClient, Unused, Mapped
  <2>3. port[clients[i]] \in usedPorts /\ (old # None => port[old] # port[clients[i]])
    BY <1>4, <2>1 DEF PortsHeld
  <2>4. QED
    BY <1>1, <1>2, <2>1, <2>2, <2>3 DEF TypeOK
<1>5. \A i, j \in Ids : i # id /\ j # id /\ i # j /\ clients'[i] # None /\ clients'[j] # None
                          => port'[clients'[i]] # port'[clients'[j]]
  BY <1>4 DEF PortsHeld
<1>6. QED
  BY <1>1, <1>3, <1>4, <1>5

LEMMA ExpiryHeld ==
  ASSUME TypeOK, ListenerHasId, MappedListened, PortsHeld, NEW k \in Clients, GraceExpired(k)
  PROVE  PortsHeld'
<1> SUFFICES ASSUME RangeConfigured
             PROVE  /\ \A i \in Ids : clients'[i] # None => port'[clients'[i]] \in usedPorts'
                    /\ \A i, j \in Ids : i # j /\ clients'[i] # None /\ clients'[j] # None
                                           => port'[clients'[i]] # port'[clients'[j]]
  BY DEF PortsHeld, RangeConfigured
<1>1. usedPorts' = UsedWithout(Victim(k)) /\ port' = port
  BY DEF GraceExpired, Victim, birthVars
<1>2. ASSUME NEW i \in Ids, clients'[i] # None
      PROVE  /\ clients'[i] = clients[i] /\ clients[i] # None
             /\ port[clients[i]] \in usedPorts'
  <2>1. clients'[i] = clients[i] /\ clients[i] # None /\ clients[i] # Victim(k)
    BY <1>2, ExpirySpares
  <2>2. port[clients[i]] \in usedPorts
    BY <2>1 DEF PortsHeld
  <2>3. ASSUME Victim(k) # None PROVE port[clients[i]] # port[Victim(k)]
    <3>1. clientId[k] \in Ids /\ Victim(k) = clients[clientId[k]]
      BY <2>3 DEF Victim, ListenerHasId
    <3>2. QED
      BY <2>1, <2>3, <3>1 DEF PortsHeld
  <2>4. QED
    BY <1>1, <2>1, <2>2, <2>3 DEF UsedWithout
<1>3. QED
  BY <1>1, <1>2 DEF PortsHeld

LEMMA StepHeld ==
  ASSUME TypeOK, ListenerHasId, MappedListened, PoolSound(availablePorts, usedPorts),
         PortsHeld, [Next]_vars
  PROVE  PortsHeld'
<1>1. ASSUME NEW id \in Ids, NEW who \in Identities, NEW explicit \in BOOLEAN,
             NewClient(id, who) \/ Reconnect(id, who, explicit) \/ AssignRandom(id, who, explicit)
      PROVE  PortsHeld'
  <2>1. PICK i \in Ids, old \in Clients \cup {None} :
          Create(i, who, old) /\ (old # None => old = clients[i])
    BY <1>1, CallCreates
  <2>2. QED
    BY <2>1, CreateHeld
<1>2. CASE UNCHANGED <<clients, usedPorts, port>>
  BY <1>2 DEF PortsHeld, RangeConfigured
<1>3. ASSUME NEW k \in Clients, ClientNext(k) PROVE PortsHeld'
  <2>1. CASE GraceExpired(k)
    BY <2>1, ExpiryHeld
  <2>2. CASE Listening(k) \/ ListenError(k) \/ RunImmediate(k) \/ Accept(k) \/ SocketClosed(k)
    BY <1>2, <2>2 DEF Listening, ListenError, RunImmediate, Accept, SocketClosed,
                      managerVars, birthVars
  <2>3. QED
    BY <1>3, <2>1, <2>2 DEF ClientNext
<1>4. CASE UNCHANGED vars
  BY <1>2, <1>4 DEF vars, managerVars, birthVars
<1>5. ASSUME NEW id \in Ids, NEW who \in Identities, NewClient(id, who) PROVE PortsHeld'
  BY <1>1, <1>5
<1>6. ASSUME NEW id \in Accessors, CreateThrows(id) PROVE PortsHeld'
  BY <1>6 DEF CreateThrows, birthVars, PortsHeld, RangeConfigured
<1>7. QED
  BY <1>1, <1>3, <1>4, <1>5, <1>6 DEF Next

\* A client in the map has a port of its own in use, whatever was removed or
\* written over before it, so that its port is given back when it goes.
THEOREM HeldCorrect == Spec => []PortsHeld
<1>1. Init => PortsHeld
  BY DEF Init, PortsHeld
<1>2. TypeOK /\ ListenerHasId /\ MappedListened /\ PoolSound(availablePorts, usedPorts)
        /\ PortsHeld /\ [Next]_vars => PortsHeld'
  BY StepHeld
<1>3. QED
  BY <1>1, <1>2, TypeInvariant, ListenedCorrect, PoolInvariant, PTL DEF Spec

-----------------------------------------------------------------------------
(* The ports in use                                                        *)

LEMMA CreateStrays ==
  ASSUME TypeOK, PoolSound(availablePorts, usedPorts),
         NEW id \in Ids, NEW who \in Identities,
         clients[id] \in Clients \cup {None}, Create(id, who, clients[id])
  PROVE  Stray' \subseteq Stray
<1> DEFINE old  == clients[id]
           used == UsedWithout(old)
<1>1. PICK k \in Clients, p \in Ports \cup {NoPort} :
        /\ CreatesClient(id, who, old, k) /\ port' = [port EXCEPT ![k] = p]
        /\ RangeConfigured => usedPorts' = used \cup {p}
  BY CreateTakes
<1>2. used = IF old = None THEN usedPorts ELSE usedPorts \ {port[old]}
  BY DEF UsedWithout
<1>3. clients'[id] = k /\ port'[k] = p /\ k # None
  BY <1>1, ManagerAssumption DEF CreatesClient, TypeOK
<1>4. usedPorts' \in SUBSET Ports /\ (~RangeConfigured => usedPorts' = {})
  <2>1. usedPorts' \in SUBSET Ports
    BY CreateTakes DEF PoolSound
  <2>2. QED
    BY <2>1 DEF Ports
<1> HIDE DEF used
<1> SUFFICES ASSUME NEW q \in usedPorts', \A i \in Ids : clients'[i] # None => port'[clients'[i]] # q
             PROVE  q \in usedPorts /\ \A i \in Ids : clients[i] # None => port[clients[i]] # q
  BY DEF Stray
<1>5. RangeConfigured /\ q # p
  BY <1>3, <1>4
<1>6. q \in usedPorts /\ (old # None => q # port[old])
  BY <1>1, <1>2, <1>5
<1>7. ASSUME NEW i \in Ids, clients[i] # None, port[clients[i]] = q PROVE FALSE
  <2>1. i # id /\ clients[i] # k /\ clients[i] \in Clients
    BY <1>1, <1>6, <1>7 DEF CreatesClient, Unused, Mapped, TypeOK
  <2>2. clients'[i] = clients[i] /\ port'[clients[i]] = q
    BY <1>1, <1>7, <2>1 DEF CreatesClient, TypeOK
  <2>3. QED
    BY <1>7, <2>2
<1>8. QED
  BY <1>6, <1>7

LEMMA ExpiryStrays ==
  ASSUME TypeOK, ListenerHasId, MapMatchesClients, NEW k \in Clients, GraceExpired(k)
  PROVE  Stray' \subseteq Stray
<1>0. None \notin Clients
  BY ManagerAssumption
<1>1. usedPorts' = UsedWithout(Victim(k)) /\ port' = port
  BY DEF GraceExpired, Victim, birthVars
<1>2. CASE Victim(k) = None
  BY <1>1, <1>2 DEF GraceExpired, Victim, UsedWithout, Stray
<1>3. CASE Victim(k) = k
  <2> DEFINE c == clientId[k]
  <2>1. c \in Ids /\ clients[c] = k
    BY <1>0, <1>3 DEF Victim, MapMatchesClients, ListenerHasId
  <2>2. clients' = [clients EXCEPT ![c] = None] /\ usedPorts' = usedPorts \ {port[k]}
    BY <1>0, <1>1, <1>3 DEF GraceExpired, Victim, UsedWithout
  <2> HIDE DEF c
  <2> SUFFICES ASSUME NEW q \in usedPorts',
                      \A i \in Ids : clients'[i] # None => port'[clients'[i]] # q
               PROVE  q \in usedPorts /\ \A i \in Ids : clients[i] # None => port[clients[i]] # q
    BY DEF Stray
  <2>3. q \in usedPorts /\ q # port[k]
    BY <2>2
  <2>4. ASSUME NEW i \in Ids, clients[i] # None, port[clients[i]] = q PROVE FALSE
    <3>1. i # c /\ clients'[i] = clients[i]
      BY <2>1, <2>2, <2>3, <2>4 DEF TypeOK
    <3>2. QED
      BY <1>1, <2>4, <3>1
  <2>5. QED
    BY <2>3, <2>4
<1>4. QED
  BY <1>2, <1>3, VictimIsSelf

LEMMA StepStrays ==
  ASSUME HriFresh, TypeOK, ListenerHasId, MapMatchesClients,
         PoolSound(availablePorts, usedPorts), [Next]_vars
  PROVE  Stray' \subseteq Stray \/ \E id \in Accessors : CreateThrows(id)
<1>1. ASSUME NEW id \in Ids, NEW who \in Identities, NEW explicit \in BOOLEAN,
             NewClient(id, who) \/ Reconnect(id, who, explicit) \/ AssignRandom(id, who, explicit)
      PROVE  Stray' \subseteq Stray
  <2>1. PICK i \in Ids : clients[i] \in Clients \cup {None} /\ Create(i, who, clients[i])
    BY <1>1, CallReplaces
  <2>2. QED
    BY <2>1, CreateStrays
<1>2. CASE UNCHANGED <<clients, usedPorts, port>>
  BY <1>2 DEF Stray
<1>3. ASSUME NEW k \in Clients, ClientNext(k) PROVE Stray' \subseteq Stray
  <2>1. CASE GraceExpired(k)
    BY <2>1, ExpiryStrays
  <2>2. CASE Listening(k) \/ ListenError(k) \/ RunImmediate(k) \/ Accept(k) \/ SocketClosed(k)
    <3>1. UNCHANGED <<clients, usedPorts, port>>
      BY <2>2 DEF Listening, ListenError, RunImmediate, Accept, SocketClosed,
                  managerVars, birthVars
    <3>2. QED
      BY <3>1 DEF Stray
  <2>3. QED
    BY <1>3, <2>1, <2>2 DEF ClientNext
<1>4. CASE UNCHANGED vars
  BY <1>2, <1>4 DEF vars, managerVars, birthVars
<1>5. ASSUME NEW id \in Ids, NEW who \in Identities, NewClient(id, who)
      PROVE  Stray' \subseteq Stray
  BY <1>1, <1>5
<1>6. QED
  BY <1>1, <1>3, <1>4, <1>5 DEF Next

\* A client that leaves the map takes its port out of use, however it leaves, and
\* no step but the assignment that throws leaves a port in use with no client.
THEOREM LeaveCorrect == ASSUME HriFresh PROVE Spec => PortsLeaveWithClients
<1>1. TypeOK /\ ListenerHasId /\ MapMatchesClients /\ PoolSound(availablePorts, usedPorts)
        /\ [Next]_vars
        => [Stray' \subseteq Stray \/ \E id \in Accessors : CreateThrows(id)]_vars
  BY StepStrays
<1>2. QED
  BY <1>1, TypeInvariant, MapCorrect, PoolInvariant, PTL DEF Spec, PortsLeaveWithClients

\* Without an id that Map.prototype has an accessor for, the ports in use are those
\* of the clients in the map: the assignment that throws is the only leak.
THEOREM NoStrayCorrect == ASSUME HriFresh, Accessors = {} PROVE Spec => []NoStrayPort
<1>1. Init => NoStrayPort
  BY DEF Init, NoStrayPort, Stray
<1>2. TypeOK /\ ListenerHasId /\ MapMatchesClients /\ PoolSound(availablePorts, usedPorts)
        /\ NoStrayPort /\ [Next]_vars => NoStrayPort'
  BY StepStrays DEF NoStrayPort
<1>3. QED
  BY <1>1, <1>2, TypeInvariant, MapCorrect, PoolInvariant, PTL DEF Spec

-----------------------------------------------------------------------------
(* stats.tunnels                                                           *)

\* The ids of the tunnels there are.
SettledIds == {i \in Ids : clients[i] # None /\ call[clients[i]] = "settled"}

\* A server that was not closed belongs to a client in the map, and the call
\* that waits for its bind is pending.
ServersMapped ==
  \A k \in Clients : /\ server[k] \in {"binding", "listening", "failed"} => Mapped(k)
                     /\ server[k] = "binding" => call[k] = "pending"

CountInv == ServersMapped /\ tunnels <= Cardinality(SettledIds)

\* The map is injective, and there are finitely many clients.
LEMMA SettledFinite ==
  ASSUME TypeOK, MapMatchesClients
  PROVE  IsFiniteSet(SettledIds) /\ Cardinality(SettledIds) \in Nat
<1> DEFINE f == [i \in SettledIds |-> clients[i]]
<1>1. f \in [SettledIds -> Clients]
  BY DEF SettledIds, TypeOK
<1>2. \A i, j \in SettledIds : f[i] = f[j] => i = j
  BY DEF SettledIds, MapMatchesClients
<1> HIDE DEF f
<1>3. f \in Injection(SettledIds, Clients)
  BY <1>1, <1>2, Fun_IsInj
<1>4. IsFiniteSet(Clients)
  BY ManagerAssumption
<1>5. QED
  BY <1>3, <1>4, FS_Injection, FS_CardinalityType

LEMMA CreateCount ==
  ASSUME TypeOK, MapMatchesClients, CountInv, NEW id \in Ids, NEW who \in Identities,
         clients[id] \in Clients \cup {None}, Create(id, who, clients[id])
  PROVE  CountInv'
<1> DEFINE old == clients[id]
<1>0. None \notin Clients
  BY ManagerAssumption
<1>1. PICK k \in Clients : CreatesClient(id, who, old, k)
  BY DEF Create, CreatesClient
<1>2. tunnels' = IF old = None THEN tunnels ELSE tunnels - 1
  BY DEF Create
<1>3. \A i \in Ids : clients[i] # k
  BY <1>1 DEF CreatesClient, Unused, Mapped
<1>4. clients'[id] = k /\ call'[k] = "pending" /\ server'[k] = "binding"
  BY <1>1 DEF CreatesClient, TypeOK
<1>5. \A i \in Ids : i # id => clients'[i] = clients[i]
  BY <1>1 DEF CreatesClient, TypeOK
<1>6. \A l \in Clients : l # k => call'[l] = call[l]
  BY <1>1 DEF CreatesClient, TypeOK
<1>7. \A l \in Clients : l # k /\ l # old => server'[l] = server[l]
  BY <1>1 DEF CreatesClient, TypeOK
<1>8. ServersMapped'
  <2> SUFFICES ASSUME NEW l \in Clients
               PROVE  /\ server'[l] \in {"binding", "listening", "failed"}
                           => \E i \in Ids : clients'[i] = l
                      /\ server'[l] = "binding" => call'[l] = "pending"
    BY DEF ServersMapped, Mapped
  <2>1. CASE l = k
    BY <1>4, <2>1
  <2>2. CASE l # k /\ l = old
    <3>1. server'[l] = "closed"
      BY <1>1, <2>2 DEF CreatesClient, TypeOK
    <3>2. QED
      BY <3>1
  <2>3. CASE l # k /\ l # old
    <3>1. server'[l] = server[l] /\ call'[l] = call[l]
      BY <1>6, <1>7, <2>3
    <3>2. ASSUME server[l] \in {"binding", "listening", "failed"}
          PROVE  \E i \in Ids : clients'[i] = l
      <4>1. PICK i \in Ids : clients[i] = l
        BY <3>2 DEF CountInv, ServersMapped, Mapped
      <4>2. i # id
        BY <2>3, <4>1
      <4>3. QED
        BY <1>5, <4>1, <4>2
    <3>3. QED
      BY <3>1, <3>2 DEF CountInv, ServersMapped
  <2>4. QED
    BY <2>1, <2>2, <2>3
<1>9. SettledIds' = SettledIds \ {id}
  <2>1. id \notin SettledIds'
    BY <1>4 DEF SettledIds
  <2>2. \A i \in Ids : i # id /\ clients[i] # None => call'[clients[i]] = call[clients[i]]
    BY <1>3, <1>6 DEF TypeOK
  <2>3. \A i \in Ids : i # id => (i \in SettledIds' <=> i \in SettledIds)
    BY <1>5, <2>2 DEF SettledIds
  <2>4. SettledIds' \subseteq Ids /\ SettledIds \subseteq Ids
    BY DEF SettledIds
  <2>5. QED
    BY <2>1, <2>3, <2>4
<1>10. /\ IsFiniteSet(SettledIds) /\ Cardinality(SettledIds) \in Nat
       /\ Cardinality(SettledIds \ {id}) =
            IF id \in SettledIds THEN Cardinality(SettledIds) - 1 ELSE Cardinality(SettledIds)
  BY SettledFinite, FS_RemoveElement
<1>11. old = None => id \notin SettledIds
  BY DEF SettledIds
<1>12. tunnels \in Int /\ tunnels <= Cardinality(SettledIds)
  BY DEF TypeOK, CountInv
<1>13. tunnels' <= Cardinality(SettledIds')
  BY <1>2, <1>9, <1>10, <1>11, <1>12
<1>14. QED
  BY <1>8, <1>13 DEF CountInv

LEMMA ExpiryCount ==
  ASSUME TypeOK, ListenerHasId, MapMatchesClients, CountInv, NEW k \in Clients, GraceExpired(k)
  PROVE  CountInv'
<1>0. None \notin Clients
  BY ManagerAssumption
<1>1. call' = call /\ server' = [l \in Clients |-> IF l \in {k, Victim(k)} THEN "closed" ELSE server[l]]
  BY DEF GraceExpired, Victim
<1>2. CASE Victim(k) = None
  <2>1. clients' = clients /\ tunnels' = tunnels
    BY <1>2 DEF GraceExpired, Victim
  <2>2. SettledIds' = SettledIds
    BY <1>1, <2>1 DEF SettledIds
  <2>3. \A l \in Clients : server'[l] = "closed" \/ server'[l] = server[l]
    BY <1>1
  <2>4. ServersMapped'
    BY <1>1, <2>1, <2>3 DEF CountInv, ServersMapped, Mapped
  <2>5. QED
    BY <2>1, <2>2, <2>4 DEF CountInv
<1>3. CASE Victim(k) = k
  <2> DEFINE c == clientId[k]
  <2>1. c \in Ids /\ clients[c] = k
    BY <1>0, <1>3 DEF Victim, MapMatchesClients, ListenerHasId
  <2>2. clients' = [clients EXCEPT ![c] = None] /\ tunnels' = tunnels - 1
    BY <1>0, <1>3 DEF GraceExpired, Victim
  <2> HIDE DEF c
  <2>3. clients'[c] = None /\ \A i \in Ids : i # c => clients'[i] = clients[i]
    BY <2>1, <2>2 DEF TypeOK
  <2>4. SettledIds' = SettledIds \ {c}
    BY <1>1, <2>3 DEF SettledIds
  <2>5. \A l \in Clients : IF l = k THEN server'[l] = "closed" ELSE server'[l] = server[l]
    BY <1>1, <1>3
  <2>6. ServersMapped'
    <3> SUFFICES ASSUME NEW l \in Clients
                 PROVE  /\ server'[l] \in {"binding", "listening", "failed"}
                             => \E i \in Ids : clients'[i] = l
                        /\ server'[l] = "binding" => call'[l] = "pending"
      BY DEF ServersMapped, Mapped
    <3>1. CASE l = k
      BY <2>5, <3>1
    <3>2. CASE l # k
      <4>1. server'[l] = server[l] /\ call'[l] = call[l]
        BY <1>1, <2>5, <3>2
      <4>2. \A i \in Ids : clients[i] = l => i # c /\ clients'[i] = l
        BY <2>1, <2>3, <3>2
      <4>3. QED
        BY <4>1, <4>2 DEF CountInv, ServersMapped, Mapped
    <3>3. QED
      BY <3>1, <3>2
  <2>7. /\ IsFiniteSet(SettledIds) /\ Cardinality(SettledIds) \in Nat
        /\ Cardinality(SettledIds \ {c}) =
             IF c \in SettledIds THEN Cardinality(SettledIds) - 1 ELSE Cardinality(SettledIds)
    BY SettledFinite, FS_RemoveElement
  <2>8. tunnels \in Int /\ tunnels <= Cardinality(SettledIds)
    BY DEF TypeOK, CountInv
  <2>9. tunnels' <= Cardinality(SettledIds')
    BY <2>2, <2>4, <2>7, <2>8
  <2>10. QED
    BY <2>6, <2>9 DEF CountInv
<1>4. QED
  BY <1>2, <1>3, VictimIsSelf

\* newClient returns: the client whose server listens is in the map, and was
\* not counted before.
LEMMA ListeningCount ==
  ASSUME TypeOK, MapMatchesClients, CountInv, NEW k \in Clients, Listening(k)
  PROVE  CountInv'
<1>0. None \notin Clients
  BY ManagerAssumption
<1>1. /\ clients' = clients /\ tunnels' = tunnels + 1
      /\ server' = [server EXCEPT ![k] = "listening"]
      /\ call' = [call EXCEPT ![k] = "settled"]
      /\ server[k] = "binding"
  BY DEF Listening
<1>2. call[k] = "pending" /\ Mapped(k)
  BY <1>1 DEF CountInv, ServersMapped
<1>3. PICK i \in Ids : clients[i] = k
  BY <1>2 DEF Mapped
<1>4. i \notin SettledIds
  BY <1>2, <1>3 DEF SettledIds
<1>5. call'[k] = "settled" /\ \A l \in Clients : l # k => call'[l] = call[l] /\ server'[l] = server[l]
  BY <1>1 DEF TypeOK
<1>6. SettledIds' = SettledIds \cup {i}
  <2>1. i \in SettledIds'
    BY <1>0, <1>1, <1>3, <1>5 DEF SettledIds
  <2>2. ASSUME NEW j \in Ids, j # i PROVE j \in SettledIds' <=> j \in SettledIds
    <3>1. clients[j] # None => clients[j] # k /\ clients[j] \in Clients
      BY <1>3, <2>2 DEF MapMatchesClients, TypeOK
    <3>2. QED
      BY <1>1, <1>5, <3>1 DEF SettledIds
  <2>3. SettledIds' \subseteq Ids /\ SettledIds \subseteq Ids
    BY DEF SettledIds
  <2>4. QED
    BY <2>1, <2>2, <2>3
<1>7. /\ IsFiniteSet(SettledIds) /\ Cardinality(SettledIds) \in Nat
      /\ Cardinality(SettledIds \cup {i}) = Cardinality(SettledIds) + 1
  BY <1>4, SettledFinite, FS_AddElement
<1>8. tunnels \in Int /\ tunnels <= Cardinality(SettledIds)
  BY DEF TypeOK, CountInv
<1>9. tunnels' <= Cardinality(SettledIds')
  BY <1>1, <1>6, <1>7, <1>8
<1>10. ServersMapped'
  <2>1. server'[k] = "listening"
    BY <1>1 DEF TypeOK
  <2>2. QED
    BY <1>1, <1>2, <1>5, <2>1 DEF CountInv, ServersMapped, Mapped
<1>11. QED
  BY <1>9, <1>10 DEF CountInv

LEMMA StepCount ==
  ASSUME HriFresh, TypeOK, ListenerHasId, MapMatchesClients, CountInv, [Next]_vars
  PROVE  CountInv'
<1>1. ASSUME NEW id \in Ids, NEW who \in Identities, NEW explicit \in BOOLEAN,
             NewClient(id, who) \/ Reconnect(id, who, explicit) \/ AssignRandom(id, who, explicit)
      PROVE  CountInv'
  <2>1. PICK i \in Ids : clients[i] \in Clients \cup {None} /\ Create(i, who, clients[i])
    BY <1>1, CallReplaces
  <2>2. QED
    BY <2>1, CreateCount
<1>2. CASE UNCHANGED <<clients, tunnels, server, call>>
  BY <1>2 DEF CountInv, ServersMapped, SettledIds, Mapped
<1>3. ASSUME NEW k \in Clients, ClientNext(k) PROVE CountInv'
  <2>1. CASE GraceExpired(k)
    BY <2>1, ExpiryCount
  <2>2. CASE Listening(k)
    BY <2>2, ListeningCount
  <2>3. CASE ListenError(k)
    <3>1. /\ UNCHANGED <<clients, tunnels, call>>
          /\ server' = [server EXCEPT ![k] = "failed"] /\ server[k] = "binding"
      BY <2>3 DEF ListenError, managerVars
    <3>2. SettledIds' = SettledIds
      BY <3>1 DEF SettledIds
    <3>3. \A l \in Clients : server'[l] = server[l] \/ (l = k /\ server'[l] = "failed")
      BY <3>1 DEF TypeOK
    <3>4. ServersMapped'
      BY <3>1, <3>3 DEF CountInv, ServersMapped, Mapped
    <3>5. QED
      BY <3>1, <3>2, <3>4 DEF CountInv
  <2>4. CASE RunImmediate(k) \/ Accept(k) \/ SocketClosed(k)
    BY <1>2, <2>4 DEF RunImmediate, Accept, SocketClosed, managerVars
  <2>5. QED
    BY <1>3, <2>1, <2>2, <2>3, <2>4 DEF ClientNext
<1>4. CASE UNCHANGED portless
  BY <1>2, <1>4 DEF portless
<1>5. ASSUME NEW id \in Ids, NEW who \in Identities, NewClient(id, who) PROVE CountInv'
  BY <1>1, <1>5
<1>6. QED
  BY <1>1, <1>3, <1>4, <1>5, ThrowOrStutter DEF Next

LEMMA CountInvariant == ASSUME HriFresh PROVE Spec => []CountInv
<1>1. Init => CountInv
  <2> SUFFICES ASSUME Init PROVE CountInv
    OBVIOUS
  <2>1. SettledIds = {} /\ tunnels = 0
    BY DEF Init, SettledIds
  <2>2. Cardinality({}) = 0
    BY FS_EmptySet
  <2>3. ServersMapped
    BY DEF Init, ServersMapped
  <2>4. QED
    BY <2>1, <2>2, <2>3 DEF CountInv
<1>2. TypeOK /\ ListenerHasId /\ MapMatchesClients /\ CountInv /\ [Next]_vars => CountInv'
  BY StepCount
<1>3. QED
  BY <1>1, <1>2, TypeInvariant, MapCorrect, PTL DEF Spec

\* stats.tunnels is never more than the tunnels there are, whatever fails to
\* bind, expires or is replaced.
THEOREM CountCorrect == ASSUME HriFresh PROVE Spec => []TunnelsNeverOvercount
<1>1. CountInv => TunnelsNeverOvercount
  BY DEF CountInv, SettledIds, TunnelsNeverOvercount
<1>2. QED
  BY <1>1, CountInvariant, PTL

-----------------------------------------------------------------------------
(* The lives of the clients                                                *)

\* No socket connects before the setImmediate of its client.
YoungIsOffline == immediate \cap isOnline = {}

LEMMA StepYoung == YoungIsOffline /\ [Next]_vars => YoungIsOffline'
<1> SUFFICES ASSUME YoungIsOffline, [Next]_vars PROVE YoungIsOffline'
  OBVIOUS
<1>1. ASSUME NEW id \in Ids, NEW who \in Identities, NEW old, Create(id, who, old)
      PROVE  YoungIsOffline'
  <2>1. PICK k \in Clients : CreatesClient(id, who, old, k)
    BY <1>1 DEF Create, CreatesClient
  <2>2. QED
    BY <2>1 DEF CreatesClient, YoungIsOffline
<1>2. ASSUME NEW k \in Clients, ClientNext(k) PROVE YoungIsOffline'
  BY <1>2 DEF ClientNext, Listening, ListenError, RunImmediate, Accept, SocketClosed,
              GraceExpired, YoungIsOffline
<1>3. CASE UNCHANGED portless
  BY <1>3 DEF portless, YoungIsOffline
<1>4. ASSUME NEW id \in Ids, NEW who \in Identities, NEW explicit \in BOOLEAN,
             NewClient(id, who) \/ Reconnect(id, who, explicit) \/ AssignRandom(id, who, explicit)
      PROVE  YoungIsOffline'
  BY <1>1, <1>4 DEF NewClient, Reconnect, AssignRandom, RandomId
<1>5. ASSUME NEW id \in Ids, NEW who \in Identities, NewClient(id, who) PROVE YoungIsOffline'
  BY <1>4, <1>5
<1>6. QED
  BY <1>2, <1>3, <1>4, <1>5, ThrowOrStutter DEF Next

LEMMA LifeKept ==
  ASSUME NEW l \in Clients, Mapped(l)' <=> Mapped(l),
         l \in immediate' <=> l \in immediate,
         l \in isOnline' <=> l \in isOnline, l \in graceTimeout' <=> l \in graceTimeout
  PROVE  Life(l)!vars' = Life(l)!vars
<1>1. Mapped(l)' = Mapped(l)
  BY DEF Mapped
<1>2. /\ (l \in immediate') = (l \in immediate)
      /\ (l \in isOnline') = (l \in isOnline)
      /\ (l \in graceTimeout') = (l \in graceTimeout)
  OBVIOUS
<1>3. QED
  BY <1>1, <1>2 DEF Life!vars

\* A call of newClient is the birth of one client, the replacement of the one that
\* the map has under the id, and nothing to the others.
LEMMA CreateLife ==
  ASSUME TypeOK, MappedListened, GraceWatchesOffline,
         NEW id \in Ids, NEW who \in Identities,
         clients[id] \in Clients \cup {None}, Create(id, who, clients[id]),
         NEW l \in Clients
  PROVE  [Life(l)!Next]_(Life(l)!vars)
<1>0. None \notin Clients
  BY ManagerAssumption
<1>1. PICK k \in Clients : CreatesClient(id, who, clients[id], k)
  BY DEF Create, CreatesClient
<1>2. ~Mapped(k) /\ connectedSockets[k] = 0 /\ k \notin immediate \cup graceTimeout
  BY <1>1 DEF CreatesClient, Unused
<1>3. \A i \in Ids : clients'[i] = IF i = id THEN k ELSE clients[i]
  BY <1>1 DEF CreatesClient, TypeOK
<1>4. CASE l = k
  <2>1. Mapped(l)' /\ l \in immediate' /\ l \notin isOnline' /\ l \notin graceTimeout'
    BY <1>1, <1>2, <1>3, <1>4 DEF CreatesClient, Mapped
  <2>2. l \notin isOnline
    BY <1>2, <1>4 DEF GraceWatchesOffline
  <2>3. Life(l)!Born
    BY <1>2, <1>4, <2>1, <2>2 DEF Life!Born
  <2>4. QED
    BY <2>3 DEF Life!Next
<1>5. CASE l # k /\ l = clients[id]
  <2>1. ~Mapped(l)'
    <3> SUFFICES ASSUME NEW i \in Ids, clients'[i] = l PROVE FALSE
      BY DEF Mapped
    <3>1. i # id /\ clients[i] = l
      BY <1>3, <1>5
    <3>2. QED
      BY <1>0, <1>5, <3>1 DEF MappedListened
  <2>2. Mapped(l)
    BY <1>5 DEF Mapped
  <2>3. Life(l)!Replace
    BY <1>1, <1>5, <2>1, <2>2 DEF CreatesClient, Life!Replace
  <2>4. QED
    BY <2>3 DEF Life!Next
<1>6. CASE l # k /\ l # clients[id]
  <2>1. Mapped(l)' <=> Mapped(l)
    BY <1>3, <1>6 DEF Mapped
  <2>2. QED
    BY <1>1, <1>6, <2>1, LifeKept DEF CreatesClient
<1>7. QED
  BY <1>4, <1>5, <1>6

\* The expiry of a timer ends the life of its own client only.
LEMMA ExpiryLife ==
  ASSUME TypeOK, ListenerHasId, MapMatchesClients, GraceWatchesOffline,
         NEW k \in Clients, GraceExpired(k), NEW l \in Clients
  PROVE  [Life(l)!Next]_(Life(l)!vars)
<1>0. None \notin Clients
  BY ManagerAssumption
<1>1. /\ k \in graceTimeout /\ k \notin isOnline
      /\ graceTimeout' = graceTimeout \ {k, Victim(k)}
      /\ UNCHANGED <<immediate, isOnline>>
  BY DEF GraceExpired, Victim, GraceWatchesOffline
<1>2. Victim(k) \in {k, None}
  BY VictimIsSelf
<1>3. CASE l = k
  <2>1. ~Mapped(l)'
    <3> SUFFICES ASSUME NEW i \in Ids, clients'[i] = k PROVE FALSE
      BY <1>3 DEF Mapped
    <3>1. MappedListened
      BY DEF MappedListened, MapMatchesClients
    <3>2. QED
      BY <1>0, <3>1, ExpirySpares
  <2>2. Life(l)!Expire
    BY <1>1, <1>3, <2>1 DEF Life!Expire
  <2>3. QED
    BY <2>2 DEF Life!Next
<1>4. CASE l # k
  <2>1. Mapped(l)' <=> Mapped(l)
    <3>1. CASE Victim(k) = None
      <4>1. clients' = clients
        BY <3>1 DEF GraceExpired, Victim
      <4>2. QED
        BY <4>1 DEF Mapped
    <3>2. CASE Victim(k) = k
      <4> DEFINE c == clientId[k]
      <4>1. clients[c] = k /\ clients' = [clients EXCEPT ![c] = None]
        BY <1>0, <3>2 DEF GraceExpired, Victim
      <4> HIDE DEF c
      <4>2. \A i \in Ids : clients'[i] = l <=> clients[i] = l
        BY <1>0, <1>4, <4>1 DEF TypeOK
      <4>3. QED
        BY <4>2 DEF Mapped
    <3>3. QED
      BY <1>2, <3>1, <3>2
  <2>2. l \in graceTimeout' <=> l \in graceTimeout
    BY <1>0, <1>1, <1>2, <1>4
  <2>3. QED
    BY <1>1, <2>1, <2>2, LifeKept
<1>5. QED
  BY <1>3, <1>4

\* Only the server of a client in the map accepts, so only such a client connects.
LEMMA SocketLife ==
  ASSUME TypeOK, GraceWatchesOffline, ServersMapped,
         NEW k \in Clients, Accept(k) \/ SocketClosed(k), NEW l \in Clients
  PROVE  [Life(l)!Next]_(Life(l)!vars)
<1>1. UNCHANGED <<clients, immediate>>
  BY DEF Accept, SocketClosed, managerVars
<1>2. Mapped(l)' = Mapped(l) /\ (l \in immediate') = (l \in immediate)
  BY <1>1 DEF Mapped
<1>3. connectedSockets[k] \in Int /\ (k \in isOnline <=> connectedSockets[k] > 0)
  BY DEF TypeOK, GraceWatchesOffline
<1>4. CASE UNCHANGED <<isOnline, graceTimeout>> \/ l # k
  <2>1. (l \in isOnline' <=> l \in isOnline) /\ (l \in graceTimeout' <=> l \in graceTimeout)
    BY <1>4 DEF Accept, SocketClosed
  <2>2. QED
    BY <1>1, <1>2, <2>1, LifeKept
<1>5. CASE Accept(k) /\ connectedSockets[k] = 0 /\ l = k
  <2>1. Mapped(k) /\ k \notin immediate /\ k \notin isOnline
    BY <1>3, <1>5 DEF Accept, ServersMapped
  <2>2. k \in isOnline' /\ k \notin graceTimeout'
    BY <1>5 DEF Accept
  <2>3. Life(l)!Connect
    BY <1>1, <1>2, <1>5, <2>1, <2>2 DEF Life!Connect
  <2>4. QED
    BY <2>3 DEF Life!Next
<1>6. CASE SocketClosed(k) /\ connectedSockets[k] = 1 /\ l = k
  <2>1. k \in isOnline /\ k \notin isOnline' /\ k \in graceTimeout'
    BY <1>3, <1>6 DEF SocketClosed
  <2>2. Life(l)!Disconnect
    BY <1>1, <1>2, <1>6, <2>1 DEF Life!Disconnect
  <2>3. QED
    BY <2>2 DEF Life!Next
<1>7. QED
  BY <1>4, <1>5, <1>6 DEF Accept, SocketClosed

LEMMA StepLife ==
  ASSUME HriFresh, TypeOK, ListenerHasId, MapMatchesClients, GraceWatchesOffline,
         ServersMapped, YoungIsOffline, [Next]_vars, NEW l \in Clients
  PROVE  [Life(l)!Next]_(Life(l)!vars)
<1>0. MappedListened
  BY DEF MappedListened, MapMatchesClients
<1>1. ASSUME NEW id \in Ids, NEW who \in Identities, NEW explicit \in BOOLEAN,
             NewClient(id, who) \/ Reconnect(id, who, explicit) \/ AssignRandom(id, who, explicit)
      PROVE  [Life(l)!Next]_(Life(l)!vars)
  <2>1. PICK i \in Ids : clients[i] \in Clients \cup {None} /\ Create(i, who, clients[i])
    BY <1>1, CallReplaces
  <2>2. QED
    BY <1>0, <2>1, CreateLife
<1>2. ASSUME UNCHANGED <<clients, immediate, isOnline, graceTimeout>>
      PROVE  [Life(l)!Next]_(Life(l)!vars)
  BY <1>2 DEF Life!vars, Mapped
<1>3. ASSUME NEW k \in Clients, ClientNext(k) PROVE [Life(l)!Next]_(Life(l)!vars)
  <2>1. CASE Listening(k) \/ ListenError(k)
    BY <1>2, <2>1 DEF Listening, ListenError, managerVars
  <2>2. CASE RunImmediate(k)
    <3>1. /\ UNCHANGED <<clients, isOnline>>
          /\ k \in immediate /\ immediate' = immediate \ {k}
          /\ k \notin isOnline /\ graceTimeout' = graceTimeout \cup {k}
      BY <2>2 DEF RunImmediate, managerVars, YoungIsOffline
    <3>2. Mapped(l)' = Mapped(l) /\ (l \in isOnline') = (l \in isOnline)
      BY <3>1 DEF Mapped
    <3>3. CASE l = k
      <4>1. Life(l)!Settle
        BY <3>1, <3>2, <3>3 DEF Life!Settle
      <4>2. QED
        BY <4>1 DEF Life!Next
    <3>4. CASE l # k
      BY <3>1, <3>2, <3>4, LifeKept
    <3>5. QED
      BY <3>3, <3>4
  <2>3. CASE Accept(k) \/ SocketClosed(k)
    BY <2>3, SocketLife
  <2>4. CASE GraceExpired(k)
    BY <2>4, ExpiryLife
  <2>5. QED
    BY <1>3, <2>1, <2>2, <2>3, <2>4 DEF ClientNext
<1>4. CASE UNCHANGED portless
  BY <1>2, <1>4 DEF portless
<1>5. ASSUME NEW id \in Ids, NEW who \in Identities, NewClient(id, who)
      PROVE  [Life(l)!Next]_(Life(l)!vars)
  BY <1>1, <1>5
<1>6. QED
  BY <1>1, <1>3, <1>4, <1>5, ThrowOrStutter DEF Next

\* However many clients there are and whatever they do to the map, to the ports
\* and to each other's ids, each lives as ClientLife says: no call and no timer of
\* another client ends its life or brings it back.
THEOREM LivesImplemented == ASSUME HriFresh PROVE Spec => ImplementsLife
<1> SUFFICES ASSUME HriFresh, NEW l \in Clients PROVE Spec => Life(l)!Spec
  BY DEF ImplementsLife
<1>1. Init => YoungIsOffline /\ Life(l)!Init
  BY ManagerAssumption DEF Init, YoungIsOffline, Life!Init, Mapped
<1>2. TypeOK /\ ListenerHasId /\ MapMatchesClients /\ GraceWatchesOffline /\ ServersMapped
        /\ YoungIsOffline /\ [Next]_vars
        => [Life(l)!Next]_(Life(l)!vars)
  BY StepLife
<1>3. CountInv => ServersMapped
  BY DEF CountInv
<1>4. QED
  BY <1>1, <1>2, <1>3, StepYoung, TypeInvariant, MapCorrect, WatchCorrect, CountInvariant, PTL
     DEF Spec, Life!Spec
=============================================================================

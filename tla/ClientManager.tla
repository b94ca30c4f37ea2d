--------------------------- MODULE ClientManager ---------------------------
(***************************************************************************)
(* lib/ClientManager.js with the life of the clients it creates            *)
(* (lib/Client.js: online, offline, grace period, close) and of the server *)
(* each one's agent listens with (lib/TunnelAgent.js).                     *)
(*                                                                         *)
(* A client here is a Client object with its agent.  The names in Clients  *)
(* are reused once nothing is left of the old object: no map entry, no     *)
(* timer, no socket, no open server, no listener.                          *)
(***************************************************************************)
EXTENDS Integers, Sequences, FiniteSets

CONSTANTS Ids,          \* subdomains, requested or made by hri.random()
          Accessors,    \* those that Map.prototype has an accessor for: 'size'
          Identities,   \* values of identifier: a token or an IP
          Clients,      \* names of client objects
          None,         \* no client, no id, nobody
          PortStart, PortEnd, \* the port range; PortStart = 0: none configured
          MaxSockets,   \* max_tcp_sockets
          Strict,       \* LT_IP_VALIDATION_STRICT
          HriFresh,     \* hri.random() never returns an id in use
          ListenFails,  \* a port may be taken by another process
          MaxDrift      \* bound on how far stats.tunnels may fall below zero

NoPort == 0

ASSUME ManagerAssumption ==
  /\ IsFiniteSet(Clients)
  /\ None \notin Clients \cup Identities
  /\ Accessors \subseteq Ids
  /\ PortStart \in Nat /\ PortEnd \in Nat
  /\ MaxSockets \in Nat \ {0}
  /\ {Strict, HriFresh, ListenFails} \subseteq BOOLEAN
  /\ MaxDrift \in Nat

RangeConfigured == PortStart # 0 /\ PortEnd # 0
Ports == IF RangeConfigured THEN PortStart..PortEnd ELSE {}

VARIABLES
  clients,          \* this.clients: id -> client
  availablePorts,   \* this.availablePorts, in order
  usedPorts,        \* this.usedPorts
  tunnels,          \* stats.tunnels
  clientId,         \* client.id, as the 'close' listener captured it
  identifier,       \* client.identifier
  port,             \* client.agent.port
  server,           \* its server: none, binding, listening, failed, closed
  call,             \* the newClient call that made it: none, pending, settled
  immediate,        \* clients whose setImmediate has not run
  isOnline,         \* clients with isOnline set
  graceTimeout,     \* clients with a grace timer set
  closeListener,    \* clients whose once('close') listener is attached
  connectedSockets  \* agent.connectedSockets

managerVars == <<clients, availablePorts, usedPorts, tunnels>>
birthVars   == <<clientId, identifier, port>>
vars == <<managerVars, birthVars, server, call, immediate, isOnline,
          graceTimeout, closeListener, connectedSockets>>

Elements(seq) == {seq[i] : i \in 1..Len(seq)}

TypeOK ==
  /\ clients \in [Ids -> Clients \cup {None}]
  /\ availablePorts \in Seq(Ports)
  /\ usedPorts \in SUBSET Ports
  /\ tunnels \in Int
  /\ clientId \in [Clients -> Ids \cup {None}]
  /\ identifier \in [Clients -> Identities \cup {None}]
  /\ port \in [Clients -> Ports \cup {NoPort}]
  /\ server \in [Clients -> {"none", "binding", "listening", "failed", "closed"}]
  /\ call \in [Clients -> {"none", "pending", "settled"}]
  /\ immediate \in SUBSET Clients
  /\ isOnline \in SUBSET Clients
  /\ graceTimeout \in SUBSET Clients
  /\ closeListener \in SUBSET Clients
  /\ connectedSockets \in [Clients -> Int]

\* Mutant of PortRange: one port too many.
PortRangeTooLong == [i \in 1..Cardinality(Ports) + 1 |-> PortStart + i - 1]

\* The constructor fills the pool in increasing order.
PortRange == [i \in 1..Cardinality(Ports) |-> PortStart + i - 1]

Init ==
  /\ clients = [i \in Ids |-> None]
  /\ availablePorts = PortRange
  /\ usedPorts = {}
  /\ tunnels = 0
  /\ clientId = [k \in Clients |-> None]
  /\ identifier = [k \in Clients |-> None]
  /\ port = [k \in Clients |-> NoPort]
  /\ server = [k \in Clients |-> "none"]
  /\ call = [k \in Clients |-> "none"]
  /\ immediate = {}
  /\ isOnline = {}
  /\ graceTimeout = {}
  /\ closeListener = {}
  /\ connectedSockets = [k \in Clients |-> 0]

-----------------------------------------------------------------------------
(* newClient                                                               *)

Mapped(k) == \E i \in Ids : clients[i] = k

Unused(k) ==
  /\ server[k] \in {"none", "closed"}
  /\ connectedSockets[k] = 0
  /\ ~Mapped(k)
  /\ k \notin immediate \cup graceTimeout \cup closeListener

\* _releasePort(client.agent.port)
PoolWith(k) == IF k # None /\ port[k] \in usedPorts
                 THEN Append(availablePorts, port[k]) ELSE availablePorts

\* Mutant of UsedWithout: usedPorts.delete is missing.
UsedStill(k) == usedPorts

UsedWithout(k) == IF k = None THEN usedPorts ELSE usedPorts \ {port[k]}

\* The rest of newClient up to its await, for the final id, once the old
\* client (None: there is none) was removed by removeClient: release of the
\* old port, client.close(), whose 'close' uses up the old listener, then
\* _getPort, which throws on an empty pool, the new objects, the map entry.
Create(id, who, old) ==
  LET pool == PoolWith(old)
      p    == IF pool = <<>> THEN NoPort ELSE Head(pool)
  IN /\ pool # <<>> \/ ~RangeConfigured
     /\ tunnels >= -MaxDrift
     /\ availablePorts' = IF pool = <<>> THEN pool ELSE Tail(pool)
     /\ usedPorts' = UsedWithout(old) \cup ({p} \ {NoPort})
     /\ tunnels' = IF old = None THEN tunnels ELSE tunnels - 1
     /\ \E k \in Clients :
          /\ Unused(k)
          /\ clients' = [clients EXCEPT ![id] = k]
          /\ clientId' = [clientId EXCEPT ![k] = id]
          /\ identifier' = [identifier EXCEPT ![k] = who]
          /\ port' = [port EXCEPT ![k] = p]
          /\ server' = [l \in Clients |-> IF l = k THEN "binding"
                                          ELSE IF l = old THEN "closed" ELSE server[l]]
          /\ call' = [call EXCEPT ![k] = "pending"]
          /\ immediate' = immediate \cup {k}
          /\ isOnline' = isOnline \ {k}
          /\ graceTimeout' = graceTimeout \ {old}
          /\ closeListener' = (closeListener \ {old}) \cup {k}
          /\ UNCHANGED connectedSockets

InGrace(k) == k \in graceTimeout /\ k \notin isOnline

\* hri.random(): the id is not looked up before it is used.
RandomId == {r \in Ids \ Accessors : HriFresh => clients[r] = None}

\* The id is free.
NewClient(id, who) ==
  /\ id \notin Accessors
  /\ clients[id] = None
  /\ Create(id, who, None)

\* this.clients is a Map used as an object: clients.size reads 0, so the id is
\* taken to be free, and assigning to it throws, out of newClient, when _getPort
\* has been called (without a range it takes nothing).  The client made before
\* is in no map and listened to by nobody; its timer closes an agent that never
\* listened.  What stays is that the port is in use.
CreateThrows(id) ==
  /\ id \in Accessors
  /\ availablePorts # <<>>
  /\ availablePorts' = Tail(availablePorts)
  /\ usedPorts' = usedPorts \cup {Head(availablePorts)}
  /\ UNCHANGED <<clients, tunnels, birthVars, server, call, immediate, isOnline,
                 graceTimeout, closeListener, connectedSockets>>

\* Mutant of Reconnect: the identifiers are not compared.
ReconnectAnybody(id, who, explicit) ==
  /\ clients[id] # None
  /\ InGrace(clients[id]) \/ explicit
  /\ Create(id, who, clients[id])

\* The id's client is in its grace period and the identifiers match, or it is
\* not and a matching identifier was given explicitly: the client is replaced.
Reconnect(id, who, explicit) ==
  /\ clients[id] # None
  /\ identifier[clients[id]] = who
  /\ InGrace(clients[id]) \/ explicit
  /\ Create(id, who, clients[id])

\* The id is taken: another one is made up.  In strict mode a client in its
\* grace period is reserved and the call throws, with nothing changed.
AssignRandom(id, who, explicit) ==
  /\ clients[id] # None
  /\ \/ InGrace(clients[id]) /\ identifier[clients[id]] # who /\ ~Strict
     \/ ~InGrace(clients[id]) /\ ~(identifier[clients[id]] = who /\ explicit)
  /\ \E r \in RandomId : Create(r, who, None)

\* Mutant of Listening: also on a server closed meanwhile.
ListeningAnyway(k) ==
  /\ call[k] = "pending" /\ server[k] \in {"binding", "closed"}
  /\ server' = [server EXCEPT ![k] = "listening"]
  /\ call' = [call EXCEPT ![k] = "settled"]
  /\ tunnels' = tunnels + 1
  /\ UNCHANGED <<clients, availablePorts, usedPorts, birthVars, immediate, isOnline,
                 graceTimeout, closeListener, connectedSockets>>

\* 'listening' on the server: the promise resolves and newClient returns.
Listening(k) ==
  /\ server[k] = "binding"
  /\ server' = [server EXCEPT ![k] = "listening"]
  /\ call' = [call EXCEPT ![k] = "settled"]
  /\ tunnels' = tunnels + 1
  /\ UNCHANGED <<clients, availablePorts, usedPorts, birthVars, immediate, isOnline,
                 graceTimeout, closeListener, connectedSockets>>

\* 'error' on the server, EADDRINUSE say: logged, and the promise is left alone.
ListenError(k) ==
  /\ ListenFails
  /\ server[k] = "binding"
  /\ server' = [server EXCEPT ![k] = "failed"]
  /\ UNCHANGED <<managerVars, birthVars, call, immediate, isOnline,
                 graceTimeout, closeListener, connectedSockets>>

-----------------------------------------------------------------------------
(* A client's life                                                         *)

\* setImmediate of the constructor; it runs after the server's own nextTick.
RunImmediate(k) ==
  /\ k \in immediate
  /\ server[k] # "binding"
  /\ immediate' = immediate \ {k}
  /\ graceTimeout' = IF k \in isOnline THEN graceTimeout ELSE graceTimeout \cup {k}
  /\ UNCHANGED <<managerVars, birthVars, server, call, isOnline,
                 closeListener, connectedSockets>>

\* Mutant of Accept: going online does not clear the grace timer.
AcceptKeepsTimer(k) ==
  /\ server[k] = "listening" /\ k \notin immediate
  /\ connectedSockets[k] < MaxSockets
  /\ connectedSockets' = [connectedSockets EXCEPT ![k] = @ + 1]
  /\ isOnline' = isOnline \cup {k}
  /\ UNCHANGED <<managerVars, birthVars, server, call, immediate, graceTimeout, closeListener>>

\* _onConnection, and 'online' on the first socket.  A new server is polled
\* only after the setImmediate callbacks of the iteration it was made in.
Accept(k) ==
  /\ server[k] = "listening"
  /\ k \notin immediate
  /\ connectedSockets[k] < MaxSockets
  /\ connectedSockets' = [connectedSockets EXCEPT ![k] = @ + 1]
  /\ \/ /\ connectedSockets[k] = 0
        /\ isOnline' = isOnline \cup {k}
        /\ graceTimeout' = graceTimeout \ {k}
     \/ /\ connectedSockets[k] # 0
        /\ UNCHANGED <<isOnline, graceTimeout>>
  /\ UNCHANGED <<managerVars, birthVars, server, call, immediate, closeListener>>

\* Mutants of SocketClosed: any close counts as the last; no grace period.
SocketClosedAsLast(k) ==
  /\ connectedSockets[k] > 0
  /\ connectedSockets' = [connectedSockets EXCEPT ![k] = @ - 1]
  /\ isOnline' = isOnline \ {k}
  /\ graceTimeout' = graceTimeout \cup {k}
  /\ UNCHANGED <<managerVars, birthVars, server, call, immediate, closeListener>>
SocketClosedNoGrace(k) ==
  /\ connectedSockets[k] > 0
  /\ connectedSockets' = [connectedSockets EXCEPT ![k] = @ - 1]
  /\ isOnline' = IF connectedSockets[k] = 1 THEN isOnline \ {k} ELSE isOnline
  /\ UNCHANGED <<managerVars, birthVars, server, call, immediate, graceTimeout, closeListener>>

\* 'close' of a tunnel socket, and 'offline' on the last, which restarts the
\* grace period, on a client that was closed as well.
SocketClosed(k) ==
  /\ connectedSockets[k] > 0
  /\ connectedSockets' = [connectedSockets EXCEPT ![k] = @ - 1]
  /\ \/ /\ connectedSockets[k] = 1
        /\ isOnline' = isOnline \ {k}
        /\ graceTimeout' = graceTimeout \cup {k}
     \/ /\ connectedSockets[k] # 1
        /\ UNCHANGED <<isOnline, graceTimeout>>
  /\ UNCHANGED <<managerVars, birthVars, server, call, immediate, closeListener>>

\* Mutants of GraceExpired, where the client is the one in the map: its port is
\* not released; stats.tunnels is left alone; the listener was added by on().
ExpireMapped(k, pool, used, count, listeners) ==
  /\ k \in graceTimeout \cap closeListener
  /\ graceTimeout' = graceTimeout \ {k}
  /\ closeListener' = listeners
  /\ server' = [server EXCEPT ![k] = "closed"]
  /\ availablePorts' = pool /\ usedPorts' = used
  /\ clients' = [clients EXCEPT ![clientId[k]] = None]
  /\ tunnels' = count
  /\ UNCHANGED <<birthVars, call, immediate, isOnline, connectedSockets>>
ExpireKeepsPort(k) ==
  ExpireMapped(k, availablePorts, usedPorts, tunnels - 1, closeListener \ {k})
ExpireUncounted(k) ==
  ExpireMapped(k, PoolWith(k), UsedWithout(k), tunnels, closeListener \ {k})
ExpireKeepsListener(k) ==
  ExpireMapped(k, PoolWith(k), UsedWithout(k), tunnels - 1, closeListener)

\* Mutant of GraceExpired: close() releases the port, also of a client that was
\* replaced and whose port has been given to another.
ExpireReleasesOwn(k) ==
  /\ k \in graceTimeout \ closeListener
  /\ graceTimeout' = graceTimeout \ {k}
  /\ availablePorts' = PoolWith(k) /\ usedPorts' = UsedWithout(k)
  /\ UNCHANGED <<clients, tunnels, birthVars, server, call, immediate, isOnline,
                 closeListener, connectedSockets>>

\* The grace timer: client.close().  Its 'close' event runs the listener, if
\* still there, which removes whichever client the map now has for the id,
\* and closes that one.
GraceExpired(k) ==
  LET victim == IF k \in closeListener THEN clients[clientId[k]] ELSE None
      gone   == {k, victim}
  IN /\ k \in graceTimeout
     /\ graceTimeout' = graceTimeout \ gone
     /\ closeListener' = closeListener \ gone
     /\ server' = [l \in Clients |-> IF l \in gone THEN "closed" ELSE server[l]]
     /\ availablePorts' = PoolWith(victim)
     /\ usedPorts' = UsedWithout(victim)
     /\ \/ /\ victim = None
           /\ UNCHANGED <<clients, tunnels>>
        \/ /\ victim # None
           /\ clients' = [clients EXCEPT ![clientId[k]] = None]
           /\ tunnels' = tunnels - 1
     /\ UNCHANGED <<birthVars, call, immediate, isOnline, connectedSockets>>

ClientNext(k) ==
  \/ Listening(k) \/ ListenError(k) \/ RunImmediate(k)
  \/ Accept(k) \/ SocketClosed(k) \/ GraceExpired(k)

Next ==
  \/ \E id \in Ids, who \in Identities :
       \/ NewClient(id, who)
       \/ \E explicit \in BOOLEAN :
            Reconnect(id, who, explicit) \/ AssignRandom(id, who, explicit)
  \/ \E id \in Accessors : CreateThrows(id)
  \/ \E k \in Clients : ClientNext(k)

Spec == Init /\ [][Next]_vars

\* Node reports the outcome of a bind, runs a due setImmediate and fires a due
\* timer.  Nothing makes a remote end connect, disconnect or call again.
FairSpec ==
  /\ Spec
  /\ \A k \in Clients : /\ WF_vars(Listening(k) \/ ListenError(k))
                        /\ WF_vars(RunImmediate(k))
                        /\ WF_vars(GraceExpired(k))

-----------------------------------------------------------------------------
(* Safety                                                                  *)

\* Port accounting across _getPort, removeClient and its nested 'close': no
\* port is lost to both lists, doubled, or free and in use at once.
PortsConserved ==
  /\ Elements(availablePorts) \cup usedPorts = Ports
  /\ Len(availablePorts) + Cardinality(usedPorts) = Cardinality(Ports)

\* Each client in the map of a configured range has a port that is in use, no
\* two the same one: a port released too early would be handed out twice.
PortsHeld ==
  RangeConfigured =>
    /\ \A i \in Ids : clients[i] # None => port[clients[i]] \in usedPorts
    /\ \A i, j \in Ids : i # j /\ clients[i] # None /\ clients[j] # None
                           => port[clients[i]] # port[clients[j]]

\* Ports in use by no client in the map.
Stray == {q \in usedPorts : \A i \in Ids : clients[i] # None => port[clients[i]] # q}

\* A client in the map is under its own id, not closed, and its 'close' will
\* remove it; a client with a listener is in the map: none is leaked.
MapMatchesClients ==
  /\ \A i \in Ids : clients[i] # None =>
       /\ clientId[clients[i]] = i
       /\ server[clients[i]] # "closed"
       /\ clients[i] \in closeListener
  /\ \A k \in closeListener : clients[clientId[k]] = k

\* isOnline, set and cleared by events, says whether sockets are connected; an
\* online client has no grace timer, and one in the map that is not online has
\* a timer or a setImmediate to come that will remove it.
GraceWatchesOffline ==
  /\ \A k \in Clients : k \in isOnline <=> connectedSockets[k] > 0
  /\ isOnline \cap graceTimeout = {}
  /\ \A k \in Clients : Mapped(k) => k \in isOnline \cup graceTimeout \cup immediate

\* stats.tunnels never counts more than the tunnels there are.  It can count
\* fewer: a client removed before its server listens is subtracted, never added.
TunnelsNeverOvercount ==
  tunnels <= Cardinality({i \in Ids : clients[i] # None /\ call[clients[i]] = "settled"})

-----------------------------------------------------------------------------
(* What a step may never do                                                *)

\* A client that leaves the map, replaced, expired or by a nested 'close', takes
\* its port out of use, and no port is taken into use without a client: nothing
\* but the assignment that throws (CreateThrows) leaves a port stray.
PortsLeaveWithClients ==
  [][Stray' \subseteq Stray \/ \E id \in Accessors : CreateThrows(id)]_vars

\* A subdomain passes from one client to another only within one identity,
\* whether its client is online, in its grace period, or not yet either.
HandoverOnlyToOwner ==
  [][\A i \in Ids :
       /\ clients[i] # None
       /\ clients'[i] \notin {None, clients[i]}
       => identifier'[clients'[i]] = identifier[clients[i]]]_vars

\* A client with a connection loses its subdomain only to its own identity: no
\* timer, its own or that of an earlier client of the id, removes it.
OnlineClientStays ==
  [][\A i \in Ids :
       /\ clients[i] # None
       /\ connectedSockets[clients[i]] > 0
       => clients'[i] # None /\ identifier'[clients'[i]] = identifier[clients[i]]]_vars

\* ClientManager.test.js, "should return port to pool when client is removed":
\* a port in use is that of a client which can be removed.
NoStrayPort == Stray = {}

-----------------------------------------------------------------------------
(* Liveness                                                                *)

\* A client that stays without a connection leaves the map, and its port goes
\* back, even when its server never came up.
OfflineClientLeaves ==
  \A k \in Clients : Mapped(k) /\ k \notin isOnline ~> ~Mapped(k) \/ k \in isOnline

\* The safety half of it: the timer that will remove a client is given up only
\* for that client's connection or removal, whichever other timers fire and
\* whoever calls newClient meanwhile.
TimerKept ==
  [][\A k \in graceTimeout :
       Mapped(k) => k \in graceTimeout' \cup isOnline' \/ ~Mapped(k)']_vars

\* The comment over newClient: it returns a tunnel or throws.
NewClientSettles == \A k \in Clients : call[k] = "pending" ~> call[k] # "pending"

-----------------------------------------------------------------------------
(* Refinement                                                              *)

owner == [i \in Ids |-> IF clients[i] = None THEN None ELSE identifier[clients[i]]]
connected == {i \in Ids : clients[i] \in isOnline}

Registry == INSTANCE SubdomainRegistry WITH Nobody <- None

\* Clients, ports, timers and listeners together implement SubdomainRegistry.
ImplementsRegistry == Registry!Spec

\* Whatever the other clients do, each lives as ClientLife says.
Life(k) == INSTANCE ClientLife
             WITH mapped <- Mapped(k), young <- k \in immediate,
                  online <- k \in isOnline, timer <- k \in graceTimeout
ImplementsLife == \A k \in Clients : Life(k)!Spec
=============================================================================

--------------------------- MODULE AdminApiProofs ---------------------------
(***************************************************************************)
(* Theorems about AdminApi, for every pattern of names, any headers and    *)
(* hosts, any number of requests and every setting of the manager.         *)
(***************************************************************************)
EXTENDS AdminApi, PortProofs, SequenceTheorems

-----------------------------------------------------------------------------
(* The routes and the manager                                              *)

\* A handler that reaches newClient's await has made one of its calls.
LEMMA CallIsStep ==
  ASSUME NEW id \in Ids, NEW who \in Identities, Calls(id, who)
  PROVE  Next
BY DEF Calls, Next

LEMMA StepImplements == [AdminNext]_apiVars => [Next]_vars
<1> SUFFICES ASSUME [AdminNext]_apiVars PROVE [Next]_vars
  OBVIOUS
<1>1. ASSUME NEW r \in Requests, RequestNext(r) PROVE [Next]_vars
  <2>1. CASE Unauthorized(r) \/ Landing(r) \/ Status(r)
    BY <2>1 DEF Unauthorized, Landing, Status
  <2>2. ASSUME NEW id \in Ids, TunnelStatus(r, id) PROVE [Next]_vars
    BY <2>2 DEF TunnelStatus
  <2>3. ASSUME NEW n \in Names, InvalidName(r, n) PROVE [Next]_vars
    BY <2>3 DEF InvalidName
  <2>4. ASSUME NEW h \in Headers,
               RandomTunnelFails(r, h) \/ \E n \in Names : NamedTunnelFails(r, n, h)
        PROVE  [Next]_vars
    BY <2>4 DEF RandomTunnelFails, NamedTunnelFails
  <2>5. ASSUME NEW h \in Headers, NEW host \in Hosts, RandomTunnel(r, h, host)
        PROVE  [Next]_vars
    <3>1. PICK id \in RandomId : Calls(id, getClientIdentifier(h))
      BY <2>5 DEF RandomTunnel
    <3>2. id \in Ids /\ getClientIdentifier(h) \in Identities
      BY ApiAssumption DEF RandomId
    <3>3. QED
      BY <3>1, <3>2, CallIsStep
  <2>6. ASSUME NEW h \in Headers, NEW host \in Hosts, NEW n \in Names, NamedTunnel(r, n, h, host)
        PROVE  [Next]_vars
    <3>1. ValidSubdomain(n) /\ Calls(n, getClientIdentifier(h))
      BY <2>6 DEF NamedTunnel
    <3>2. n \in Ids /\ getClientIdentifier(h) \in Identities
      BY <3>1, ApiAssumption
    <3>3. QED
      BY <3>1, <3>2, CallIsStep
  <2>7. ASSUME NEW n \in Names, NamedTunnelThrows(r, n) PROVE [Next]_vars
    <3>1. CreateThrows(n) => n \in Accessors
      BY DEF CreateThrows
    <3>2. CASE CreateThrows(n)
      BY <3>1, <3>2 DEF Next
    <3>3. QED
      BY <2>7, <3>2 DEF NamedTunnelThrows
  <2>8. QED
    BY <1>1, <2>1, <2>2, <2>3, <2>4, <2>5, <2>6, <2>7 DEF RequestNext
<1>2. ASSUME NEW k \in Clients, Listens(k) \/ Unseen(ClientAlone(k)) PROVE [Next]_vars
  BY <1>2 DEF Listens, Unseen, ClientAlone, ClientNext, Next
<1>3. CASE UNCHANGED apiVars
  BY <1>3 DEF apiVars
<1>4. QED
  BY <1>1, <1>2, <1>3 DEF AdminNext

\* The routes are written as steps of the manager, so that what is proved of it
\* can be used here.
LEMMA ManagerImplemented == AdminSpec => Spec
<1>1. AdminInit => Init
  BY DEF AdminInit
<1>2. QED
  BY <1>1, StepImplements, PTL DEF AdminSpec, Spec

\* The API keeps the manager's books whatever ids hri.random() returns and whatever
\* id is asked for: the pool and the ports in use share out the range, every client
\* in the map has its port and its listener, and is online or watched by a timer
\* that only it can stop.
THEOREM ApiKeepsBooks ==
  AdminSpec => /\ [](PortsConserved /\ PortsHeld /\ MappedListened /\ GraceWatchesOffline)
               /\ TimerKept
BY ManagerImplemented, ConservedCorrect, HeldCorrect, ListenedCorrect, WatchCorrect,
   TimerCorrect, PTL

\* With fresh random ids no request of the API, of whatever identity and in
\* whatever state of the other requests, takes a subdomain from its owner or from
\* a connected client, or ends the life of another's, and only GET /size leaves a
\* port in use with no client: the API keeps the promises of SubdomainRegistry and
\* ClientLife.
THEOREM ApiKeepsOwners ==
  ASSUME HriFresh
  PROVE  AdminSpec => /\ [](MapMatchesClients /\ TunnelsNeverOvercount)
                      /\ PortsLeaveWithClients /\ HandoverOnlyToOwner /\ OnlineClientStays
                      /\ ImplementsRegistry /\ ImplementsLife
BY ManagerImplemented, MapCorrect, LeaveCorrect, CountCorrect, HandoverCorrect,
   OnlineStaysCorrect, RegistryImplemented, LivesImplemented, PTL

-----------------------------------------------------------------------------
(* What a request does                                                     *)

\* It is answered at once, with the manager left as it is but for a port.
AnswersNow(r) ==
  /\ Free(r)
  /\ UNCHANGED portless
  /\ \E s \in Statuses : Answer(r, s)

\* It gets to newClient's await.
Awaits(r, id, who, host) ==
  /\ Free(r)
  /\ Calls(id, who)
  /\ Await(r, host)

LEMMA RequestDoes ==
  ASSUME NEW r \in Requests, RequestNext(r)
  PROVE  \/ AnswersNow(r)
         \/ \E id \in Ids, who \in Identities, host \in Hosts : Awaits(r, id, who, host)
<1>0. {"200", "302", "401", "403", "404", "409", Uncaught} \subseteq Statuses
  BY DEF Statuses, Uncaught
<1> USE DEF vars, managerVars, portless
<1>1. CASE Unauthorized(r) \/ Landing(r) \/ Status(r)
  BY <1>0, <1>1 DEF Unauthorized, Landing, Status, AnswersNow
<1>2. ASSUME NEW id \in Ids, TunnelStatus(r, id) PROVE AnswersNow(r)
  BY <1>0, <1>2 DEF TunnelStatus, AnswersNow
<1>3. ASSUME NEW n \in Names, InvalidName(r, n) PROVE AnswersNow(r)
  BY <1>0, <1>3 DEF InvalidName, AnswersNow
<1>4. ASSUME NEW h \in Headers,
             RandomTunnelFails(r, h) \/ \E n \in Names : NamedTunnelFails(r, n, h)
      PROVE  AnswersNow(r)
  BY <1>0, <1>4 DEF RandomTunnelFails, NamedTunnelFails, AnswersNow
<1>5. ASSUME NEW h \in Headers, NEW host \in Hosts, RandomTunnel(r, h, host)
      PROVE  \E id \in Ids, who \in Identities : Awaits(r, id, who, host)
  <2>1. PICK id \in RandomId : Calls(id, getClientIdentifier(h)) /\ Await(r, host)
    BY <1>5 DEF RandomTunnel
  <2>2. id \in Ids /\ getClientIdentifier(h) \in Identities
    BY ApiAssumption DEF RandomId
  <2>3. QED
    BY <1>5, <2>1, <2>2 DEF RandomTunnel, Awaits
<1>6. ASSUME NEW h \in Headers, NEW host \in Hosts, NEW n \in Names, NamedTunnel(r, n, h, host)
      PROVE  \E id \in Ids, who \in Identities : Awaits(r, id, who, host)
  <2>1. n \in Ids /\ getClientIdentifier(h) \in Identities
    BY <1>6, ApiAssumption DEF NamedTunnel
  <2>2. QED
    BY <1>6, <2>1 DEF NamedTunnel, Awaits
<1>7. ASSUME NEW n \in Names, NamedTunnelThrows(r, n) PROVE AnswersNow(r)
  <2>1. UNCHANGED vars \/ CreateThrows(n)
    BY <1>7 DEF NamedTunnelThrows
  <2>2. UNCHANGED portless
    BY <2>1 DEF CreateThrows
  <2>3. QED
    BY <1>0, <1>7, <2>2 DEF NamedTunnelThrows, AnswersNow
<1>8. QED
  BY <1>1, <1>2, <1>3, <1>4, <1>5, <1>6, <1>7 DEF RequestNext

\* The steps of a client that no handler sees change no id.
LEMMA UnseenKeepsIds ==
  ASSUME NEW k \in Clients, ClientAlone(k)
  PROVE  UNCHANGED clientId
BY DEF ClientAlone, ListenError, RunImmediate, Accept, SocketClosed, GraceExpired, birthVars

-----------------------------------------------------------------------------
(* Types                                                                   *)

RequestTypes ==
  /\ response \in [Requests -> {"none", "pending"} \cup Statuses]
  /\ made \in [Requests -> Clients \cup {None}]
  /\ \A r \in Requests : url[r] = Absent \/ url[r].schema = schema

LEMMA AnswerTypes ==
  ASSUME RequestTypes, NEW r \in Requests, AnswersNow(r)
  PROVE  RequestTypes'
<1>1. PICK s \in Statuses : Answer(r, s)
  BY DEF AnswersNow
<1>3. /\ response' \in [Requests -> {"none", "pending"} \cup Statuses]
      /\ made' \in [Requests -> Clients \cup {None}]
  BY <1>1 DEF RequestTypes, Answer
<1>4. url' = [url EXCEPT ![r] = Absent]
  BY <1>1 DEF Answer
<1>5. \A q \in Requests : url'[q] = Absent \/ url'[q].schema = schema
  BY <1>4 DEF RequestTypes
<1>6. QED
  BY <1>3, <1>5 DEF RequestTypes

LEMMA AwaitTypes ==
  ASSUME RequestTypes, TypeOK', NEW r \in Requests, NEW host, Await(r, host)
  PROVE  RequestTypes'
<1>1. PICK k \in immediate' \ immediate :
        /\ response' = [response EXCEPT ![r] = "pending"]
        /\ made' = [q \in Requests |-> IF q = r THEN k
                                       ELSE IF made[q] = k THEN None ELSE made[q]]
        /\ url' = [q \in Requests |-> IF q = r THEN buildPublicUrl(clientId'[k], host)
                                      ELSE IF made[q] = k THEN Absent ELSE url[q]]
  BY DEF Await
<1>2. k \in Clients
  BY DEF TypeOK
<1>3. buildPublicUrl(clientId'[k], host).schema = schema
  BY DEF buildPublicUrl
<1>4. /\ response' \in [Requests -> {"none", "pending"} \cup Statuses]
      /\ made' \in [Requests -> Clients \cup {None}]
  BY <1>1, <1>2 DEF RequestTypes
<1>5. \A q \in Requests : url'[q] = Absent \/ url'[q].schema = schema
  BY <1>1, <1>3 DEF RequestTypes
<1>6. QED
  BY <1>4, <1>5 DEF RequestTypes

LEMMA StepTypes ==
  TypeOK /\ ListenerHasId /\ RequestTypes /\ [AdminNext]_apiVars => RequestTypes'
<1> SUFFICES ASSUME TypeOK, ListenerHasId, RequestTypes, [AdminNext]_apiVars PROVE RequestTypes'
  OBVIOUS
<1>1. TypeOK'
  BY StepImplements, StepType
<1>2. ASSUME NEW r \in Requests, RequestNext(r) PROVE RequestTypes'
  <2>1. CASE AnswersNow(r)
    BY <2>1, AnswerTypes
  <2>2. ASSUME NEW id \in Ids, NEW who \in Identities, NEW host \in Hosts, Awaits(r, id, who, host)
        PROVE  RequestTypes'
    BY <1>1, <2>2, AwaitTypes DEF Awaits
  <2>3. QED
    BY <1>2, <2>1, <2>2, RequestDoes
<1>3. ASSUME NEW k \in Clients, Listens(k) PROVE RequestTypes'
  BY <1>3 DEF Listens, RequestTypes, Statuses
<1>4. CASE UNCHANGED adminVars
  BY <1>4 DEF adminVars, RequestTypes
<1>5. QED
  BY <1>2, <1>3, <1>4 DEF AdminNext, Unseen, apiVars

\* The manager, the requests and the answers keep their types.
THEOREM AdminTypeCorrect == AdminSpec => []AdminTypeOK
<1>1. AdminInit => RequestTypes
  BY DEF AdminInit, RequestTypes
<1>2. TypeOK /\ RequestTypes => AdminTypeOK
  BY DEF RequestTypes, AdminTypeOK
<1>3. AdminSpec => [](TypeOK /\ ListenerHasId)
  BY ManagerImplemented, TypeInvariant, PTL
<1>4. QED
  BY <1>1, <1>2, <1>3, StepTypes, PTL DEF AdminSpec

-----------------------------------------------------------------------------
(* Owners                                                                  *)

\* An owner who asks for its subdomain again is refused neither by the strict
\* mode nor for want of a port, in any state of the manager.
THEOREM OwnerCorrect == AdminSpec => []OwnerNotRefused
<1>1. TypeOK /\ PortsHeld => OwnerNotRefused
  <2> SUFFICES ASSUME TypeOK, PortsHeld, NEW id \in Ids, NEW who \in Identities, Owned(id, who)
               PROVE  ~Reserved(id, who) /\ ~NoPortLeft(id, who)
    BY DEF OwnerNotRefused
  <2>1. ~Reserved(id, who)
    BY DEF Reserved
  <2>2. ASSUME RangeConfigured PROVE PoolWith(Replaces(id, who)) # <<>>
    <3>1. Replaces(id, who) = clients[id] /\ clients[id] # None
      BY DEF Replaces, Owned
    <3>2. port[clients[id]] \in usedPorts
      BY <2>2, <3>1 DEF PortsHeld
    <3>3. availablePorts \in Seq(Ports)
      BY DEF TypeOK
    <3>4. PoolWith(clients[id]) = Append(availablePorts, port[clients[id]])
      BY <3>1, <3>2 DEF PoolWith
    <3>5. Len(Append(availablePorts, port[clients[id]])) = Len(availablePorts) + 1
          /\ Len(availablePorts) \in Nat
      BY <3>3
    <3>6. QED
      BY <3>1, <3>4, <3>5
  <2>3. QED
    BY <2>1, <2>2 DEF NoPortLeft
<1>2. AdminSpec => []TypeOK /\ []PortsHeld
  BY ManagerImplemented, TypeCorrect, HeldCorrect, PTL
<1>3. QED
  BY <1>1, <1>2, PTL

-----------------------------------------------------------------------------
(* Requests that wait                                                      *)

\* A client that a call just made is binding, and no other client's server is
\* changed but by being closed.
LEMMA CallBinds ==
  ASSUME TypeOK, NEW id \in Ids, NEW who \in Identities, Calls(id, who),
         NEW k \in immediate' \ immediate
  PROVE  /\ server'[k] = "binding"
         /\ \A l \in Clients : l # k => server'[l] \in {server[l], "closed"}
<1>1. PICK i \in Ids, old \in Clients \cup {None} : Create(i, who, old)
  BY CallCreates DEF Calls
<1>2. PICK m \in Clients : CreatesClient(i, who, old, m)
  BY <1>1 DEF Create, CreatesClient
<1>3. m = k
  BY <1>2 DEF CreatesClient
<1>4. QED
  BY <1>2, <1>3 DEF CreatesClient, TypeOK

LEMMA AwaitHeard ==
  ASSUME TypeOK, RequestTypes, PendingIsHeard, NEW r \in Requests, NEW id \in Ids,
         NEW who \in Identities, NEW host \in Hosts, Awaits(r, id, who, host)
  PROVE  PendingIsHeard'
<1>1. PICK k \in immediate' \ immediate :
        /\ response' = [response EXCEPT ![r] = "pending"]
        /\ made' = [q \in Requests |-> IF q = r THEN k
                                       ELSE IF made[q] = k THEN None ELSE made[q]]
  BY DEF Awaits, Await
<1>2. /\ server'[k] = "binding"
      /\ \A l \in Clients : l # k => server'[l] \in {server[l], "closed"}
  BY CallBinds DEF Awaits
<1> SUFFICES ASSUME NEW q \in Requests, response'[q] = "pending", made'[q] # None
             PROVE  server'[made'[q]] \in {"binding", "failed", "closed"}
  BY DEF PendingIsHeard, Stranded
<1>3. CASE q = r
  BY <1>1, <1>2, <1>3
<1>4. CASE q # r
  <2>1. response[q] = "pending" /\ made[q] # None /\ made[q] # k /\ made'[q] = made[q]
    BY <1>1, <1>4 DEF RequestTypes
  <2>2. made[q] \in Clients
    BY <2>1 DEF RequestTypes
  <2>3. server[made[q]] \in {"binding", "failed", "closed"}
    BY <2>1 DEF PendingIsHeard, Stranded
  <2>4. QED
    BY <1>2, <2>1, <2>2, <2>3
<1>5. QED
  BY <1>3, <1>4

LEMMA StepHeard ==
  TypeOK /\ RequestTypes /\ PendingIsHeard /\ [AdminNext]_apiVars => PendingIsHeard'
<1> SUFFICES ASSUME TypeOK, RequestTypes, PendingIsHeard, [AdminNext]_apiVars
             PROVE  PendingIsHeard'
  OBVIOUS
<1>1. ASSUME NEW r \in Requests, RequestNext(r) PROVE PendingIsHeard'
  <2>1. CASE AnswersNow(r)
    <3>1. PICK s \in Statuses : Answer(r, s)
      BY <2>1 DEF AnswersNow
    <3>2. server' = server
      BY <2>1 DEF AnswersNow, portless
    <3>3. \A q \in Requests : q # r => response'[q] = response[q] /\ made'[q] = made[q]
      BY <3>1 DEF Answer, RequestTypes
    <3>4. made'[r] = None
      BY <3>1 DEF Answer, RequestTypes
    <3>5. QED
      BY <3>2, <3>3, <3>4 DEF PendingIsHeard, Stranded
  <2>2. ASSUME NEW id \in Ids, NEW who \in Identities, NEW host \in Hosts, Awaits(r, id, who, host)
        PROVE  PendingIsHeard'
    BY <2>2, AwaitHeard
  <2>3. QED
    BY <1>1, <2>1, <2>2, RequestDoes
<1>2. ASSUME NEW k \in Clients, Listens(k) PROVE PendingIsHeard'
  <2>1. /\ made' = made
        /\ server' = [server EXCEPT ![k] = "listening"]
        /\ response' = [r \in Requests |->
             IF made[r] = k /\ response[r] = "pending" THEN "200" ELSE response[r]]
    BY <1>2 DEF Listens, Listening
  <2> SUFFICES ASSUME NEW q \in Requests, response'[q] = "pending", made'[q] # None
               PROVE  server'[made'[q]] \in {"binding", "failed", "closed"}
    BY DEF PendingIsHeard, Stranded
  <2>2. response[q] = "pending" /\ made[q] # k /\ made[q] \in Clients /\ made[q] # None
    BY <2>1 DEF RequestTypes
  <2>3. server[made[q]] \in {"binding", "failed", "closed"}
    BY <2>2 DEF PendingIsHeard, Stranded
  <2>4. QED
    BY <2>1, <2>2, <2>3 DEF TypeOK
<1>3. ASSUME NEW k \in Clients, Unseen(ClientAlone(k)) PROVE PendingIsHeard'
  <2>1. \A l \in Clients : server[l] \in {"binding", "failed", "closed"}
                            => server'[l] \in {"binding", "failed", "closed"}
    BY <1>3 DEF Unseen, ClientAlone, ListenError, RunImmediate, Accept, SocketClosed,
                GraceExpired, TypeOK
  <2>2. \A r \in Requests : made[r] # None => made[r] \in Clients
    BY DEF RequestTypes
  <2>3. QED
    BY <1>3, <2>1, <2>2 DEF Unseen, adminVars, PendingIsHeard, Stranded
<1>4. CASE UNCHANGED apiVars
  BY <1>4 DEF apiVars, adminVars, vars, PendingIsHeard, Stranded
<1>5. QED
  BY <1>1, <1>2, <1>3, <1>4 DEF AdminNext

\* No request goes on waiting once its server listens: the one that is answered
\* and every one that is not are told apart by what became of the server, in
\* any number of overlapping calls.
THEOREM HeardCorrect == AdminSpec => []PendingIsHeard
<1>1. AdminInit => RequestTypes /\ PendingIsHeard
  BY DEF AdminInit, RequestTypes, PendingIsHeard
<1>2. AdminSpec => [](TypeOK /\ ListenerHasId)
  BY ManagerImplemented, TypeInvariant, PTL
<1>3. QED
  BY <1>1, <1>2, StepTypes, StepHeard, PTL DEF AdminSpec

-----------------------------------------------------------------------------
(* The URL that is answered                                                *)

\* The subdomain of a URL made for the server's own domain is the id it was
\* made from, and its port is the one the server is reached at: the public server's
\* getSubdomain undoes the admin API's buildPublicUrl.
THEOREM UrlFindsId ==
  ASSUME NEW id, NEW host, host.labels = Domain
  PROVE  LET u == buildPublicUrl(id, host)
         IN getSubdomain(u.labels) = <<id>> /\ EffectivePort(u) = publicUrlPort.number
<1> DEFINE u    == buildPublicUrl(id, host)
           S    == STRING \cup {id}
           full == <<id>> \o Domain
<1>1. Domain \in Seq(S) /\ <<id>> \in Seq(S) /\ Len(<<id>>) = 1 /\ <<id>>[1] = id
  BY UrlAssumption
<1>2. Len(Domain) \in Nat /\ Len(Domain) >= 1
  BY UrlAssumption
<1>3. u.labels = full /\ u.schema = schema
  BY DEF buildPublicUrl
<1>4. /\ full \in Seq(S)
      /\ Len(full) = 1 + Len(Domain)
      /\ full[1] = id
      /\ \A i \in 1..Len(Domain) : full[i + 1] = Domain[i]
  <2>1. /\ full \in Seq(S)
        /\ Len(full) = 1 + Len(Domain)
        /\ \A i \in 1..1 + Len(Domain) : full[i] = IF i <= 1 THEN <<id>>[i] ELSE Domain[i - 1]
    BY <1>1, ConcatProperties
  <2>2. full[1] = id
    BY <1>1, <1>2, <2>1
  <2>3. ASSUME NEW i \in 1..Len(Domain) PROVE full[i + 1] = Domain[i]
    <3>1. i + 1 \in 1..1 + Len(Domain) /\ ~(i + 1 <= 1) /\ (i + 1) - 1 = i
      BY <1>2
    <3>2. QED
      BY <2>1, <3>1
  <2>4. QED
    BY <2>1, <2>2, <2>3
<1> HIDE DEF u, full
<1>5. SubSeq(full, 2, Len(full)) = Domain
  <2> DEFINE rest == SubSeq(full, 2, Len(full))
  <2>1. Len(full) \in Int /\ \A i \in 2..Len(full) : full[i] \in S
    BY <1>2, <1>4
  <2>2. /\ rest \in Seq(S)
        /\ Len(rest) = Len(Domain)
        /\ \A i \in 1..Len(full) - 2 + 1 : rest[i] = full[2 + i - 1]
    BY <1>2, <1>4, <2>1, SubSeqProperties
  <2> HIDE DEF rest
  <2>3. ASSUME NEW i \in 1..Len(rest) PROVE rest[i] = Domain[i]
    <3>1. i \in 1..Len(Domain) /\ i \in 1..Len(full) - 2 + 1 /\ 2 + i - 1 = i + 1
      BY <1>2, <1>4, <2>2
    <3>2. QED
      BY <1>4, <2>2, <3>1
  <2>4. rest = Domain
    BY <1>1, <2>2, <2>3, SeqEqual
  <2>5. QED
    BY <2>4 DEF rest
<1>6. SubSeq(full, 1, 1) = <<id>>
  <2> DEFINE first == SubSeq(full, 1, 1)
  <2>1. \A i \in 1..1 : full[i] \in S
    BY <1>4
  <2>2. first \in Seq(S) /\ Len(first) = 1 /\ \A i \in 1..1 - 1 + 1 : first[i] = full[1 + i - 1]
    BY <2>1, SubSeqProperties
  <2> HIDE DEF first
  <2>3. \A i \in 1..Len(first) : first[i] = <<id>>[i]
    BY <1>1, <1>4, <2>2
  <2>4. first = <<id>>
    BY <1>1, <2>2, <2>3, SeqEqual
  <2>5. QED
    BY <2>4 DEF first
<1>7. getSubdomain(full) = <<id>>
  <2> DEFINE n == Len(full) - Len(Domain)
  <2>1. n = 1 /\ n + 1 = 2
    BY <1>2, <1>4
  <2>2. getSubdomain(full) = IF n > 0 /\ SubSeq(full, n + 1, Len(full)) = Domain
                               THEN SubSeq(full, 1, n) ELSE Absent
    BY DEF getSubdomain
  <2> HIDE DEF n
  <2>3. SubSeq(full, n + 1, Len(full)) = Domain /\ SubSeq(full, 1, n) = <<id>>
    BY <1>5, <1>6, <2>1
  <2>4. QED
    BY <2>1, <2>2, <2>3
<1>8. EffectivePort(u) = publicUrlPort.number
  <2>1. Absent \notin Nat /\ publicUrlPort.number \in Nat
    BY UrlAssumption DEF publicUrlPort, PortOption
  <2>2. u.port = IF publicUrlPort = [number |-> defaultPort, text |-> FALSE]
                   THEN Absent ELSE publicUrlPort.number
    BY DEF u, buildPublicUrl
  <2>3. defaultPort = IF u.schema = "https" THEN 443 ELSE 80
    BY <1>3 DEF defaultPort, schema
  <2>4. CASE publicUrlPort = [number |-> defaultPort, text |-> FALSE]
    <3>1. publicUrlPort.number = defaultPort /\ u.port = Absent
      BY <2>2, <2>4
    <3>2. QED
      BY <2>3, <3>1 DEF EffectivePort
  <2>5. CASE publicUrlPort # [number |-> defaultPort, text |-> FALSE]
    BY <2>1, <2>2, <2>5 DEF EffectivePort
  <2>6. QED
    BY <2>4, <2>5
<1>9. QED
  BY <1>3, <1>7, <1>8 DEF u

\* A pending request whose client is still known has the URL of its client's id.
UrlOfClient(r) ==
  response[r] = "pending" /\ made[r] # None =>
    \E host \in Hosts : url[r] = buildPublicUrl(clientId[made[r]], host)
UrlsMatch == \A r \in Requests : UrlOfClient(r)

LEMMA CreateIsImmediate ==
  ASSUME TypeOK, NEW id \in Ids, NEW who \in Identities, Calls(id, who),
         NEW k \in immediate' \ immediate
  PROVE  \A l \in Clients : l # k => clientId'[l] = clientId[l]
<1>1. PICK i \in Ids, old \in Clients \cup {None} : Create(i, who, old)
  BY CallCreates DEF Calls
<1>2. PICK m \in Clients : CreatesClient(i, who, old, m)
  BY <1>1 DEF Create, CreatesClient
<1>3. m = k
  BY <1>2 DEF CreatesClient
<1>4. QED
  BY <1>2, <1>3 DEF CreatesClient, TypeOK

LEMMA AwaitUrls ==
  ASSUME TypeOK, RequestTypes, UrlsMatch, NEW r \in Requests, NEW id \in Ids,
         NEW who \in Identities, NEW host \in Hosts, Awaits(r, id, who, host)
  PROVE  UrlsMatch'
<1>1. PICK k \in immediate' \ immediate :
        /\ response' = [response EXCEPT ![r] = "pending"]
        /\ made' = [q \in Requests |-> IF q = r THEN k
                                       ELSE IF made[q] = k THEN None ELSE made[q]]
        /\ url' = [q \in Requests |-> IF q = r THEN buildPublicUrl(clientId'[k], host)
                                      ELSE IF made[q] = k THEN Absent ELSE url[q]]
  BY DEF Awaits, Await
<1>2. \A l \in Clients : l # k => clientId'[l] = clientId[l]
  BY CreateIsImmediate DEF Awaits
<1> SUFFICES ASSUME NEW q \in Requests, response'[q] = "pending", made'[q] # None
             PROVE  \E h \in Hosts : url'[q] = buildPublicUrl(clientId'[made'[q]], h)
  BY DEF UrlsMatch, UrlOfClient
<1>3. CASE q = r
  BY <1>1, <1>3
<1>4. CASE q # r
  <2>1. response[q] = "pending" /\ made[q] # None /\ made[q] # k
        /\ made'[q] = made[q] /\ url'[q] = url[q]
    BY <1>1, <1>4 DEF RequestTypes
  <2>2. made[q] \in Clients
    BY <2>1 DEF RequestTypes
  <2>3. clientId'[made'[q]] = clientId[made[q]]
    BY <1>2, <2>1, <2>2
  <2>4. PICK h \in Hosts : url[q] = buildPublicUrl(clientId[made[q]], h)
    BY <2>1 DEF UrlsMatch, UrlOfClient
  <2>5. QED
    BY <2>1, <2>3, <2>4
<1>5. QED
  BY <1>3, <1>4

LEMMA StepUrls ==
  TypeOK /\ RequestTypes /\ UrlsMatch /\ [AdminNext]_apiVars => UrlsMatch'
<1> SUFFICES ASSUME TypeOK, RequestTypes, UrlsMatch, [AdminNext]_apiVars PROVE UrlsMatch'
  OBVIOUS
<1>1. ASSUME NEW r \in Requests, RequestNext(r) PROVE UrlsMatch'
  <2>1. CASE AnswersNow(r)
    <3>1. PICK s \in Statuses : Answer(r, s)
      BY <2>1 DEF AnswersNow
    <3>2. clientId' = clientId
      BY <2>1 DEF AnswersNow, portless, birthVars
    <3>3. \A q \in Requests : q # r => /\ response'[q] = response[q]
                                       /\ made'[q] = made[q] /\ url'[q] = url[q]
      BY <3>1 DEF Answer, RequestTypes
    <3>4. made'[r] = None
      BY <3>1 DEF Answer, RequestTypes
    <3>5. QED
      BY <3>2, <3>3, <3>4 DEF UrlsMatch, UrlOfClient
  <2>2. ASSUME NEW id \in Ids, NEW who \in Identities, NEW host \in Hosts, Awaits(r, id, who, host)
        PROVE  UrlsMatch'
    BY <2>2, AwaitUrls
  <2>3. QED
    BY <1>1, <2>1, <2>2, RequestDoes
<1>2. ASSUME NEW k \in Clients, Listens(k) PROVE UrlsMatch'
  <2>1. clientId' = clientId /\ made' = made /\ url' = url
    BY <1>2 DEF Listens, Listening, birthVars
  <2>2. \A r \in Requests : response'[r] = "pending" => response[r] = "pending"
    BY <1>2 DEF Listens
  <2>3. QED
    BY <2>1, <2>2 DEF UrlsMatch, UrlOfClient
<1>3. ASSUME NEW k \in Clients, Unseen(ClientAlone(k)) PROVE UrlsMatch'
  <2>1. clientId' = clientId /\ UNCHANGED adminVars
    BY <1>3, UnseenKeepsIds DEF Unseen
  <2>2. QED
    BY <2>1 DEF adminVars, UrlsMatch, UrlOfClient
<1>4. CASE UNCHANGED apiVars
  BY <1>4 DEF apiVars, adminVars, vars, birthVars, UrlsMatch, UrlOfClient
<1>5. QED
  BY <1>1, <1>2, <1>3, <1>4 DEF AdminNext

\* Only newClient's return answers a request that awaits it, and the client it
\* returns is the one in the map.
LEMMA GrantStep ==
  ASSUME \A host \in Hosts : host.labels = Domain,
         TypeOK, ListenerHasId, MapMatchesClients, CountInv, RequestTypes, UrlsMatch, AdminNext,
         NEW r \in Requests, response[r] = "pending", response'[r] = "200"
  PROVE  Lookup(url[r])' = made[r] /\ EffectivePort(url[r]) = publicUrlPort.number
<1>1. ASSUME NEW q \in Requests, RequestNext(q) PROVE FALSE
  <2>1. ASSUME AnswersNow(q) PROVE FALSE
    <3>1. PICK s \in Statuses : Answer(q, s)
      BY <2>1 DEF AnswersNow
    <3>2. q # r
      BY <2>1 DEF AnswersNow, Free
    <3>3. QED
      BY <3>1, <3>2 DEF Answer, RequestTypes
  <2>2. ASSUME NEW id \in Ids, NEW who \in Identities, NEW host \in Hosts, Awaits(q, id, who, host)
        PROVE  FALSE
    <3>1. q # r /\ response' = [response EXCEPT ![q] = "pending"]
      BY <2>2 DEF Awaits, Await, Free
    <3>2. QED
      BY <3>1 DEF RequestTypes
  <2>3. QED
    BY <1>1, <2>1, <2>2, RequestDoes
<1>2. PICK k \in Clients : Listens(k)
  <2>1. ASSUME NEW k \in Clients, Unseen(ClientAlone(k)) PROVE FALSE
    BY <2>1 DEF Unseen, adminVars
  <2>2. QED
    BY <1>1, <2>1 DEF AdminNext
<1>3. /\ clients' = clients /\ clientId' = clientId /\ url' = url
      /\ server[k] = "binding" /\ made[r] = k
  BY <1>2 DEF Listens, Listening, birthVars
<1>4. None \notin Clients
  BY ManagerAssumption
<1>5. PICK i \in Ids : clients[i] = k
  BY <1>3 DEF CountInv, ServersMapped, Mapped
<1>6. clientId[k] = i
  BY <1>4, <1>5 DEF MapMatchesClients
<1>7. PICK host \in Hosts : url[r] = buildPublicUrl(i, host)
  BY <1>3, <1>4, <1>6 DEF UrlsMatch, UrlOfClient
<1>8. /\ getSubdomain(url[r].labels) = <<i>>
      /\ EffectivePort(url[r]) = publicUrlPort.number
  BY <1>7, UrlFindsId
<1>9. Lookup(url[r])' = clients[i]
  <2>1. getSubdomain(url'[r].labels) = <<i>>
    BY <1>3, <1>8
  <2>2. \E j \in Ids : getSubdomain(url'[r].labels) = <<j>>
    BY <2>1
  <2>3. <<i>>[1] = i
    OBVIOUS
  <2>4. QED
    BY <1>3, <2>1, <2>2, <2>3 DEF Lookup
<1>10. QED
  BY <1>3, <1>5, <1>8, <1>9

\* The client that a request is answered with is the one the public server will
\* find under the URL in the answer, for callers that use the server's domain.
THEOREM GrantCorrect ==
  ASSUME HriFresh, \A host \in Hosts : host.labels = Domain
  PROVE  AdminSpec => GrantIsLive
<1>1. TypeOK /\ ListenerHasId /\ MapMatchesClients /\ CountInv /\ RequestTypes /\ UrlsMatch
        /\ [AdminNext]_apiVars
        => [\A r \in Requests :
              response[r] = "pending" /\ response'[r] = "200" =>
                /\ Lookup(url[r])' = made[r]
                /\ EffectivePort(url[r]) = publicUrlPort.number]_apiVars
  BY GrantStep
<1>2. AdminInit => RequestTypes /\ UrlsMatch
  BY DEF AdminInit, RequestTypes, UrlsMatch, UrlOfClient
<1>3. AdminSpec => [](TypeOK /\ ListenerHasId) /\ []MapMatchesClients /\ []CountInv
  BY ManagerImplemented, TypeInvariant, MapCorrect, CountInvariant, PTL
<1>4. QED
  BY <1>1, <1>2, <1>3, StepTypes, StepUrls, PTL DEF AdminSpec, GrantIsLive
=============================================================================

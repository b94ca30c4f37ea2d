------------------------------ MODULE AdminApi ------------------------------
(***************************************************************************)
(* The admin API of server.js: its routes, the HMAC middleware before the  *)
(* two that make tunnels, and the ClientManager they call.                 *)
(*                                                                         *)
(* Every step of the manager is a step of ClientManager.  This module adds *)
(* who calls newClient, with which identifier, and what each request is    *)
(* answered.  validateRequest's verdict is an input here (its own state is *)
(* in HmacAuthenticator).  A handler goes on after its await in the        *)
(* microtasks of the callback that ended it, so an answer is in that step. *)
(***************************************************************************)
EXTENDS ClientManager, PublicUrl

CONSTANTS Requests,     \* requests to the admin API under way at one time
          Names,        \* path segments after the slash
          Shape,        \* Names -> what the pattern of the route looks at
          Headers,      \* what the headers and the connection say of the caller
          Hosts,        \* Host headers
          NoHeader,     \* a header that is not there
          HmacEnabled,  \* a secret is configured
          TrustProxy    \* LT_TRUST_PROXY

\* The expression of /:id, on a name's length and where it has hyphens.  The
\* comment over it says 63 characters; its first half admits 65.
ValidSubdomain(n) ==
  /\ Shape[n].plain
  /\ ~Shape[n].hyphenAtEnd
  /\ \/ Shape[n].length \in 6..65
     \/ Shape[n].length \in 4..63 /\ ~Shape[n].hyphen

getClientIP(h) ==
  IF ~TrustProxy THEN h.peer
  ELSE IF h.forwarded # NoHeader THEN h.forwarded
  ELSE IF h.realIp # NoHeader THEN h.realIp
  ELSE h.peer

\* A token that passes its checks, else the IP.
getClientIdentifier(h) ==
  IF h.token # NoHeader /\ h.tokenValid THEN <<"token", h.token>> ELSE <<"ip", getClientIP(h)>>

ASSUME ApiAssumption ==
  /\ {HmacEnabled, TrustProxy} \subseteq BOOLEAN
  /\ \A n \in Names : ValidSubdomain(n) => n \in Ids
  /\ \A h \in Headers : getClientIdentifier(h) \in Identities

VARIABLES
  response,   \* per request: none, pending, or the status it was answered
  made,       \* the client newClient made for it
  url         \* the URL in the answer

adminVars == <<response, made, url>>
apiVars == <<vars, adminVars>>

Statuses == {"200", "302", "401", "403", "404", "409", "500"}

AdminTypeOK ==
  /\ TypeOK
  /\ response \in [Requests -> {"none", "pending"} \cup Statuses]
  /\ made \in [Requests -> Clients \cup {None}]
  /\ \A r \in Requests : url[r] = Absent \/ url[r].schema = schema

AdminInit ==
  /\ Init
  /\ response = [r \in Requests |-> "none"]
  /\ made = [r \in Requests |-> None]
  /\ url = [r \in Requests |-> Absent]

-----------------------------------------------------------------------------
(* Calls of newClient                                                      *)

\* The API always gives an identifier.
Calls(id, who) ==
  NewClient(id, who) \/ Reconnect(id, who, TRUE) \/ AssignRandom(id, who, TRUE)

\* newClient throws: the id is reserved in strict mode; or _getPort finds no
\* port, after the client that is to be replaced, if any, gave its own back.
Owned(id, who) == clients[id] # None /\ identifier[clients[id]] = who
Reserved(id, who) == Strict /\ clients[id] # None /\ InGrace(clients[id]) /\ ~Owned(id, who)
Replaces(id, who) == IF Owned(id, who) THEN clients[id] ELSE None

\* Mutant of NoPortLeft: the port is taken before the old client is removed.
NoPortBeforeRemoval(id, who) == RangeConfigured /\ availablePorts = <<>> /\ ~Reserved(id, who)

NoPortLeft(id, who) == RangeConfigured /\ PoolWith(Replaces(id, who)) = <<>> /\ ~Reserved(id, who)

\* An error thrown behind requireHmacAuth is caught there, like one of its own;
\* without HMAC it is Koa's to answer.
Uncaught == IF HmacEnabled THEN "401" ELSE "500"

Answer(r, status) ==
  /\ response' = [response EXCEPT ![r] = status]
  /\ made' = [made EXCEPT ![r] = None]
  /\ url' = [url EXCEPT ![r] = Absent]

\* The handler awaits newClient.  The name of the new client may have been that
\* of another one, which the requests that made it no longer refer to.
Await(r, host) ==
  \E k \in immediate' \ immediate :
    /\ response' = [response EXCEPT ![r] = "pending"]
    /\ made' = [q \in Requests |-> IF q = r THEN k
                                   ELSE IF made[q] = k THEN None ELSE made[q]]
    /\ url' = [q \in Requests |-> IF q = r THEN buildPublicUrl(clientId'[k], host)
                                  ELSE IF made[q] = k THEN Absent ELSE url[q]]

Free(r) == response[r] # "pending"

-----------------------------------------------------------------------------
(* The routes                                                              *)

\* requireHmacAuth: validateRequest says no.
Unauthorized(r) ==
  /\ HmacEnabled
  /\ Free(r)
  /\ Answer(r, "401")
  /\ UNCHANGED vars

\* GET / without ?new
Landing(r) ==
  /\ Free(r)
  /\ Answer(r, "302")
  /\ UNCHANGED vars

\* GET /?new
RandomTunnel(r, h, host) ==
  /\ Free(r)
  /\ \E id \in RandomId :
       Calls(id, getClientIdentifier(h)) /\ Await(r, host)

RandomTunnelFails(r, h) ==
  /\ Free(r)
  /\ \E id \in RandomId :
       Reserved(id, getClientIdentifier(h)) \/ NoPortLeft(id, getClientIdentifier(h))
  /\ Answer(r, Uncaught)
  /\ UNCHANGED vars

\* GET /:id
InvalidName(r, n) ==
  /\ Free(r)
  /\ ~ValidSubdomain(n)
  /\ Answer(r, "403")
  /\ UNCHANGED vars

NamedTunnel(r, n, h, host) ==
  /\ Free(r)
  /\ ValidSubdomain(n)
  /\ Calls(n, getClientIdentifier(h))
  /\ Await(r, host)

\* Its catch: 409 for a reserved id, and any other error goes on.
NamedTunnelFails(r, n, h) ==
  /\ Free(r)
  /\ ValidSubdomain(n)
  /\ \/ Reserved(n, getClientIdentifier(h)) /\ Answer(r, "409")
     \/ NoPortLeft(n, getClientIdentifier(h)) /\ Answer(r, Uncaught)
  /\ UNCHANGED vars

\* GET /size passes the pattern, and newClient throws at the assignment.
NamedTunnelThrows(r, n) ==
  /\ Free(r)
  /\ ValidSubdomain(n)
  /\ \/ CreateThrows(n)
     \/ n \in Accessors /\ ~RangeConfigured /\ UNCHANGED vars
  /\ Answer(r, Uncaught)

\* GET /api/status, and /api/tunnels/:id/status: not authenticated.
Status(r) ==
  /\ Free(r)
  /\ Answer(r, "200")
  /\ UNCHANGED vars
TunnelStatus(r, id) ==
  /\ Free(r)
  /\ Answer(r, IF clients[id] = None THEN "404" ELSE "200")
  /\ UNCHANGED vars

\* Mutant of Listens: the handler does not go on.
ListensUnanswered(k) ==
  /\ Listening(k)
  /\ UNCHANGED adminVars

\* newClient returns, and the request that awaits it is answered.
Listens(k) ==
  /\ Listening(k)
  /\ response' = [r \in Requests |->
       IF made[r] = k /\ response[r] = "pending" THEN "200" ELSE response[r]]
  /\ UNCHANGED <<made, url>>

-----------------------------------------------------------------------------
(* Steps of the manager and its clients that no handler awaits             *)

Unseen(Step) == Step /\ UNCHANGED adminVars

ClientAlone(k) ==
  ListenError(k) \/ RunImmediate(k) \/ Accept(k) \/ SocketClosed(k) \/ GraceExpired(k)

RequestNext(r) ==
  \/ Unauthorized(r) \/ Landing(r) \/ Status(r)
  \/ \E id \in Ids : TunnelStatus(r, id)
  \/ \E n \in Names : InvalidName(r, n) \/ NamedTunnelThrows(r, n)
  \/ \E h \in Headers :
       \/ RandomTunnelFails(r, h)
       \/ \E n \in Names : NamedTunnelFails(r, n, h)
       \/ \E host \in Hosts :
            RandomTunnel(r, h, host) \/ \E n \in Names : NamedTunnel(r, n, h, host)

AdminNext ==
  \/ \E r \in Requests : RequestNext(r)
  \/ \E k \in Clients : Listens(k) \/ Unseen(ClientAlone(k))

AdminSpec == AdminInit /\ [][AdminNext]_apiVars

\* As in ClientManager: Node reports a bind, runs a setImmediate, fires a timer.
AdminFairSpec ==
  /\ AdminSpec
  /\ \A k \in Clients : /\ WF_apiVars(Listens(k) \/ Unseen(ListenError(k)))
                        /\ WF_apiVars(Unseen(RunImmediate(k)))
                        /\ WF_apiVars(Unseen(GraceExpired(k)))

-----------------------------------------------------------------------------
(* Properties                                                              *)

\* A tunnel that is answered is there: its client is the one the public server
\* finds under the URL, however many calls for its id overlapped.
Lookup(u) ==
  LET sub == getSubdomain(u.labels)
  IN IF \E i \in Ids : sub = <<i>> THEN clients[sub[1]] ELSE None
GrantIsLive ==
  [][\A r \in Requests :
       response[r] = "pending" /\ response'[r] = "200" =>
         /\ Lookup(url[r])' = made[r]
         /\ EffectivePort(url[r]) = publicUrlPort.number]_apiVars

\* Whoever owns a subdomain and asks for it again is not refused, whatever has
\* become of its client and however few ports are left: nothing was changed when
\* newClient throws, and the client that is replaced has a port to give back.
OwnerNotRefused ==
  \A id \in Ids, who \in Identities :
    Owned(id, who) => ~Reserved(id, who) /\ ~NoPortLeft(id, who)

\* A request that awaits newClient is answered, unless its server could not be
\* bound, or was closed by a later call before it was.
Stranded(r) == made[r] = None \/ server[made[r]] \in {"failed", "closed"}
RequestsSettle ==
  \A r \in Requests : response[r] = "pending" ~> response[r] # "pending" \/ Stranded(r)

\* The safety half of it: no request waits for a server that is listening.
PendingIsHeard ==
  \A r \in Requests : response[r] = "pending" => Stranded(r) \/ server[made[r]] = "binding"
=============================================================================

# localtunnel-server in TLA+

A model of the parts of localtunnel-server that decide who gets which socket,
which subdomain, for how long, and which port, what a request to the admin API
is answered, and whether a signed request is accepted. The modules are
translated from the source; TLC checks them on small instances and TLAPS proves
the safety properties for every value of the constants.

The program is a single Node process. Node runs one callback at a time, so **an
action of these modules is one callback, whole**, and an interleaving is an
order of callbacks: socket events, server events, timers, `setImmediate`, and
the resumption of an `await`.

## The system

| part | source | state | operations | talks to |
|---|---|---|---|---|
| TunnelAgent | `lib/TunnelAgent.js` | `availableSockets`, `waitingCreateConn`, `connectedSockets`, `closed`, the server; http.Agent's free list | `listen`, `_onConnection`, a socket's 'close', `createConnection`, `destroy`, `_onClose` | emits 'online', 'offline', 'end' to Client; called by http.Agent and by `handleUpgrade` |
| Client | `lib/Client.js` | `isOnline`, `graceTimeout`, `createdAt`, `identifier` | 'online', 'offline', the grace timer, `getGracePeriodRemaining`, `close`, `handleRequest`, `handleUpgrade` | owns a TunnelAgent; emits 'close' to ClientManager |
| ClientManager | `lib/ClientManager.js` | `clients`, `availablePorts`, `usedPorts`, `stats.tunnels` | `newClient` (with an await), `removeClient` | creates clients and agents; asked by both servers |
| NonceCache, HmacAuthenticator | `lib/NonceCache.js`, `lib/HmacAuthenticator.js` | nonce -> expiry | `validateRequest`, `has`, `add`, `cleanup` | guards the two routes of the admin API |
| Public server | `server.js` | none of its own: requests in progress, two waits | 'request' (cases 1-4), 'upgrade' (cases 5-7) | looks clients up, calls `handleRequest` and `handleUpgrade` |
| Admin API | `server.js` | none of its own: requests that await `newClient` | four routes, the HMAC middleware, the caller's identifier, the public URL | `newClient`, `stats`, `validateRequest` |
| Process entry | `bin/server.mjs` | none | reads options, listens | the two servers; its ports end up in the public URL |

What is hard about each, and what makes it correct:

- **TunnelAgent.** Sockets and callbacks meet in two lists filled from opposite
  sides; a callback is called from a timer after both have left their lists;
  sockets close at any moment; `destroy` finishes when the last connection is
  gone. Correct when no callback waits beside an idle socket, no socket serves
  two callers, no callback is called twice or forgotten, and the count that
  drives 'online' and 'offline' is exact.
- **Client.** A grace timer races the events that cancel it, and it is first
  set by a `setImmediate`. Correct when online means a socket is connected and
  every client that is not online is about to be removed. What is said of the
  time that remains is computed from another moment than the one the timer was
  set at; correct when a reservation lasts one whole period and no wait derived
  from it lasts longer.
- **ClientManager.** Clients replace each other under one id while listeners
  and timers of the old ones are still pending, and `removeClient` re-enters
  itself through 'close'. Correct when the map, the ports and the listeners
  agree, and a subdomain changes hands only within one identity.
- **HmacAuthenticator.** Two windows and a time to live, in two units and from
  three starting points. Correct when no nonce is accepted twice, which depends
  on the settings and on how the nonce is spelt.
- **Public server.** The seven cases read the client's state; an upgrade acts on
  a client looked up before its waits. Correct when a caller is refused or served
  and never both, nobody is left in the agent's queue by a case that was decided
  on other grounds, and every upgrade settles.
- **Admin API.** Handlers wait in `newClient` while later calls replace the
  client they made, and errors pass through two catches. Correct when the URL in
  an answer leads to the client that was made, and an owner is never refused.

## The modules

| module | what it is | extends |
|---|---|---|
| `TunnelAgent` | the pool of one agent and its callers | |
| `SocketLease` | abstract: what the pool promises about a socket | |
| `ClientManager` | the manager, with the life of the clients and of their servers | |
| `SubdomainRegistry` | abstract: what the server promises about a subdomain | |
| `ClientLife` | abstract: what the server promises about one client | |
| `PublicServer` | the public server, one client and its agent, composed | `TunnelAgent` |
| `AdminApi` | the routes of the admin API and what they answer, composed with the manager | `ClientManager`, `PublicUrl` |
| `PublicUrl` | the URL in an answer, and the way back from a Host header | |
| `GraceClock` | the client's timers and the advice made from them, against the clock | `Settings` |
| `Settings` | how the numbers of the environment are read | |
| `HmacAuthenticator` | the checks of a signed request and the nonce cache | |
| `MCTunnelAgent`, `MCPublicServer`, `MCClientManager`, `MCAdminApi`, `MCGraceClock`, `MCHmacAuthenticator` | the constants of the runs | the module each is named after |
| `TunnelAgentProofs`, `ClientManagerProofs`, `GraceClockProofs`, `HmacAuthenticatorProofs` | theorems and proofs | the module each is named after, TLAPS |
| `PoolProofs` | more of the pool: exclusive use, callbacks, SocketLease | `TunnelAgentProofs` |
| `PortProofs` | more of the manager: ports, `stats.tunnels`, ClientLife | `ClientManagerProofs` |
| `PublicServerProofs` | theorems and proofs | `PublicServer`, `PoolProofs` |
| `AdminApiProofs` | theorems and proofs | `AdminApi`, `PortProofs` |

A definition `X` that is followed by "mutant of X" variants in the source is
the model; the variants are plausible bugs, used to see that each property can
fail, and no specification refers to them.

### TunnelAgent

The pool of one agent. `Sockets` are the names of the tunnel connections alive
at one time; a name is used again once nothing refers to the old connection.
`sockState` is the connection: *away*, *open*, *dying* (ended or destroyed, its
'close' event not yet run), or *refused* (over the limit, answered 429).
A caller is a slot for a proxied request (`HttpCallers`) or for an upgrade
(`UpgradeCallers`); `phase` says whether its callback is queued, promised a
socket by a pending `setTimeout(0)`, served or failed. `abandoned` callers have
timed out or lost their far end while waiting: the code does not take their
callbacks out of the queue, and they destroy the socket when they get it.

| action | code |
|---|---|
| `Listen`, `Bound` | `listen` and the outcome of the bind |
| `Refuse`, `Accept` | `_onConnection` |
| `Disconnect`, `SocketClosed`, `RefusedClosed` | the far end goes; the 'close' handler; the end of a refused socket |
| `Upgrade`, `UpgradeGone`, `HttpRequest` | `handleUpgrade` (the far end there, or gone), `handleRequest`, with `createConnection` |
| `HttpReuse`, `FinishKeep` | http.Agent's keep-alive list, one socket at most |
| `Abandon`, `FinishDestroy` | timeouts and ends, with the socket destroyed |
| `FireHandoff` | the `setTimeout(0)` callback |
| `Destroy`, `ServerClose` | `destroy`, and `_onClose` when the last connection is gone |

http.Agent is external: it is modelled by what `keepAlive: true,
maxFreeSockets: 1` makes it do with the sockets `createConnection` gives it. A
kept socket whose far end is gone may be found destroyed, and dropped, or be
reused before its 'close' has run; both are modelled. http.Agent's own queue is
never used, since `maxSockets` is left unlimited.

### PublicServer

One client with its agent, as the public server uses it. Each action is an
action of TunnelAgent with what the client or the handler does in the same
callback, or leaves the agent alone. `SocketConnects` and `SocketCloses` add
'online' and 'offline'; `RequestOffline`, `RequestBusy` and `RequestHandled` are
cases 2, 3 and 4; `UpgradeOffline` and `UpgradeBusy` start the waits of cases 6
and 7; `OnlineTimeout`, `SocketPoll` and `SocketTimeout` end them; `GraceExpired`
and `Replaced` close the client under whatever is in progress. Cases 1 and 5, no
client, change nothing. A poll that succeeds resumes the handler before any
other callback, so poll and `handleUpgrade` are one step. `answer` records the
503 a caller got last. TunnelAgent by itself lets callers come in any order;
this module says which orders the server really produces. That every step here
is one of TunnelAgent or leaves it alone is plain from how the actions are
written, and serves only as a lemma of the proofs; what is checked of the
composition is `ImplementsLife`, where the client's events meet the agent's
server, and the properties of the handlers.

### ClientManager

Each name in `Clients` stands for a Client object with its agent and server,
and is reused when nothing is left of it: no map entry, timer, socket, open
server or listener. The `await` in `newClient` splits it into `NewClient`,
`Reconnect` or `AssignRandom` (whichever branch, with everything up to the
await, removal of the old client included) and `Listening`, after which the
call returns; `ListenError` is the other outcome of the bind. `GraceExpired` is
the whole of `close()` on the timer, with the 'close' listener that removes
*whatever client the map has under that id*, and that client's own `close()`.

`RunImmediate` and `Accept` follow the order Node imposes: 'listening' is
emitted on the next tick, the `setImmediate` of the constructor runs in the same
turn of the loop, and a new server is polled for connections only in a later one.

A port range is `PortStart..PortEnd`; `PortStart = 0` stands for none. A client
whose identifier was not given explicitly is `explicit = FALSE`. `Accessors` are
the ids that `Map.prototype` has an accessor for, that is 'size': the map is used
as a plain object, and `CreateThrows` is the call that takes a port and then
throws at the assignment of `ClientManager.js:187`.

### AdminApi and PublicUrl

The manager under the admin API. A request is *pending* while its handler awaits
`newClient`; `made` is the client it waits for and `url` the URL it will be
answered with. An answer is in the step that produces it, since a handler goes
on in the microtasks of the callback that ended its await.

| action | code |
|---|---|
| `Unauthorized` | `requireHmacAuth`, when `validateRequest` refuses |
| `Landing`, `RandomTunnel`, `RandomTunnelFails` | `GET /`, without and with `?new` |
| `InvalidName`, `NamedTunnel`, `NamedTunnelFails`, `NamedTunnelThrows` | `GET /:id`, its expression and its catch; the last is `GET /size` |
| `Status`, `TunnelStatus` | the two status routes |
| `Listens` | `newClient` returns, and the handler that awaits it answers |
| `Unseen(...)` | the steps of ClientManager that no handler awaits |

`ValidSubdomain` is the expression of `/:id` on the length of a name and the
place of its hyphens. `getClientIdentifier` prefers a token that passes its
checks to the address, which comes from the proxy's headers if they are trusted.
`Uncaught` is what becomes of an error that `newClient` throws: behind
`requireHmacAuth` it is caught there and answered 401. `PublicUrl` makes the URL
from `opt.secure`, the proxy ports and the server's own port, which is text when
it comes from the environment or the default and is then never equal to 80 or
443; `getSubdomain` is what the public server's `tldjs` does with the host.

### GraceClock and Settings

One client against `Date.now()`. A timer is its deadline, and `Tick` does not
pass one. `Offline` and `RunImmediate` set the grace timer, `Online` and
`Replaced` clear it, `GraceExpired` removes the client. `Refused` is an answer
that says "Try again in ...s", to a contender in strict mode or, with the same
number in Retry-After, to a request of case 2. `UpgradeOffline` starts the wait
of case 6, whose length is the lesser of LT_WEBSOCKET_TIMEOUT and
`getGracePeriodRemaining`, and `OnlineTimeout` ends it. `getGracePeriodRemaining`
subtracts the time since `createdAt` from the grace period, as the code does.

`Settings` says what becomes of an environment variable that is missing, that
`parseInt` cannot read, that is negative, zero or beyond the maximum, and what
`setTimeout` makes of a delay that is not a positive 31-bit number.

### ClientLife

The life of one client with everything else left out: in the map or not, young
(its `setImmediate` has not run), online, its timer set. It promises that a
client comes online only while it is in the map, that its timer runs out only
while it is offline, and that nothing else ends its life but the return of its
owner; it also keeps what the code really does to a removed client, whose
`setImmediate` and last socket may set a timer once more. `PublicServer`,
`GraceClock` and, for each of its clients, `ClientManager` implement it. Those
three leave out different parts of the same client (the other clients, the agent
and the other clients, the agent and the clock); the common specification says
that they agree on the rest.

### HmacAuthenticator

`validateRequest` has no `await` before its end, so a request is one step:
`Accept`, `Reject` after the cache was consulted, or nothing at all when a
header, the timestamp or the nonce window stops it before: `Malformed` is a
request with a header missing or not of its form, and changes nothing. Units are the code's:
`now`, nonces and expiry in milliseconds, timestamps and settings in seconds.
`signed` stands for the comparison of the digests. `acceptedAt` and `replayed`
are history: when a nonce was last accepted in its plain spelling, and which were
accepted again after that. Nonces are numbers; the cache keys them by the text of
the header when it adds and by the text of the number when it looks up, and the
model keeps the two apart by `Spellings`. A nonce first accepted in another
spelling, a leading zero say, is stored where nothing looks, and may be accepted
again; `AcceptedOnce` counts any acceptance, in any spelling, *after* a plain one.

## The runs

| run | instance | shows |
|---|---|---|
| `tunnel_agent` | 3 sockets, limit 2, 2 requests, 1 upgrade | the safety properties of the pool (no idle socket beside a waiter, no socket shared or lost), the liveness of due answers, and `ImplementsLease` |
| `public_server` | 2 sockets, limit 1, 1 request, 2 upgrades | the cases and the waits of the public server, that its client implements ClientLife, that every upgrade settles, and that a caller queued for a client that never connects is let go unless a refused connection lingers |
| `client_manager` | 2 ids and 'size', 2 identities, 3 clients, 2 ports, limit 2, binds may fail | ports, map, listeners, grace timers and ownership, and `ImplementsRegistry`; only the throw for 'size' leaves a port behind |
| `admin_api` | 2 ids and 'size', 2 clients, 2 requests, 1 port, limit 1, strict mode, HMAC, a proxy | answers and the clients they lead to, owners; a request settles and a client that stays offline is removed |
| `grace_clock` | 1 client, 1 upgrade, 72 settings, 13 units of time | a reservation lasts its whole period and not longer, nor longer than the maximum if the period was configured, no upgrade waits past it, and no advice goes past its end by a second, or comes too early by more than the client's time before its last absence |
| `hmac` | tolerance 1 s, threshold 1 s, TTL 5 s, half-second clock | no nonce is accepted after a plain acceptance; the cache has it for its whole TTL, and forgets |
| `listen_error_never_settles` | 2 clients | **violation**: a failed bind leaves `newClient` pending for ever |
| `random_id_in_use` | 2 clients, random ids may repeat | **violation**: a random id in use takes the subdomain of an online client |
| `reconnection_wait` | 2 sockets, 1 request, 1 upgrade | **violation**: the wait of case 6 goes on after the client came online |
| `throw_keeps_port` | 2 clients, 2 ports, 'size' | **violation**: `GET /size` leaves a port in use with no client |
| `nonce_ttl` | tolerance 1 s, threshold 2 s, TTL 2 s | **violation**: with a TTL of the threshold a nonce is accepted twice |
| `advice_holds` | that of `grace_clock`, no upgrade | **violation**: "try again in 0 s" to a contender who does, and is refused again |

### Bounds and why they are enough

- *Three sockets with a limit of two* are the least with which one connection is
  refused while one is pooled and one in use, and a closing socket overlaps its
  successor. Two requests and one upgrade fill the queue beyond its head, make
  the two kinds compete, and make two requests compete for the kept socket.
- *Two sockets with a limit of one, one request, two upgrades* in
  `public_server`: a second connection is refused, and may linger, three callers
  meet one socket, so that callers stay in the queue while it is in use, two
  upgrades poll for it, and the client is removed with an upgrade in each wait.
  With a limit of two and no third name nothing would ever be refused; with three
  names TLC needs more than five minutes. What is special to a limit of two, a
  socket kept while the other is used and 'offline' with the second close only, is
  in `tunnel_agent` and `client_manager`, and the invariants are proved for every
  limit.
- *Two ids, two identities, three clients*: an id can be replaced twice while
  the first client's sockets and timer are still there, beside a client on the
  other id. With *two ports* two clients exhaust the range. Clients are
  interchangeable and `MCSymmetry` says so; no run that checks liveness uses
  symmetry.
- *Two ids, two clients, two requests and one port* in `admin_api`: two requests
  of one owner overlap on one id, a second identity finds the id reserved or the
  range exhausted, and a replacement needs the port of the client it replaces.
  The three sets of headers are a token, a token that fails its checks, and no
  token, behind a proxy with either of its headers; the name that the
  expression refuses is the one of five characters with a hyphen.
- *Settings* in `grace_clock` lie below, at and above every bound they are
  compared with: the default period 5, the default maximum 6 and the default
  wait 8 stand for 30, 300 and 10 s; what matters is that each can be the least.
  A second of 3 units makes rounding visible: some periods are whole seconds and
  some are not. `MaxTime` 13 leaves 12 units, two of the longest reservations,
  so a client comes, goes offline and is watched through a second one.
- `MaxDrift` bounds how far `stats.tunnels` can fall below zero. The count falls
  by one each time a client whose bind failed is removed, without end, so a
  bound is needed for TLC; it stops `Create` alone.
- `MaxTime` bounds the clock of `hmac`: long enough for a nonce to be accepted,
  to expire and to be tried again at both edges of both windows. TTL 5 is the
  least whole number that `SafeSettings` allows for tolerance and threshold 1; with
  4 `AcceptedOnce` fails. `nonce_ttl` has a TTL equal to the threshold.
- `CHECK_DEADLOCK FALSE` in the runs of ClientManager and AdminApi: at `MaxDrift`
  with all clients gone nothing is left to do. The runs of PublicServer have it
  too: the one client is removed in the end and the module has no other; and
  those of GraceClock, which end at `MaxTime`. Elsewhere deadlock is checked.

### Fairness

Node runs what is due, and that is all that is assumed: a `setTimeout(0)` that
was set fires and a closed server with no connection emits 'close'
(`TunnelAgent!FairSpec`); the outcome of a bind is reported, a `setImmediate`
runs and a grace timer that stays set fires (`AdminApi!AdminFairSpec`); the
same of the one client of the public server, with the timers of an upgrade's two
waits and of `handleUpgrade` (`PublicServer!PublicFairSpec`); the cleanup
interval keeps running (`HmacAuthenticator!FairSpec`). No remote end is assumed
to connect, disconnect, answer or retry. All of it is weak fairness: a timer
that is cleared and set again for ever need not fire. `GraceClock` has deadlines
in place of fairness: the clock cannot pass one.

## What is proved

`TunnelAgentProofs`, for any finite set of sockets, any set of callers and any
positive limit (`AgentAssumption`):

- `TypeCorrect`, by one lemma per action;
- `NoLostWakeup`: a socket never idles beside a waiting callback. Inductive with
  the types: `Accept` pools only when the queue is empty, `createConnection`
  queues only when the pool is;
- `CountCorrect`: `connectedSockets` equals the cardinality of `Accepted` and is
  at most the limit. The steps that matter add or remove one element of a finite
  set; the others leave `Accepted` alone, `Destroyed` in particular, which only
  moves a socket from *open* to *dying*.

`PoolProofs`, under the same assumption:

- `ExclusiveCorrect`, from `PoolInv`: the lists have no repetition, the pending
  timers name different sockets and callers, phases agree with the lists, and
  pool, timers, hands and http.Agent's list are apart. `PoolIsConnected` has to
  be part of it: a socket that is accepted is new to all four places only because
  each of them holds sockets not yet seen closed;
- `SocketsCorrect`: with `PoolIsConnected` its converse, that an open socket is in
  one of the four places and none is lost. A step takes a socket out of a place
  only to put it into another or to destroy it; the case to show is a caller given
  a second socket, which would drop the first, and by `ReadyNowhere` a caller that
  asks or was promised one holds none;
- `CallbackCorrect`: with `PoolInv` each of the two counts is that of a set with
  at most one element;
- `DueCorrect`, an action property: who was promised a socket, or waits in the
  queue of a closed agent without connections, is served or failed by the first
  step that ends this. It is the safety half of `DueAnswersArrive`: what is left to
  fairness is that the timer and the server's 'close' come;
- `QuietCorrect`, inductive with *closed implies that the server is closed*;
- `LeaseImplemented`: the agent implements SocketLease. `LeaseRight` turns the
  CASE of the refinement mapping into facts about the places, and a lemma for
  each kind of move says how the lease changes; http.Agent's list needs `OneFree`.

`PublicServerProofs`, under the same assumption:

- `ServerKeepsPool`: every theorem about the agent above holds of it under the
  handlers, with the client removed at any moment, since the handlers take no step
  on the agent but its own (`ServerUsesAgent`, a lemma);
- `OnlineCorrect`: inductive together with the types, and it needs `CountCorrect`
  before and after a step: 'offline' is emitted on a number and the property is
  about the sockets;
- `QueueShort`: only a call with an empty pool queues; a call that passed cases
  2, 3, 6 and 7 with an empty pool finds the client neither online nor in its
  grace period, and by `OnlineCorrect` such a client in the map is just born. A
  poll that succeeded has a socket;
- `WatchedCorrect`: behind a queued caller there is a connection, a timer or
  `setImmediate` that leads to the agent's end, or that end. It needs
  `AgentIsMapped`, that an agent started and not destroyed is that of a client in
  the map, and `OnlineCorrect`. The safety half of `QueuedWithoutTunnelEnds`, whose
  exception, a refused connection that lingers, delays that end and not what leads
  to it;
- `ClientLifeImplemented`, with `BirthInOrder`: a removed client does not come
  online again because by `AgentIsMapped` its server no longer listens;
- `PublicTypeCorrect`;
- `RefusedCorrect`: a refused caller is *resting*, neither queued nor promised
  nor holding a socket, and only a call of its own can change that.

`ClientManagerProofs`, for any ids, identities and clients, any port range, limit
and mode (`ManagerAssumption`), failed binds included. The first four hold for any
random ids; the others assume `HriFresh`, that `hri.random()` returns no id in
use, and `random_id_in_use` shows one of them failing without it:

- `TypeCorrect`, inductive with `ListenerHasId`: the expiry of a timer looks the
  map up under the id the listener captured, which has to be an id;
- `ListenedCorrect`: a client in the map is under its own id, open, and its 'close'
  is listened to. This half of `MapMatchesClients` survives a random id in use: the
  client that is written over keeps its listener, and the expiry of its timer
  removes and closes *the new one*, so that nothing closed stays in the map
  (`ExpirySpares`);
- `WatchCorrect`: `GraceWatchesOffline`, which needs `ListenedCorrect` to know that
  the one whose timer is gone has also left the map;
- `TimerCorrect`, an action property: the timer of a client in the map is given up
  only for its connection or its removal. The safety half of `OfflineClientLeaves`;
- `MapCorrect`: `MapMatchesClients`, inductive with the types. Its point is
  `VictimIsSelf`: whatever the 'close' listener removes is the client that
  closed, because a replacement uses up the old listener before the map entry
  is overwritten;
- `HandoverCorrect` and `OnlineStaysCorrect`: by `StepHandsOver`, an entry of the
  map changes only from empty, to empty by the timer of its own client, or to a
  client of the same identity; by `WatchCorrect` no timer is set for a client
  with a connection;
- `RegistryImplemented`: the manager implements SubdomainRegistry, with
  `MappedHasOwner` to know that a client in the map has an owner.

`PortProofs`, under `ManagerAssumption`, `CreateThrows` included; all but the first two
assume `HriFresh`:

- `ConservedCorrect`: pool and used ports share out the range, without repetition.
  This is inductive by itself, since `_releasePort` returns a port only if it was
  in use, so no id that is assigned twice can double one;
- `HeldCorrect`: a client in the map of a configured range has a port in use that
  no other client in the map has;
- `LeaveCorrect`, an action property: a port in use that no client in the map has
  was so before, or is left by `CreateThrows`. A client that is written over keeps
  its port in use, which is why this needs `HriFresh`;
- `NoStrayCorrect`: hence without an id such as 'size' (`Accessors = {}`) every port
  in use is that of a client in the map; `throw_keeps_port` shows it false with one;
- `CountCorrect`: inductive with `ServersMapped`, that a server not yet closed
  belongs to a client in the map, so the increment after the await counts a
  tunnel that is there;
- `LivesImplemented`: each client implements ClientLife. `CreateLife` and
  `ExpiryLife` say what a call and a timer are to the clients they are not about,
  which is nothing, by `MapCorrect`; `ServersMapped` says that only a client in the
  map accepts a connection. Without `HriFresh` TLC finds a client whose life is
  ended by the timer of another.

`AdminApiProofs`, under the assumptions of the modules it extends:

- `ApiKeepsBooks` and, with `HriFresh`, `ApiKeepsOwners`: what is proved of the
  manager holds under the routes, which change it only through its own operations
  (`ManagerImplemented`, a lemma);
- `AdminTypeCorrect`;
- `OwnerCorrect`: the client to be replaced has a port in use by `HeldCorrect`, so
  the pool is not empty after it gave it back, for any random ids;
- `HeardCorrect`: a pending request waits for a bind in progress, or for a server
  that failed or was closed, because the step that reports a bind answers every
  request that waits for it. The safety half of `RequestsSettle`;
- `UrlFindsId`: `getSubdomain` undoes `buildPublicUrl` for hosts of the server's
  domain;
- `GrantCorrect`, with `HriFresh` and for callers whose Host header is the
  server's domain: a pending request's URL is that of the client it waits for,
  and by `ServersMapped` and `MapCorrect` a client whose bind is reported is the
  one under its id. A Host header of another domain gives a URL that leads
  nowhere, which is what the code does.

`GraceClockProofs`, for any settings and times (`SettingsAssumption`,
`ClockAssumption`):

- `TypeCorrect`, `ReservationCorrect` and `HeldCorrect`, from `ClockInv`: a client
  in the map without a connection has a timer one period after its last absence,
  or a `setImmediate` to come in the same unit of time. This is why no timer of
  an earlier absence can be left. `HeldCorrect` bounds by LT_MAX_GRACE_PERIOD only a
  reservation whose period was configured, which is what the code does;
- `WaitsCorrect`, with `WaitBound`: a wait ends by one period after `createdAt`,
  and the timer, set later, not before that;
- `AdviceCorrect`, with `AdviceReaches`: an advice reaches to the end of the period
  that began at `createdAt`, and less than a second further, the rounding being
  upwards. The timer is set later, by as much as lies between the creation and the
  last absence. So who follows the advice is refused again only in that time:
  never, if the client has had no connection. Without that term the property is
  false, as `advice_holds` shows;
- `ClientLifeImplemented`: with deadlines in place of the order of callbacks it is
  the same life as in the other models.

`HmacAuthenticatorProofs`, for any settings, timestamps, nonces and forward clock
steps:

- `TypeCorrect`;
- `RemembersCorrect`: for the whole TTL after a plain acceptance the cache has the
  nonce. It needs that nothing but `Accept` writes an entry, and that what deletes
  one looks at its expiry;
- `NonceAcceptedOnce`, with the hypothesis `SafeSettings`, `TTL > Threshold + 3 *
  Tolerance`. It is inductive with `CacheCoversWindow`: an accepted nonce is cached,
  with an entry whose end bounds how new the nonce can be, or older than the window
  of any timestamp in tolerance. Three tolerances separate the clock at the
  acceptance, the timestamp and the clock at the second attempt. Nothing in the code checks the hypothesis. The defaults
  (60, 3600, 7200) meet it; README.md's relaxed configuration (300, 7200, with the
  default TTL of 7200) does not, and neither does the advice that the TTL be at
  least the threshold: `nonce_ttl`.

TunnelAgent's proofs assume that no caller has the name of a state of the lease,
and ClientManager's that `None` names neither a client nor an identity; both are
about the model's names and TLC checks them.

Every invariant and action property of the passing runs is proved, under the
hypotheses named above. Only
model-checked is liveness, which the proof system does not reach, since it needs
ENABLED: `DueAnswersArrive`, `UpgradesSettle`, `QueuedWithoutTunnelEnds`,
`RequestsSettle`, `OfflineClientLeaves` and `CacheForgets`. Of four of them the
safety half is proved, that what must happen stays due until it happens:
`DueCorrect`, `WatchedCorrect`, `HeardCorrect`, and `WatchCorrect` with
`TimerCorrect`; of a fifth, `UpgradesSettle`, it is plain from the two waits. These
halves (`DueStaysDue`, `QueuedIsWatched`, `PendingIsHeard`, `TimerKept`), and
`MappedListened`, hold in TLC on the instances of the runs as well, but no run
repeats them: the theorems say more.

## Where the code and its documents differ

Six runs end in a violation of what a comment, a test or the documentation says,
and `PROJECT.json` has a finding for each. Other differences are visible in a
definition, and no run is spent on them:

- *A default above the maximum.* .env.example:88 says that LT_MAX_GRACE_PERIOD
  "Limits how long a subdomain can be reserved". `getGracePeriod` compares a
  configured period with it, not the default: with LT_MAX_GRACE_PERIOD=10000 alone a
  subdomain is held for 30 s. `Settings!getGracePeriod`; `HeldNoLonger` makes the
  distinction, and its instance has such settings.
- *Spellings of a nonce.* README.md:477 says that a nonce "Cannot be reused". One
  spelt otherwise than its number is, with a leading zero say, is stored under a
  key that `has` does not look up (HmacAuthenticator.js:104 and :229), and can be
  reused within its window. `HmacAuthenticator!Accept`.
- *Requests in the grace period.* .env.example:107 says that they "wait up to this
  timeout for client to reconnect". Case 2 answers 503 at once.
  `PublicServer!RequestOffline`.
- *Errors behind the HMAC middleware.* README.md:485-502 lists 401 for failures of
  authentication. Its catch also gives 401 to an authenticated request that found
  no port left, or asked for 'size'. `AdminApi!Uncaught`.
- *The queue of a closed agent.* `_onClose` flushes "any waiting connections"
  (TunnelAgent.js:110), but a connection over the limit is ended and not destroyed,
  and while its far end stays open the server emits no 'close'.
  `PublicServer!RefusedLingers`.

## What is not modelled

The remote end beyond connecting and disconnecting; bytes, headers, piping and
backpressure; logging; `rejectedConnections`; the parsing of the other options;
the loading of the secret and the digest, one boolean in the model; LT_REQUEST_TIMEOUT
and LT_RETRY_AFTER, read like LT_MAX_GRACE_PERIOD; the lateness of timers in a
busy event loop; settings beyond the range of `setTimeout`; `clear` and `destroy`
of the nonce cache, which nothing calls while the server runs; a process crash,
since nothing is persisted and a restarted process is `Init`.
`client.spec.reference.js`, more than half of the repository's lines, is a
template of tests for another program, the tunnel client, and holds no code of
the server. `PROJECT.json` lists the components with the reason for each, and
the hazards with the properties that cover them.

## Plan

1. *Done*: `TunnelAgent` with SocketLease, ClientManager with SubdomainRegistry,
   HmacAuthenticator, and the first theorems.
2. *Done*: `PublicServer`, which composes the agent, a client and the handlers.
3. *Done*: `GraceClock` with `Settings`.
4. *Done*: names, ports and public URLs, as `PublicUrl` and the routes of
   `AdminApi`, which composes them with the manager.
5. *Done*: the proofs of every safety property the passing runs check, and of the
   refinements of SocketLease, SubdomainRegistry and ClientLife.
6. *Done*: the safety halves of the liveness properties, what holds without
   `HriFresh`, and ClientLife, on which the three models of a client agree.
7. Left: a composition of several clients with their agents under both servers,
   of which TLC would see only very small instances; today `PublicServer` has
   one client with its whole agent, and `AdminApi` several whose agents are
   reduced to a count of sockets. ClientLife ties the two together.

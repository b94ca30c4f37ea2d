---------------------------- MODULE PublicServer ----------------------------
(***************************************************************************)
(* The public side of server.js for one client: its 'request' and          *)
(* 'upgrade' handlers with their seven cases, the two waits of an upgrade, *)
(* the Client between them and its TunnelAgent, and the removal of that    *)
(* client by its grace timer or by a client that replaces it.              *)
(*                                                                         *)
(* Every step of the agent is a step of TunnelAgent; what this module adds *)
(* is who may call it and when, and what its 'online' and 'offline' events *)
(* do to the client.  A resolved promise resumes its handler before any    *)
(* other callback runs, so a poll that succeeds goes on to handleUpgrade   *)
(* in the same step.                                                       *)
(***************************************************************************)
EXTENDS TunnelAgent

VARIABLES
  mapped,        \* manager.getClient(clientId) returns this client
  immediate,     \* the setImmediate of its constructor has not run
  isOnline,      \* client.isOnline
  graceTimeout,  \* client.graceTimeout is set
  wait,          \* what each upgrade awaits: nothing, online, socket
  answer         \* the 503 each caller got: none, offline, busy

clientVars == <<mapped, immediate, isOnline, graceTimeout>>
serverVars == <<wait, answer>>
publicVars == <<vars, clientVars, serverVars>>

PublicTypeOK ==
  /\ TypeOK
  /\ {mapped, immediate, isOnline, graceTimeout} \subseteq BOOLEAN
  /\ wait \in [UpgradeCallers -> {"nothing", "online", "socket"}]
  /\ answer \in [Callers -> {"none", "offline", "busy"}]

PublicInit ==
  /\ Init
  /\ mapped = FALSE
  /\ immediate = FALSE
  /\ isOnline = FALSE
  /\ graceTimeout = FALSE
  /\ wait = [u \in UpgradeCallers |-> "nothing"]
  /\ answer = [c \in Callers |-> "none"]

-----------------------------------------------------------------------------
(* The client                                                              *)

\* newClient, up to its await: agent, client, map entry, listen.
NewClient ==
  /\ Listen
  /\ mapped' = TRUE
  /\ immediate' = TRUE
  /\ UNCHANGED <<isOnline, graceTimeout, serverVars>>

\* The constructor's setImmediate, after the server's own nextTick.
RunImmediate ==
  /\ immediate
  /\ handle # "binding"
  /\ immediate' = FALSE
  /\ graceTimeout' = (graceTimeout \/ ~isOnline)
  /\ UNCHANGED <<vars, mapped, isOnline, serverVars>>

\* _onConnection; 'online' with the first socket.  A new server is polled only
\* after the setImmediate callbacks of the turn it was made in.
SocketConnects(s) ==
  /\ Accept(s)
  /\ ~immediate
  /\ \/ /\ connectedSockets = 0
        /\ isOnline' = TRUE
        /\ graceTimeout' = FALSE
     \/ /\ connectedSockets # 0
        /\ UNCHANGED <<isOnline, graceTimeout>>
  /\ UNCHANGED <<mapped, immediate, serverVars>>

\* Mutant of SocketCloses: the count is compared with the wrong bound.
SocketClosesLate(s) ==
  /\ SocketClosed(s)
  /\ isOnline' = (isOnline /\ connectedSockets' >= 0)
  /\ graceTimeout' = (graceTimeout \/ connectedSockets' < 0)
  /\ UNCHANGED <<mapped, immediate, serverVars>>

\* A tunnel socket's 'close'; 'offline' with the last, which starts the grace
\* period anew, on a client that was removed as well.
SocketCloses(s) ==
  /\ SocketClosed(s)
  /\ \/ /\ connectedSockets' <= 0
        /\ isOnline' = FALSE
        /\ graceTimeout' = TRUE
     \/ /\ connectedSockets' > 0
        /\ UNCHANGED <<isOnline, graceTimeout>>
  /\ UNCHANGED <<mapped, immediate, serverVars>>

\* Mutant of Close: agent.destroy() is forgotten.
CloseKeepsServer ==
  /\ mapped' = FALSE
  /\ graceTimeout' = FALSE
  /\ UNCHANGED <<vars, immediate, isOnline, serverVars>>

\* close() and the removal from the map.  The agent of a client closed before
\* has nothing left to destroy.
Close ==
  /\ mapped' = FALSE
  /\ graceTimeout' = FALSE
  /\ \/ Destroy
     \/ handle = "closed" /\ UNCHANGED vars
  /\ UNCHANGED <<immediate, isOnline, serverVars>>

GraceExpired == graceTimeout /\ Close

\* newClient for this id by its owner: removeClient, then another client.
Replaced == mapped /\ Close

-----------------------------------------------------------------------------
(* server.on('request')                                                    *)

\* A request or upgrade for a client in the map; CASES 1 and 5, where there
\* is none, change nothing.
Arrives(c) ==
  /\ Ready(c)
  /\ c \in UpgradeCallers => wait[c] = "nothing"
  /\ mapped
  /\ handle # "binding"

InGrace == ~isOnline /\ graceTimeout
NoSocketAvailable == isOnline /\ availableSockets = <<>>

\* CASE 2: 503, with Retry-After from the grace period.
RequestOffline(c) ==
  /\ c \in HttpCallers
  /\ Arrives(c)
  /\ InGrace
  /\ answer' = [answer EXCEPT ![c] = "offline"]
  /\ UNCHANGED <<vars, clientVars, wait>>

\* CASE 3: 503.
RequestBusy(c) ==
  /\ c \in HttpCallers
  /\ Arrives(c)
  /\ NoSocketAvailable
  /\ answer' = [answer EXCEPT ![c] = "busy"]
  /\ UNCHANGED <<vars, clientVars, wait>>

\* CASE 4, and a client that is neither online nor in its grace period yet.
RequestHandled(c) ==
  /\ Arrives(c)
  /\ ~InGrace
  /\ ~NoSocketAvailable
  /\ HttpRequest(c) \/ HttpReuse(c)
  /\ answer' = [answer EXCEPT ![c] = "none"]
  /\ UNCHANGED <<clientVars, wait>>

-----------------------------------------------------------------------------
(* server.on('upgrade')                                                    *)

\* CASE 6: await waitForClientOnline.
UpgradeOffline(u) ==
  /\ u \in UpgradeCallers
  /\ Arrives(u)
  /\ InGrace
  /\ wait' = [wait EXCEPT ![u] = "online"]
  /\ answer' = [answer EXCEPT ![u] = "none"]
  /\ UNCHANGED <<vars, clientVars>>

\* CASE 7: await waitForAvailableSocket.
UpgradeBusy(u) ==
  /\ u \in UpgradeCallers
  /\ Arrives(u)
  /\ NoSocketAvailable
  /\ wait' = [wait EXCEPT ![u] = "socket"]
  /\ answer' = [answer EXCEPT ![u] = "none"]
  /\ UNCHANGED <<vars, clientVars>>

\* No wait.
UpgradeHandled(u) ==
  /\ Arrives(u)
  /\ ~InGrace
  /\ ~NoSocketAvailable
  /\ Upgrade(u)
  /\ answer' = [answer EXCEPT ![u] = "none"]
  /\ UNCHANGED <<clientVars, wait>>

\* Mutant of OnlineTimeout: the answer names what was awaited.
OnlineTimeoutNamesWait(u) ==
  /\ u \in UpgradeCallers
  /\ wait[u] = "online"
  /\ wait' = [wait EXCEPT ![u] = "nothing"]
  /\ answer' = [answer EXCEPT ![u] = wait[u]]
  /\ UNCHANGED <<vars, clientVars>>

\* The end of waitForClientOnline.  It listens for an 'online' event of the
\* client, and only the agent emits one: the timeout is the only end.
OnlineTimeout(u) ==
  /\ u \in UpgradeCallers
  /\ wait[u] = "online"
  /\ wait' = [wait EXCEPT ![u] = "nothing"]
  /\ answer' = [answer EXCEPT ![u] = "offline"]
  /\ UNCHANGED <<vars, clientVars>>

\* Mutant of SocketPoll: it looks at connected sockets.
SocketPollConnected(u) ==
  /\ wait[u] = "socket"
  /\ connectedSockets > 0
  /\ wait' = [wait EXCEPT ![u] = "nothing"]
  /\ Upgrade(u) \/ UpgradeGone(u)
  /\ UNCHANGED <<clientVars, answer>>

\* waitForAvailableSocket's interval finds a socket, and the upgrade goes on,
\* on this client whatever has become of it, and whether or not the far end is
\* still there.
SocketPoll(u) ==
  /\ u \in UpgradeCallers
  /\ wait[u] = "socket"
  /\ availableSockets # <<>>
  /\ wait' = [wait EXCEPT ![u] = "nothing"]
  /\ Upgrade(u) \/ UpgradeGone(u)
  /\ UNCHANGED <<clientVars, answer>>

\* Mutants of SocketTimeout: no return after the 503; the timer is cleared when
\* the client goes offline.
SocketTimeoutGoesOn(u) ==
  /\ wait[u] = "socket"
  /\ wait' = [wait EXCEPT ![u] = "nothing"]
  /\ answer' = [answer EXCEPT ![u] = "busy"]
  /\ Upgrade(u)
  /\ UNCHANGED clientVars
SocketTimeoutOnline(u) ==
  /\ wait[u] = "socket" /\ isOnline
  /\ wait' = [wait EXCEPT ![u] = "nothing"]
  /\ answer' = [answer EXCEPT ![u] = "busy"]
  /\ UNCHANGED <<vars, clientVars>>

\* Its timeout: 503.
SocketTimeout(u) ==
  /\ u \in UpgradeCallers
  /\ wait[u] = "socket"
  /\ wait' = [wait EXCEPT ![u] = "nothing"]
  /\ answer' = [answer EXCEPT ![u] = "busy"]
  /\ UNCHANGED <<vars, clientVars>>

-----------------------------------------------------------------------------
(* Steps of the agent that neither the client nor the server sees          *)

Unseen(Step) == Step /\ UNCHANGED <<clientVars, serverVars>>

AgentAlone ==
  \/ Bound \/ ServerClose \/ FireHandoff
  \/ \E s \in Sockets : Refuse(s) \/ RefusedClosed(s) \/ Disconnect(s)
  \/ \E c \in Callers : Abandon(c) \/ FinishKeep(c) \/ FinishDestroy(c)

ClientNext == NewClient \/ RunImmediate \/ GraceExpired \/ Replaced
SocketEvents(s) == SocketConnects(s) \/ SocketCloses(s)
RequestNext(c) == RequestOffline(c) \/ RequestBusy(c) \/ RequestHandled(c)
UpgradeNext(u) ==
  \/ UpgradeOffline(u) \/ UpgradeBusy(u) \/ UpgradeHandled(u)
  \/ OnlineTimeout(u) \/ SocketPoll(u) \/ SocketTimeout(u)

PublicNext ==
  \/ ClientNext
  \/ \E s \in Sockets : SocketEvents(s)
  \/ \E c \in HttpCallers : RequestNext(c)
  \/ \E u \in UpgradeCallers : UpgradeNext(u)
  \/ Unseen(AgentAlone)

PublicSpec == PublicInit /\ [][PublicNext]_publicVars

\* Node fires the timers of a waiting upgrade (server.js until it calls
\* handleUpgrade, Client.js after), reports a bind, runs a setImmediate, fires
\* a grace timer and emits a server's 'close'.  Nothing makes a far end close.
PublicFairSpec ==
  /\ PublicSpec
  /\ WF_publicVars(Unseen(Bound))
  /\ WF_publicVars(RunImmediate)
  /\ WF_publicVars(GraceExpired)
  /\ WF_publicVars(Unseen(ServerClose))
  /\ \A u \in UpgradeCallers :
       /\ WF_publicVars(OnlineTimeout(u))
       /\ WF_publicVars(SocketTimeout(u))
       /\ WF_publicVars(Unseen(Abandon(u)))

-----------------------------------------------------------------------------
(* Properties                                                              *)

\* Seen without its sockets, the client lives as ClientLife says.  isOnline
\* follows the sockets of an agent that outlives close(), and requests and polls
\* of before may still use it: still no client comes online again once it is out
\* of the map, and none is expired while a tunnel socket is connected.
Life == INSTANCE ClientLife
          WITH young <- immediate, online <- isOnline, timer <- graceTimeout
ImplementsLife == Life!Spec

\* isOnline, set by one event and cleared by another, says whether a tunnel
\* socket is connected, and a client in the map is online, in its grace period
\* or about to be: the handlers' cases leave nothing out after birth.
OnlineIsConnected ==
  /\ isOnline <=> Accepted # {}
  /\ ~(isOnline /\ graceTimeout)
  /\ mapped => isOnline \/ graceTimeout \/ immediate

\* The cases keep callers out of the agent's queue: a callback is queued only
\* in the moment between a client's creation and its setImmediate.  Later a
\* caller that finds no socket is answered 503 or polls, whatever happened
\* during its awaits.  Those queued in that moment stay queued: see
\* QueuedWithoutTunnelEnds.
QueueGrowsOnlyAtBirth ==
  [][Len(waitingCreateConn') > Len(waitingCreateConn) => immediate]_publicVars

\* A caller answered 503 takes no tunnel socket and waits for none, before the
\* slot's next request: no handler goes on after it has answered.
RefusedTakesNoSocket ==
  \A c \in Callers :
    /\ answer[c] # "none" => Ready(c)
    /\ c \in UpgradeCallers /\ wait[c] # "nothing" => Ready(c) /\ answer[c] = "none"

\* An upgrade that is waiting, in the server or in the agent's queue, is given a
\* socket, answered, or ended: also when its client is removed meanwhile.
Outstanding(u) ==
  \/ wait[u] # "nothing"
  \/ phase[u] \in {"queued", "promised"} /\ u \notin abandoned
UpgradesSettle == \A u \in UpgradeCallers : Outstanding(u) ~> ~Outstanding(u)

\* A connection over the limit that was written its 429 and ended, and whose far
\* end has not closed: nothing of the server's closes it.
RefusedLingers == \E s \in Sockets : sockState[s] = "refused"

\* A request that got into the queue of a client without a tunnel is let go when
\* the client goes, if no connection comes: its own timeout does not end it,
\* since http.ClientRequest has no socket to report the error on.  Unless a
\* refused connection lingers: it keeps the closed server from its 'close', whose
\* handler is what flushes the queue.
QueuedWithoutTunnelEnds ==
  \A c \in Callers : phase[c] = "queued" ~> phase[c] # "queued" \/ isOnline \/ RefusedLingers

\* The safety half of it: behind every queued caller there is a connection, a
\* timer that will destroy the agent, or an agent destroyed already.
QueuedIsWatched ==
  \A c \in Callers : phase[c] = "queued" =>
    isOnline \/ graceTimeout \/ immediate \/ handle = "closed"

-----------------------------------------------------------------------------
(* What comments and settings say of the program                           *)

\* The comment of CASE 6, "WAIT for reconnection": no upgrade is still waiting
\* for its client to come online when it is online.
ReconnectionEndsTheWait == \A u \in UpgradeCallers : wait[u] = "online" => ~isOnline
=============================================================================

---------------------------- MODULE TunnelAgent ----------------------------
(***************************************************************************)
(* lib/TunnelAgent.js: the pool of tunnel sockets of one tunnel client.    *)
(*                                                                         *)
(* A localtunnel client opens TCP connections to the agent's own server;   *)
(* an accepted socket waits in availableSockets until createConnection     *)
(* hands it to a caller, and a caller that finds no socket waits in        *)
(* waitingCreateConn.  Two kinds of callers share the pool: proxied HTTP   *)
(* requests, which come through Node's http.Agent and may leave their      *)
(* socket with its keep-alive list, and WebSocket upgrades, which call     *)
(* createConnection themselves and keep the socket until it ends.          *)
(*                                                                         *)
(* Node runs one callback at a time, so an action is one callback, whole.  *)
(***************************************************************************)
EXTENDS Integers, Sequences, FiniteSets

CONSTANTS Sockets,         \* names of the tunnel sockets alive at one time
          HttpCallers,     \* slots for proxied HTTP requests
          UpgradeCallers,  \* slots for WebSocket upgrades
          MaxTcpSockets,   \* options.maxTcpSockets
          NoSocket         \* "holds no socket"

Callers == HttpCallers \cup UpgradeCallers

ASSUME AgentAssumption ==
  /\ IsFiniteSet(Sockets)
  /\ NoSocket \notin Sockets
  /\ HttpCallers \cap UpgradeCallers = {}
  /\ Callers \cap {"away", "pool", "kept", "spent"} = {}  \* the words of SocketLease
  /\ MaxTcpSockets \in Nat \ {0}

\* maxFreeSockets: 1, the keep-alive allowance given to http.Agent
MaxFreeSockets == 1

VARIABLES
  handle,             \* server._handle: none, binding, listening, failed, closed
  closed,             \* this.closed
  sockState,          \* away, open, dying (ended, 'close' not emitted), refused
  connectedSockets,   \* this.connectedSockets
  availableSockets,   \* this.availableSockets, in order
  waitingCreateConn,  \* this.waitingCreateConn: the callers, in order
  handoffs,           \* the setTimeout(0) callbacks that give a socket, in order
  phase,              \* what each caller is doing
  abandoned,          \* callers that gave up before they had a socket
  given,              \* the socket each caller was given
  free                \* http.Agent freeSockets

poolVars   == <<connectedSockets, availableSockets, waitingCreateConn, handoffs>>
callerVars == <<phase, abandoned, given>>
vars == <<handle, closed, sockState, poolVars, callerVars, free>>

Handoff == [cb : Callers, sock : Sockets]

TypeOK ==
  /\ handle \in {"none", "binding", "listening", "failed", "closed"}
  /\ closed \in BOOLEAN
  /\ sockState \in [Sockets -> {"away", "open", "dying", "refused"}]
  /\ connectedSockets \in Int
  /\ availableSockets \in Seq(Sockets)
  /\ waitingCreateConn \in Seq(Callers)
  /\ handoffs \in Seq(Handoff)
  /\ phase \in [Callers -> {"idle", "queued", "promised", "served", "failed"}]
  /\ abandoned \in SUBSET Callers
  /\ given \in [Callers -> Sockets \cup {NoSocket}]
  /\ free \in SUBSET Sockets

Elements(seq) == {seq[i] : i \in 1..Len(seq)}

\* The sockets _onConnection accepted and whose 'close' it has not yet seen.
Accepted == {s \in Sockets : sockState[s] \in {"open", "dying"}}

\* Some part of the server still holds a reference to the socket object.
Referenced(s) ==
  \/ s \in Elements(availableSockets) \cup free
  \/ \E i \in 1..Len(handoffs) : handoffs[i].sock = s
  \/ \E c \in Callers : given[c] = s

Init ==
  /\ handle = "none"
  /\ closed = FALSE
  /\ sockState = [s \in Sockets |-> "away"]
  /\ connectedSockets = 0
  /\ availableSockets = <<>>
  /\ waitingCreateConn = <<>>
  /\ handoffs = <<>>
  /\ phase = [c \in Callers |-> "idle"]
  /\ abandoned = {}
  /\ given = [c \in Callers |-> NoSocket]
  /\ free = {}

-----------------------------------------------------------------------------
(* The agent's server                                                      *)

\* listen(): throws if already started, so it runs once.
Listen ==
  /\ handle = "none"
  /\ handle' = "binding"
  /\ UNCHANGED <<closed, sockState, poolVars, callerVars, free>>

\* The outcome of the bind: 'listening', or 'error', which is only logged.
Bound ==
  /\ handle = "binding"
  /\ handle' \in {"listening", "failed"}
  /\ UNCHANGED <<closed, sockState, poolVars, callerVars, free>>

\* Remote end of a tunnel socket: the name is away and nothing refers to it.
Connectable(s) ==
  /\ handle = "listening"
  /\ sockState[s] = "away"
  /\ ~Referenced(s)

\* _onConnection over the limit: a 429 is written and the socket ended.
Refuse(s) ==
  /\ Connectable(s)
  /\ connectedSockets >= MaxTcpSockets
  /\ sockState' = [sockState EXCEPT ![s] = "refused"]
  /\ UNCHANGED <<handle, closed, poolVars, callerVars, free>>


\* Mutants of Accept: the queue is ignored; the limit is off by one; the
\* `return` after the handoff is missing; the queue is read without shift().
AcceptIntoPool(s) ==
  /\ Connectable(s) /\ connectedSockets < MaxTcpSockets
  /\ sockState' = [sockState EXCEPT ![s] = "open"]
  /\ connectedSockets' = connectedSockets + 1
  /\ availableSockets' = Append(availableSockets, s)
  /\ UNCHANGED <<handle, closed, waitingCreateConn, handoffs, phase, abandoned, given, free>>
AcceptOneTooMany(s) ==
  /\ Connectable(s) /\ connectedSockets <= MaxTcpSockets
  /\ waitingCreateConn = <<>>
  /\ sockState' = [sockState EXCEPT ![s] = "open"]
  /\ connectedSockets' = connectedSockets + 1
  /\ availableSockets' = Append(availableSockets, s)
  /\ UNCHANGED <<handle, closed, waitingCreateConn, handoffs, phase, abandoned, given, free>>
HandToQueue(s, queue, pool) ==
  /\ Connectable(s) /\ connectedSockets < MaxTcpSockets
  /\ waitingCreateConn # <<>>
  /\ sockState' = [sockState EXCEPT ![s] = "open"]
  /\ connectedSockets' = connectedSockets + 1
  /\ waitingCreateConn' = queue
  /\ handoffs' = Append(handoffs, [cb |-> Head(waitingCreateConn), sock |-> s])
  /\ phase' = [phase EXCEPT ![Head(waitingCreateConn)] = "promised"]
  /\ availableSockets' = pool
  /\ UNCHANGED <<handle, closed, abandoned, given, free>>
AcceptWithoutReturn(s) == HandToQueue(s, Tail(waitingCreateConn), Append(availableSockets, s))
AcceptPeek(s) == HandToQueue(s, waitingCreateConn, availableSockets)

\* _onConnection: the head of the queue gets the socket, or the pool does.
Accept(s) ==
  /\ Connectable(s)
  /\ connectedSockets < MaxTcpSockets
  /\ sockState' = [sockState EXCEPT ![s] = "open"]
  /\ connectedSockets' = connectedSockets + 1
  /\ \/ /\ waitingCreateConn # <<>>
        /\ waitingCreateConn' = Tail(waitingCreateConn)
        /\ handoffs' = Append(handoffs, [cb |-> Head(waitingCreateConn), sock |-> s])
        /\ phase' = [phase EXCEPT ![Head(waitingCreateConn)] = "promised"]
        /\ UNCHANGED availableSockets
     \/ /\ waitingCreateConn = <<>>
        /\ availableSockets' = Append(availableSockets, s)
        /\ UNCHANGED <<waitingCreateConn, handoffs, phase>>
  /\ UNCHANGED <<handle, closed, abandoned, given, free>>

\* The refused socket has flushed its 429 and is gone.
RefusedClosed(s) ==
  /\ sockState[s] = "refused"
  /\ sockState' = [sockState EXCEPT ![s] = "away"]
  /\ UNCHANGED <<handle, closed, poolVars, callerVars, free>>

\* The far end closes or the connection breaks; 'close' comes later.
Disconnect(s) ==
  /\ sockState[s] = "open"
  /\ sockState' = [sockState EXCEPT ![s] = "dying"]
  /\ UNCHANGED <<handle, closed, poolVars, callerVars, free>>

\* Mutant of RemoveAvailable: the splice is missing.
RemoveNothing(s) == UNCHANGED availableSockets

\* The socket leaves availableSockets: indexOf, then splice.
RemoveAvailable(s) ==
  \/ /\ s \notin Elements(availableSockets)
     /\ UNCHANGED availableSockets
  \/ \E idx \in 1..Len(availableSockets) :
       /\ availableSockets[idx] = s
       /\ \A j \in 1..idx-1 : availableSockets[j] # s
       /\ availableSockets' = SubSeq(availableSockets, 1, idx-1)
                                \o SubSeq(availableSockets, idx+1, Len(availableSockets))

\* 'close' on an accepted socket: the agent's handler, then those of whoever
\* holds it (http.Agent's list, the request or the upgrade using it).
SocketClosed(s) ==
  /\ sockState[s] = "dying"
  /\ sockState' = [sockState EXCEPT ![s] = "away"]
  /\ connectedSockets' = connectedSockets - 1
  /\ RemoveAvailable(s)
  /\ free' = free \ {s}
  /\ phase' = [c \in Callers |-> IF given[c] = s THEN "failed" ELSE phase[c]]
  /\ given' = [c \in Callers |-> IF given[c] = s THEN NoSocket ELSE given[c]]
  /\ UNCHANGED <<handle, closed, waitingCreateConn, handoffs, abandoned>>

-----------------------------------------------------------------------------
(* Callers                                                                 *)

Destroyed(S) == [s \in Sockets |-> IF s \in S /\ sockState[s] = "open"
                                     THEN "dying" ELSE sockState[s]]

Ready(c) == phase[c] \in {"idle", "failed"}

\* Mutants of CreateConnection: the callback is lost on its way to the queue;
\* `closed` is not looked at.
CreateConnectionLosingCallback(c) ==
  /\ availableSockets = <<>>
  /\ waitingCreateConn' = Append(waitingCreateConn, given[c])
  /\ phase' = [phase EXCEPT ![c] = "queued"]
  /\ UNCHANGED <<availableSockets, given>>
CreateConnectionAfterClose(c) ==
  /\ availableSockets = <<>>
  /\ waitingCreateConn' = Append(waitingCreateConn, c)
  /\ phase' = [phase EXCEPT ![c] = "queued"]
  /\ UNCHANGED <<availableSockets, given>>

\* createConnection(options, cb)
CreateConnection(c) ==
  \/ /\ closed
     /\ phase' = [phase EXCEPT ![c] = "failed"]
     /\ UNCHANGED <<availableSockets, waitingCreateConn, given>>
  \/ /\ ~closed
     /\ availableSockets # <<>>
     /\ availableSockets' = Tail(availableSockets)
     /\ phase' = [phase EXCEPT ![c] = "served"]
     /\ given' = [given EXCEPT ![c] = Head(availableSockets)]
     /\ UNCHANGED waitingCreateConn
  \/ /\ ~closed
     /\ availableSockets = <<>>
     /\ waitingCreateConn' = Append(waitingCreateConn, c)
     /\ phase' = [phase EXCEPT ![c] = "queued"]
     /\ UNCHANGED <<availableSockets, given>>

\* Client.handleUpgrade: straight to createConnection.
Upgrade(c) ==
  /\ c \in UpgradeCallers
  /\ Ready(c)
  /\ CreateConnection(c)
  /\ UNCHANGED <<handle, closed, sockState, connectedSockets, handoffs, abandoned, free>>

\* Client.handleUpgrade for an upgrade whose far end has gone: the pooled
\* socket it is given at once is destroyed.
UpgradeGone(c) ==
  /\ c \in UpgradeCallers
  /\ Ready(c)
  /\ ~closed
  /\ availableSockets # <<>>
  /\ availableSockets' = Tail(availableSockets)
  /\ sockState' = Destroyed({Head(availableSockets)})
  /\ phase' = [phase EXCEPT ![c] = "failed"]
  /\ UNCHANGED <<handle, closed, connectedSockets, waitingCreateConn, handoffs,
                 abandoned, given, free>>

\* Client.handleRequest, no usable kept socket: http.Agent drops destroyed
\* ones from its list and calls createConnection.
HttpRequest(c) ==
  /\ c \in HttpCallers
  /\ Ready(c)
  /\ \A s \in free : sockState[s] = "dying"
  /\ CreateConnection(c)
  /\ free' = {}
  /\ UNCHANGED <<handle, closed, sockState, connectedSockets, handoffs, abandoned>>

\* Client.handleRequest, reusing the kept-alive socket.  A socket whose far
\* end has gone may not be marked destroyed yet, and is then reused too.
HttpReuse(c) ==
  /\ c \in HttpCallers
  /\ Ready(c)
  /\ \E s \in free :
       /\ free' = free \ {s}
       /\ phase' = [phase EXCEPT ![c] = "served"]
       /\ given' = [given EXCEPT ![c] = s]
  /\ UNCHANGED <<handle, closed, sockState, poolVars, abandoned>>

\* A timeout, or the far side going away, while the caller has no socket:
\* its callback stays queued.
Abandon(c) ==
  /\ phase[c] \in {"queued", "promised"}
  /\ c \notin abandoned
  /\ abandoned' = abandoned \cup {c}
  /\ UNCHANGED <<handle, closed, sockState, poolVars, phase, given, free>>

\* The setTimeout(0) callback: fn(null, socket).  A caller that gave up
\* destroys the socket it is handed.
FireHandoff ==
  /\ handoffs # <<>>
  /\ LET c == Head(handoffs).cb
         s == Head(handoffs).sock
     IN \/ /\ c \notin abandoned
           /\ phase' = [phase EXCEPT ![c] = "served"]
           /\ given' = [given EXCEPT ![c] = s]
           /\ UNCHANGED <<sockState, abandoned>>
        \/ /\ c \in abandoned
           /\ phase' = [phase EXCEPT ![c] = "failed"]
           /\ sockState' = Destroyed({s})
           /\ abandoned' = abandoned \ {c}
           /\ UNCHANGED given
  /\ handoffs' = Tail(handoffs)
  /\ UNCHANGED <<handle, closed, connectedSockets, availableSockets, waitingCreateConn, free>>

\* Mutant of FinishKeep: no maxFreeSockets.
FinishKeepAll(c) ==
  /\ c \in HttpCallers
  /\ phase[c] = "served"
  /\ free' = free \cup {given[c]}
  /\ phase' = [phase EXCEPT ![c] = "idle"]
  /\ given' = [given EXCEPT ![c] = NoSocket]
  /\ UNCHANGED <<handle, closed, sockState, poolVars, abandoned>>

\* The response is complete on a kept-alive connection and the list has room.
FinishKeep(c) ==
  /\ c \in HttpCallers
  /\ phase[c] = "served"
  /\ Cardinality(free) < MaxFreeSockets
  /\ \E s \in Sockets :
       /\ given[c] = s
       /\ sockState[s] = "open"
       /\ free' = free \cup {s}
  /\ phase' = [phase EXCEPT ![c] = "idle"]
  /\ given' = [given EXCEPT ![c] = NoSocket]
  /\ UNCHANGED <<handle, closed, sockState, poolVars, abandoned>>

\* Every other end: no keep-alive, no room, the request timeout, either end
\* of an upgraded connection.  The socket is destroyed.
FinishDestroy(c) ==
  /\ phase[c] = "served"
  /\ sockState' = Destroyed({given[c]})
  /\ phase' = [phase EXCEPT ![c] = "idle"]
  /\ given' = [given EXCEPT ![c] = NoSocket]
  /\ UNCHANGED <<handle, closed, poolVars, abandoned, free>>

-----------------------------------------------------------------------------
(* Shutdown                                                                *)

HttpHeld == {s \in Sockets : \E c \in HttpCallers : given[c] = s}

\* destroy(): server.close() and http.Agent's destroy, which reaches only the
\* sockets http.Agent knows.
Destroy ==
  /\ handle \in {"binding", "listening", "failed"}
  /\ handle' = "closed"
  /\ sockState' = Destroyed(HttpHeld \cup free)
  /\ UNCHANGED <<closed, poolVars, callerVars, free>>

\* Every connection net.Server counts is gone: it stops counting a socket
\* when it is destroyed, which may be before the socket's own 'close'.
Drained == \A s \in Sockets : sockState[s] \notin {"open", "refused"}

\* Mutant of ServerClose: nobody is flushed.
ServerCloseWithoutFlush ==
  /\ handle = "closed" /\ Drained /\ ~closed
  /\ closed' = TRUE
  /\ UNCHANGED <<handle, sockState, poolVars, callerVars, free>>

\* _onClose, on the server's 'close' event: flush the queue with an error.
ServerClose ==
  /\ handle = "closed"
  /\ Drained
  /\ ~closed
  /\ closed' = TRUE
  /\ waitingCreateConn' = <<>>
  /\ phase' = [c \in Callers |-> IF c \in Elements(waitingCreateConn)
                                   THEN "failed" ELSE phase[c]]
  /\ abandoned' = abandoned \ Elements(waitingCreateConn)
  /\ UNCHANGED <<handle, sockState, connectedSockets, availableSockets, handoffs, given, free>>

SocketNext(s) == Refuse(s) \/ Accept(s) \/ RefusedClosed(s) \/ Disconnect(s) \/ SocketClosed(s)

CallerNext(c) ==
  \/ Upgrade(c) \/ UpgradeGone(c) \/ HttpRequest(c) \/ HttpReuse(c)
  \/ Abandon(c) \/ FinishKeep(c) \/ FinishDestroy(c)

Next ==
  \/ Listen \/ Bound \/ Destroy \/ ServerClose \/ FireHandoff
  \/ \E s \in Sockets : SocketNext(s)
  \/ \E c \in Callers : CallerNext(c)

Spec == Init /\ [][Next]_vars

-----------------------------------------------------------------------------
(* Fairness: Node runs a due timer and a pending 'close' event.  Nothing   *)
(* makes a remote end disconnect or a caller finish.                       *)

FairSpec == Spec /\ WF_vars(FireHandoff) /\ WF_vars(ServerClose)

-----------------------------------------------------------------------------
(* Safety                                                                  *)

\* No lost wake-up: a socket never sits in the pool while a callback waits in
\* the queue (_onConnection and createConnection, run in any order).
PoolOrQueueEmpty == availableSockets = <<>> \/ waitingCreateConn = <<>>

\* connectedSockets, kept by += and -= in two handlers, is the number of
\* accepted sockets whose 'close' has not been seen, and never passes the
\* limit: 'offline' fires exactly when the last one closes.
CountExact ==
  /\ connectedSockets = Cardinality(Accepted)
  /\ connectedSockets <= MaxTcpSockets

\* The places a socket object can be: the pool, a pending handoff, a caller's
\* hands and http.Agent's free list never share a socket, and none holds one
\* twice, whatever closes, timeouts and requests interleave.
Places(s) ==
  {<<"pool", i>> : i \in {j \in 1..Len(availableSockets) : availableSockets[j] = s}}
  \cup {<<"handoff", i>> : i \in {j \in 1..Len(handoffs) : handoffs[j].sock = s}}
  \cup {<<"given", c>> : c \in {d \in Callers : given[d] = s}}
  \cup {<<"free", 0>> : x \in {y \in free : y = s}}
ExclusiveSockets == \A s \in Sockets : Cardinality(Places(s)) <= 1

\* A callback is queued exactly once while it waits and promised exactly one
\* socket afterwards: it is never called twice and never forgotten.
CallbackOnce ==
  \A c \in Callers :
    /\ Cardinality({i \in 1..Len(waitingCreateConn) : waitingCreateConn[i] = c})
         = (IF phase[c] = "queued" THEN 1 ELSE 0)
    /\ Cardinality({i \in 1..Len(handoffs) : handoffs[i].cb = c})
         = (IF phase[c] = "promised" THEN 1 ELSE 0)
    /\ given[c] # NoSocket <=> phase[c] = "served"

\* After 'end' nobody waits and no live socket is left in the pool, with
\* http.Agent, or on its way to a caller, although the flush in _onClose runs
\* on the server's event and not in destroy().
ClosedIsQuiet ==
  closed => /\ waitingCreateConn = <<>>
            /\ \A s \in Sockets : sockState[s] # "open"

\* The pool and the connections agree, both ways: a socket whose 'close' has
\* been handled is never in the pool or with http.Agent, which only give out
\* sockets that still count as connected; and one that was accepted and is open
\* is never forgotten, counted against the limit and in nobody's hands.
PoolIsConnected == \A s \in Elements(availableSockets) \cup free : s \in Accepted
NoSocketLost == \A s \in Sockets : sockState[s] = "open" => Referenced(s)
SocketsAccounted == PoolIsConnected /\ NoSocketLost

-----------------------------------------------------------------------------
(* Liveness                                                                *)

AnswerDue(c) == \/ phase[c] = "promised"
                \/ phase[c] = "queued" /\ handle = "closed" /\ Drained

\* A caller that was promised a socket is called back, and so is one still
\* queued when the destroyed agent's last connection is gone.
DueAnswersArrive == \A c \in Callers : AnswerDue(c) ~> phase[c] \in {"served", "failed"}

\* The safety half of it: an answer that is due stays due until it is given,
\* whatever connects, closes, gives up or is destroyed in between.
DueStaysDue ==
  [][\A c \in Callers : AnswerDue(c) => AnswerDue(c)' \/ phase'[c] \in {"served", "failed"}]_vars

-----------------------------------------------------------------------------
(* Refinement                                                              *)

lease == [s \in Sockets |->
  CASE \E c \in Callers : given[c] = s -> CHOOSE c \in Callers : given[c] = s
    [] \E i \in 1..Len(handoffs) : handoffs[i].sock = s ->
         (CHOOSE h \in Elements(handoffs) : h.sock = s).cb
    [] s \in Elements(availableSockets) -> "pool"
    [] s \in free -> "kept"
    [] ~Referenced(s) /\ s \in Accepted -> "spent"
    [] OTHER -> "away"]

Lease == INSTANCE SocketLease

\* The pool, the queue, the timers and http.Agent together implement the lease
\* discipline of SocketLease.
ImplementsLease == Lease!Spec
=============================================================================

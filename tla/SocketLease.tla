---------------------------- MODULE SocketLease ----------------------------
(***************************************************************************)
(* What TunnelAgent promises about a tunnel socket, with no queue, no      *)
(* pool order and no timers: a socket is leased to at most one caller at   *)
(* a time, a caller holds at most one socket, only an HTTP request can     *)
(* return its socket for another use and only an HTTP request can take a   *)
(* returned one, and a socket that is spent serves nobody until its        *)
(* connection is gone and the name stands for a new connection.            *)
(***************************************************************************)
EXTENDS FiniteSets

CONSTANTS Sockets, HttpCallers, UpgradeCallers

Callers == HttpCallers \cup UpgradeCallers

VARIABLE lease

LeaseTypeOK == lease \in [Sockets -> Callers \cup {"away", "pool", "kept", "spent"}]

Init == lease = [s \in Sockets |-> "away"]

Kept == {s \in Sockets : lease[s] = "kept"}
Holding(c) == \E s \in Sockets : lease[s] = c

\* A connection arrives and is pooled, or leased at once to a waiting caller.
Arrive(s) ==
  /\ lease[s] = "away"
  /\ \E to \in {"pool"} \cup {c \in Callers : ~Holding(c)} :
       lease' = [lease EXCEPT ![s] = to]

\* A pooled socket is leased.  Kept sockets found dead on the way are spent.
Grant(s, c) ==
  /\ lease[s] = "pool"
  /\ ~Holding(c)
  /\ \E dropped \in SUBSET Kept :
       /\ c \in UpgradeCallers => dropped = {}
       /\ lease' = [x \in Sockets |-> IF x = s THEN c
                                      ELSE IF x \in dropped THEN "spent" ELSE lease[x]]

\* An HTTP request takes the socket an earlier one returned.
Reuse(s, c) ==
  /\ c \in HttpCallers
  /\ lease[s] = "kept"
  /\ ~Holding(c)
  /\ lease' = [lease EXCEPT ![s] = c]

\* An HTTP request returns its socket; at most one socket is kept.
Return(s) ==
  /\ lease[s] \in HttpCallers
  /\ Kept = {}
  /\ lease' = [lease EXCEPT ![s] = "kept"]

\* A socket is spent, or its connection is gone.
Retire(s) ==
  /\ lease[s] # "away"
  /\ \E to \in {"spent", "away"} : lease' = [lease EXCEPT ![s] = to]

Next ==
  \E s \in Sockets :
    \/ Arrive(s) \/ Return(s) \/ Retire(s)
    \/ \E c \in Callers : Grant(s, c) \/ Reuse(s, c)

Spec == Init /\ [][Next]_lease
=============================================================================

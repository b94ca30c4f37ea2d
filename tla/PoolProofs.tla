----------------------------- MODULE PoolProofs -----------------------------
(***************************************************************************)
(* Theorems about where the sockets and the callbacks of TunnelAgent are,  *)
(* for every set of sockets and callers and every limit: no two places     *)
(* share a socket, and every callback is in exactly the place its caller's *)
(* phase says.                                                             *)
(***************************************************************************)
EXTENDS TunnelAgentProofs, SequenceTheorems

-----------------------------------------------------------------------------
(* Sequences without repetition                                            *)

Distinct(seq) == \A i, j \in 1..Len(seq) : seq[i] = seq[j] => i = j

LEMMA AppendElements ==
  ASSUME NEW S, NEW seq \in Seq(S), NEW e \in S
  PROVE  /\ Elements(Append(seq, e)) = Elements(seq) \cup {e}
         /\ Distinct(seq) /\ e \notin Elements(seq) => Distinct(Append(seq, e))
<1> DEFINE more == Append(seq, e)
<1>1. Len(seq) \in Nat /\ Len(more) = Len(seq) + 1 /\ more[Len(seq) + 1] = e
  OBVIOUS
<1>2. \A i \in 1..Len(seq) : more[i] = seq[i]
  OBVIOUS
<1> HIDE DEF more
<1>3. Elements(more) = Elements(seq) \cup {e}
  BY <1>1, <1>2 DEF Elements
<1>4. ASSUME Distinct(seq), e \notin Elements(seq) PROVE Distinct(more)
  <2> SUFFICES ASSUME NEW i \in 1..Len(more), NEW j \in 1..Len(more), more[i] = more[j]
               PROVE  i = j
    BY DEF Distinct
  <2>1. CASE i \in 1..Len(seq) /\ j \in 1..Len(seq)
    BY <1>2, <1>4, <2>1 DEF Distinct
  <2>2. CASE i = Len(seq) + 1 \/ j = Len(seq) + 1
    <3>1. \A x \in 1..Len(seq) : more[x] # e
      BY <1>2, <1>4 DEF Elements
    <3>2. QED
      BY <1>1, <2>2, <3>1
  <2>3. QED
    BY <1>1, <2>1, <2>2
<1>5. QED
  BY <1>3, <1>4 DEF more

LEMMA TailElements ==
  ASSUME NEW S, NEW seq \in Seq(S), seq # <<>>, Distinct(seq)
  PROVE  /\ Distinct(Tail(seq))
         /\ Head(seq) \in Elements(seq)
         /\ Elements(Tail(seq)) = Elements(seq) \ {Head(seq)}
<1> DEFINE less == Tail(seq)
<1>1. Len(seq) \in Nat /\ Len(seq) >= 1 /\ Len(less) = Len(seq) - 1
  OBVIOUS
<1>2. Head(seq) = seq[1] /\ \A i \in 1..Len(less) : less[i] = seq[i + 1]
  OBVIOUS
<1> HIDE DEF less
<1>3. Distinct(less)
  <2> SUFFICES ASSUME NEW i \in 1..Len(less), NEW j \in 1..Len(less), less[i] = less[j]
               PROVE  i = j
    BY DEF Distinct
  <2>1. i + 1 \in 1..Len(seq) /\ j + 1 \in 1..Len(seq) /\ seq[i + 1] = seq[j + 1]
    BY <1>1, <1>2
  <2>2. i + 1 = j + 1
    BY <2>1 DEF Distinct
  <2>3. QED
    BY <2>2
<1>4. Head(seq) \in Elements(seq)
  BY <1>1, <1>2 DEF Elements
<1>5. Elements(less) \subseteq Elements(seq) \ {seq[1]}
  <2> SUFFICES ASSUME NEW i \in 1..Len(less) PROVE less[i] \in Elements(seq) /\ less[i] # seq[1]
    BY DEF Elements
  <2>1. i + 1 \in 1..Len(seq) /\ 1 \in 1..Len(seq) /\ less[i] = seq[i + 1] /\ i + 1 # 1
    BY <1>1, <1>2
  <2>2. QED
    BY <2>1 DEF Elements, Distinct
<1>6. Elements(seq) \ {seq[1]} \subseteq Elements(less)
  <2> SUFFICES ASSUME NEW i \in 1..Len(seq), seq[i] # seq[1] PROVE seq[i] \in Elements(less)
    BY DEF Elements
  <2>1. i - 1 \in 1..Len(less) /\ (i - 1) + 1 = i
    BY <1>1
  <2>2. seq[i] = less[i - 1]
    BY <1>2, <2>1
  <2>3. QED
    BY <2>1, <2>2 DEF Elements
<1>7. QED
  BY <1>2, <1>3, <1>4, <1>5, <1>6 DEF less

\* indexOf and splice take one element out, and what is left is distinct.
LEMMA SpliceElements ==
  ASSUME NEW S, NEW seq \in Seq(S), NEW idx \in 1..Len(seq), Distinct(seq)
  PROVE  LET rest == SubSeq(seq, 1, idx-1) \o SubSeq(seq, idx+1, Len(seq))
         IN Distinct(rest) /\ Elements(rest) = Elements(seq) \ {seq[idx]}
<1> DEFINE s1   == SubSeq(seq, 1, idx-1)
           s2   == SubSeq(seq, idx+1, Len(seq))
           rest == s1 \o s2
           from(i) == IF i < idx THEN i ELSE i + 1
<1>1. Len(seq) \in Nat /\ idx \in Int /\ idx >= 1 /\ idx <= Len(seq)
  OBVIOUS
<1>2. /\ s1 \in Seq(S) /\ Len(s1) = idx - 1
      /\ \A i \in 1..idx-1 : s1[i] = seq[i]
  OBVIOUS
<1>3. /\ s2 \in Seq(S) /\ Len(s2) = Len(seq) - idx
      /\ \A i \in 1..Len(seq) - idx : s2[i] = seq[idx + i]
  OBVIOUS
<1> HIDE DEF s1, s2
<1>4. /\ Len(rest) = Len(s1) + Len(s2)
      /\ \A i \in 1..Len(s1) + Len(s2) : rest[i] = IF i <= Len(s1) THEN s1[i] ELSE s2[i - Len(s1)]
  BY <1>2, <1>3, ConcatProperties
<1> HIDE DEF rest
<1>5. Len(rest) = Len(seq) - 1
  BY <1>1, <1>2, <1>3, <1>4
<1>6. ASSUME NEW i \in 1..Len(rest)
      PROVE  from(i) \in 1..Len(seq) /\ from(i) # idx /\ rest[i] = seq[from(i)]
  <2>1. i \in 1..Len(s1) + Len(s2) /\ i \in Int /\ i >= 1 /\ i <= Len(seq) - 1
    BY <1>1, <1>4, <1>5
  <2>2. CASE i < idx
    <3>1. i <= Len(s1) /\ i \in 1..idx-1
      BY <1>1, <1>2, <2>1, <2>2
    <3>2. rest[i] = seq[i]
      BY <1>2, <1>4, <2>1, <3>1
    <3>3. QED
      BY <1>1, <2>1, <2>2, <3>2
  <2>3. CASE ~(i < idx)
    <3>1. ~(i <= Len(s1)) /\ i - Len(s1) \in 1..Len(seq) - idx /\ idx + (i - Len(s1)) = i + 1
      BY <1>1, <1>2, <2>1, <2>3
    <3>2. rest[i] = s2[i - Len(s1)]
      BY <1>4, <2>1, <3>1
    <3>3. rest[i] = seq[i + 1]
      BY <1>3, <3>1, <3>2
    <3>4. QED
      BY <1>1, <2>1, <2>3, <3>3
  <2>4. QED
    BY <2>2, <2>3
<1>7. Distinct(rest)
  <2> SUFFICES ASSUME NEW i \in 1..Len(rest), NEW j \in 1..Len(rest), rest[i] = rest[j]
               PROVE  i = j
    BY DEF Distinct
  <2>1. from(i) \in 1..Len(seq) /\ from(j) \in 1..Len(seq) /\ seq[from(i)] = seq[from(j)]
    BY <1>6
  <2>2. from(i) = from(j)
    BY <2>1 DEF Distinct
  <2>3. i \in Int /\ j \in Int
    BY <1>1, <1>5
  <2>4. QED
    BY <1>1, <2>2, <2>3
<1>8. Elements(rest) \subseteq Elements(seq) \ {seq[idx]}
  <2> SUFFICES ASSUME NEW i \in 1..Len(rest)
               PROVE  rest[i] \in Elements(seq) /\ rest[i] # seq[idx]
    BY DEF Elements
  <2>1. from(i) \in 1..Len(seq) /\ from(i) # idx /\ rest[i] = seq[from(i)]
    BY <1>6
  <2> HIDE DEF from
  <2>2. QED
    BY <2>1 DEF Elements, Distinct
<1>9. Elements(seq) \ {seq[idx]} \subseteq Elements(rest)
  <2> SUFFICES ASSUME NEW i \in 1..Len(seq), i # idx PROVE seq[i] \in Elements(rest)
    BY DEF Elements
  <2> DEFINE k == IF i < idx THEN i ELSE i - 1
  <2>1. k \in 1..Len(rest) /\ from(k) = i
    BY <1>1, <1>5
  <2> HIDE DEF k, from
  <2>2. rest[k] = seq[i]
    BY <1>6, <2>1
  <2>3. QED
    BY <2>1, <2>2 DEF Elements
<1>10. QED
  BY <1>7, <1>8, <1>9 DEF rest, s1, s2

\* RemoveAvailable takes the socket out of the pool, wherever it is in it.
LEMMA RemoveElements ==
  ASSUME NEW s \in Sockets, availableSockets \in Seq(Sockets), Distinct(availableSockets),
         RemoveAvailable(s)
  PROVE  /\ Distinct(availableSockets')
         /\ Elements(availableSockets') = Elements(availableSockets) \ {s}
<1>1. CASE s \notin Elements(availableSockets) /\ UNCHANGED availableSockets
  BY <1>1
<1>2. ASSUME NEW idx \in 1..Len(availableSockets), availableSockets[idx] = s,
             availableSockets' = SubSeq(availableSockets, 1, idx-1)
                                   \o SubSeq(availableSockets, idx+1, Len(availableSockets))
      PROVE  /\ Distinct(availableSockets')
             /\ Elements(availableSockets') = Elements(availableSockets) \ {s}
  BY <1>2, SpliceElements
<1>3. QED
  BY <1>1, <1>2 DEF RemoveAvailable

-----------------------------------------------------------------------------
(* The invariant                                                           *)

Pool    == Elements(availableSockets)
Queue   == Elements(waitingCreateConn)
Pending == Elements(handoffs)

ListsDistinct ==
  Distinct(availableSockets) /\ Distinct(waitingCreateConn) /\ Distinct(handoffs)

\* No two pending timers give one socket, or serve one caller.
PendingApart ==
  \A g, h \in Pending : g.sock = h.sock \/ g.cb = h.cb => g = h

\* A caller's phase says where its callback is.
PhasesExact ==
  \A c \in Callers :
    /\ phase[c] = "queued" <=> c \in Queue
    /\ phase[c] = "promised" <=> \E h \in Pending : h.cb = c
    /\ phase[c] = "served" <=> given[c] # NoSocket

\* The pool, the timers, the callers and http.Agent's list share no socket.
PlacesApart ==
  /\ Pool \cap free = {}
  /\ \A s \in Pool \cup free : \A h \in Pending : h.sock # s
  /\ \A s \in Pool \cup free : \A c \in Callers : given[c] # s
  /\ \A h \in Pending, c \in Callers : given[c] # h.sock
  /\ \A c, d \in Callers : given[c] = given[d] /\ given[c] # NoSocket => c = d

PoolInv == ListsDistinct /\ PendingApart /\ PhasesExact /\ PlacesApart /\ PoolIsConnected

LEMMA InitPool == Init => PoolInv
<1> SUFFICES ASSUME Init PROVE PoolInv
  OBVIOUS
<1>1. availableSockets = <<>> /\ waitingCreateConn = <<>> /\ handoffs = <<>> /\ free = {}
  BY DEF Init
<1>2. Pool = {} /\ Queue = {} /\ Pending = {}
  BY <1>1 DEF Pool, Queue, Pending, Elements
<1>3. ListsDistinct
  BY <1>1 DEF ListsDistinct, Distinct
<1>4. PhasesExact
  BY <1>2 DEF Init, PhasesExact
<1>5. PlacesApart
  BY <1>1, <1>2 DEF Init, PlacesApart
<1>6. PendingApart /\ PoolIsConnected
  BY <1>1, <1>2 DEF PendingApart, PoolIsConnected, Pool
<1>7. QED
  BY <1>3, <1>4, <1>5, <1>6 DEF PoolInv

\* The elements of the three lists are sockets, callers and handoffs.
LEMMA ElementTypes ==
  ASSUME TypeOK
  PROVE  Pool \subseteq Sockets /\ Queue \subseteq Callers /\ Pending \subseteq Handoff
BY DEF TypeOK, Pool, Queue, Pending, Elements

\* A step that moves no socket and no callback.
LEMMA StillPool ==
  ASSUME PoolInv, UNCHANGED <<availableSockets, waitingCreateConn, handoffs, phase, given, free>>,
         Accepted \subseteq Accepted'
  PROVE  PoolInv'
<1>1. Pool' = Pool /\ Queue' = Queue /\ Pending' = Pending
  BY DEF Pool, Queue, Pending
<1>2. (ListsDistinct /\ PendingApart /\ PhasesExact /\ PlacesApart)'
  BY <1>1 DEF PoolInv, ListsDistinct, PendingApart, PhasesExact, PlacesApart
<1>3. PoolIsConnected'
  BY DEF PoolInv, PoolIsConnected
<1>4. QED
  BY <1>2, <1>3 DEF PoolInv

\* A name that can stand for a new connection is in no place.
LEMMA ConnectableFree ==
  ASSUME TypeOK, NEW s \in Sockets, Connectable(s)
  PROVE  /\ s \notin Pool \cup free
         /\ \A h \in Pending : h.sock # s
         /\ \A c \in Callers : given[c] # s
BY DEF Connectable, Referenced, Pool, Pending, Elements

LEMMA AcceptPool ==
  ASSUME TypeOK, PoolInv, NEW s \in Sockets, Accept(s)
  PROVE  PoolInv'
<1>0. /\ s \notin Pool \cup free
      /\ \A h \in Pending : h.sock # s
      /\ \A c \in Callers : given[c] # s
  BY ConnectableFree DEF Accept
<1>1. Accepted' = Accepted \cup {s} /\ UNCHANGED <<given, free>>
  BY DEF Accept, Connectable, Accepted, TypeOK
<1>2. CASE waitingCreateConn # <<>>
  <2> DEFINE c == Head(waitingCreateConn)
             h == [cb |-> c, sock |-> s]
  <2>1. /\ waitingCreateConn' = Tail(waitingCreateConn)
        /\ handoffs' = Append(handoffs, h)
        /\ phase' = [phase EXCEPT ![c] = "promised"]
        /\ availableSockets' = availableSockets
    BY <1>2 DEF Accept
  <2>2. c \in Queue /\ Queue' = Queue \ {c} /\ Distinct(waitingCreateConn')
    BY <1>2, <2>1, TailElements DEF TypeOK, PoolInv, ListsDistinct, Queue
  <2>3. c \in Callers /\ h \in Handoff
    BY <2>2, ElementTypes DEF Handoff
  <2> HIDE DEF c
  <2>4. phase[c] = "queued"
    BY <2>2, <2>3 DEF PoolInv, PhasesExact
  <2>5. \A g \in Pending : g.cb # c
    BY <2>3, <2>4 DEF PoolInv, PhasesExact
  <2>6. h.cb = c /\ h.sock = s
    OBVIOUS
  <2> HIDE DEF h
  <2>7. h \notin Pending
    BY <2>5, <2>6
  <2>8. Pending' = Pending \cup {h} /\ Distinct(handoffs')
    BY <2>1, <2>3, <2>7, AppendElements DEF TypeOK, PoolInv, ListsDistinct, Pending
  <2>9. Pool' = Pool
    BY <2>1 DEF Pool
  <2>10. ListsDistinct'
    BY <2>1, <2>2, <2>8 DEF PoolInv, ListsDistinct
  <2>11. PendingApart'
    BY <1>0, <2>5, <2>6, <2>8 DEF PoolInv, PendingApart
  <2>12. PhasesExact'
    <3> SUFFICES ASSUME NEW d \in Callers
                 PROVE  /\ phase'[d] = "queued" <=> d \in Queue'
                        /\ phase'[d] = "promised" <=> \E g \in Pending' : g.cb = d
                        /\ phase'[d] = "served" <=> given'[d] # NoSocket
      BY DEF PhasesExact
    <3>1. CASE d = c
      <4>1. phase'[d] = "promised" /\ given[d] = NoSocket
        BY <2>1, <2>4, <3>1 DEF TypeOK, PoolInv, PhasesExact
      <4>2. QED
        BY <1>1, <2>2, <2>6, <2>8, <3>1, <4>1
    <3>2. CASE d # c
      <4>1. phase'[d] = phase[d]
        BY <2>1, <3>2 DEF TypeOK
      <4>2. QED
        BY <1>1, <2>2, <2>6, <2>8, <3>2, <4>1 DEF PoolInv, PhasesExact
    <3>3. QED
      BY <3>1, <3>2
  <2>13. PlacesApart'
    BY <1>0, <1>1, <2>6, <2>8, <2>9 DEF PoolInv, PlacesApart
  <2>14. PoolIsConnected'
    BY <1>1, <2>1 DEF PoolInv, PoolIsConnected
  <2>15. QED
    BY <2>10, <2>11, <2>12, <2>13, <2>14 DEF PoolInv
<1>3. CASE waitingCreateConn = <<>>
  <2>1. /\ availableSockets' = Append(availableSockets, s)
        /\ UNCHANGED <<waitingCreateConn, handoffs, phase>>
    BY <1>3 DEF Accept
  <2>2. Pool' = Pool \cup {s} /\ Distinct(availableSockets')
    BY <1>0, <2>1, AppendElements DEF TypeOK, PoolInv, ListsDistinct, Pool
  <2>3. Queue' = Queue /\ Pending' = Pending
    BY <2>1 DEF Queue, Pending
  <2>4. ListsDistinct' /\ PendingApart' /\ PhasesExact'
    BY <1>1, <2>1, <2>2, <2>3 DEF PoolInv, ListsDistinct, PendingApart, PhasesExact
  <2>5. PlacesApart'
    BY <1>0, <1>1, <2>2, <2>3 DEF PoolInv, PlacesApart
  <2>6. PoolIsConnected'
    BY <1>1, <2>2 DEF PoolInv, PoolIsConnected, Pool
  <2>7. QED
    BY <2>4, <2>5, <2>6 DEF PoolInv
<1>4. QED
  BY <1>2, <1>3

LEMMA ClosedPool ==
  ASSUME TypeOK, PoolInv, NEW s \in Sockets, SocketClosed(s)
  PROVE  PoolInv'
<1>1. /\ UNCHANGED <<waitingCreateConn, handoffs>>
      /\ free' = free \ {s}
      /\ phase' = [c \in Callers |-> IF given[c] = s THEN "failed" ELSE phase[c]]
      /\ given' = [c \in Callers |-> IF given[c] = s THEN NoSocket ELSE given[c]]
  BY DEF SocketClosed
<1>2. Pool' = Pool \ {s} /\ Distinct(availableSockets')
  BY RemoveElements DEF SocketClosed, TypeOK, PoolInv, ListsDistinct, Pool
<1>3. Queue' = Queue /\ Pending' = Pending
  BY <1>1 DEF Queue, Pending
<1>4. Accepted' = Accepted \ {s}
  BY DEF SocketClosed, Accepted, TypeOK
<1>5. ListsDistinct' /\ PendingApart'
  BY <1>1, <1>2, <1>3 DEF PoolInv, ListsDistinct, PendingApart
<1>6. PhasesExact'
  <2> SUFFICES ASSUME NEW c \in Callers
               PROVE  /\ phase'[c] = "queued" <=> c \in Queue
                      /\ phase'[c] = "promised" <=> \E h \in Pending : h.cb = c
                      /\ phase'[c] = "served" <=> given'[c] # NoSocket
    BY <1>3 DEF PhasesExact
  <2>1. CASE given[c] = s
    <3>1. phase[c] = "served" /\ phase'[c] = "failed" /\ given'[c] = NoSocket
      BY <1>1, <2>1, AgentAssumption DEF PoolInv, PhasesExact
    <3>2. QED
      BY <3>1 DEF PoolInv, PhasesExact
  <2>2. CASE given[c] # s
    BY <1>1, <2>2 DEF PoolInv, PhasesExact
  <2>3. QED
    BY <2>1, <2>2
<1>7. PlacesApart'
  <2>1. \A c \in Callers : given'[c] = given[c] \/ given'[c] = NoSocket
    BY <1>1
  <2>2. Pool' \cup free' \subseteq Pool \cup free /\ Pool' \cap free' = {}
    BY <1>1, <1>2 DEF PoolInv, PlacesApart
  <2>3. NoSocket \notin Pool \cup free /\ \A h \in Pending : h.sock # NoSocket
    BY ElementTypes, AgentAssumption DEF TypeOK, Handoff
  <2>4. QED
    BY <1>3, <2>1, <2>2, <2>3 DEF PoolInv, PlacesApart
<1>8. PoolIsConnected'
  BY <1>1, <1>2, <1>4 DEF PoolInv, PoolIsConnected, Pool
<1>9. QED
  BY <1>5, <1>6, <1>7, <1>8 DEF PoolInv

\* The shift() of createConnection and handleUpgrade takes the first socket.
LEMMA ShiftPool ==
  ASSUME TypeOK, PoolInv, availableSockets # <<>>, availableSockets' = Tail(availableSockets)
  PROVE  /\ Head(availableSockets) \in Pool
         /\ Head(availableSockets) \in Sockets
         /\ Pool' = Pool \ {Head(availableSockets)}
         /\ Distinct(availableSockets')
<1>1. availableSockets \in Seq(Sockets) /\ Distinct(availableSockets)
  BY DEF TypeOK, PoolInv, ListsDistinct
<1>2. QED
  BY <1>1, TailElements, ElementTypes DEF Pool

\* A caller with no business pending is in no place.
LEMMA ReadyNowhere ==
  ASSUME TypeOK, PoolInv, NEW c \in Callers, Ready(c)
  PROVE  c \notin Queue /\ given[c] = NoSocket /\ \A h \in Pending : h.cb # c
BY DEF Ready, PoolInv, PhasesExact

\* A socket nobody else holds passes to a caller that held none.
LEMMA GivePlaces ==
  ASSUME TypeOK, PoolInv, NEW c \in Callers, NEW s \in Sockets, given[c] = NoSocket,
         given' = [given EXCEPT ![c] = s],
         \A d \in Callers : given[d] # s,
         s \notin Pool' \cup free', \A h \in Pending' : h.sock # s,
         Pool' \subseteq Pool, free' \subseteq free, Pending' \subseteq Pending
  PROVE  PlacesApart'
<1>1. \A d \in Callers : given'[d] = IF d = c THEN s ELSE given[d]
  BY DEF TypeOK
<1>2. QED
  BY <1>1 DEF PoolInv, PlacesApart

LEMMA CreatePool ==
  ASSUME TypeOK, PoolInv, NEW c \in Callers, Ready(c), CreateConnection(c),
         UNCHANGED handoffs, Accepted' = Accepted, free' \subseteq free
  PROVE  PoolInv'
<1>0. c \notin Queue /\ given[c] = NoSocket /\ \A h \in Pending : h.cb # c
  BY ReadyNowhere
<1>1. Pending' = Pending /\ PendingApart' /\ Distinct(handoffs')
  BY DEF Pending, PoolInv, PendingApart, ListsDistinct
<1>2. PhasesExact
  BY DEF PoolInv
<1>3. CASE /\ phase' = [phase EXCEPT ![c] = "failed"]
           /\ UNCHANGED <<availableSockets, waitingCreateConn, given>>
  <2>1. Pool' = Pool /\ Queue' = Queue
    BY <1>3 DEF Pool, Queue
  <2>2. \A d \in Callers : phase'[d] = IF d = c THEN "failed" ELSE phase[d]
    BY <1>3 DEF TypeOK
  <2>3. PhasesExact'
    BY <1>0, <1>1, <1>2, <1>3, <2>1, <2>2 DEF PhasesExact
  <2>4. PlacesApart'
    BY <1>1, <1>3, <2>1 DEF PoolInv, PlacesApart
  <2>5. ListsDistinct' /\ PoolIsConnected'
    BY <1>1, <1>3 DEF PoolInv, ListsDistinct, PoolIsConnected
  <2>6. QED
    BY <1>1, <2>3, <2>4, <2>5 DEF PoolInv
<1>4. CASE /\ availableSockets # <<>>
           /\ availableSockets' = Tail(availableSockets)
           /\ phase' = [phase EXCEPT ![c] = "served"]
           /\ given' = [given EXCEPT ![c] = Head(availableSockets)]
           /\ UNCHANGED waitingCreateConn
  <2> DEFINE s == Head(availableSockets)
  <2>1. s \in Pool /\ s \in Sockets /\ Pool' = Pool \ {s} /\ Distinct(availableSockets')
    BY <1>4, ShiftPool
  <2>2. Queue' = Queue /\ given' = [given EXCEPT ![c] = s]
    BY <1>4 DEF Queue
  <2> HIDE DEF s
  <2>3. /\ \A d \in Callers : phase'[d] = IF d = c THEN "served" ELSE phase[d]
        /\ \A d \in Callers : given'[d] = IF d = c THEN s ELSE given[d]
    BY <1>4, <2>2 DEF TypeOK
  <2>4. s # NoSocket
    BY <2>1, AgentAssumption
  <2>5. PhasesExact'
    BY <1>0, <1>1, <1>2, <2>2, <2>3, <2>4 DEF PhasesExact
  <2>6. /\ \A d \in Callers : given[d] # s
        /\ s \notin free /\ \A h \in Pending : h.sock # s
    BY <2>1 DEF PoolInv, PlacesApart
  <2>7. PlacesApart'
    BY <1>0, <1>1, <2>1, <2>2, <2>6, GivePlaces
  <2>8. ListsDistinct' /\ PoolIsConnected'
    BY <1>1, <1>4, <2>1 DEF PoolInv, ListsDistinct, PoolIsConnected, Pool
  <2>9. QED
    BY <1>1, <2>5, <2>7, <2>8 DEF PoolInv
<1>5. CASE /\ waitingCreateConn' = Append(waitingCreateConn, c)
           /\ phase' = [phase EXCEPT ![c] = "queued"]
           /\ UNCHANGED <<availableSockets, given>>
  <2>1. waitingCreateConn \in Seq(Callers) /\ Distinct(waitingCreateConn)
    BY DEF TypeOK, PoolInv, ListsDistinct
  <2>2. Queue' = Queue \cup {c} /\ Distinct(waitingCreateConn')
    BY <1>0, <1>5, <2>1, AppendElements DEF Queue
  <2>3. Pool' = Pool
    BY <1>5 DEF Pool
  <2>4. \A d \in Callers : phase'[d] = IF d = c THEN "queued" ELSE phase[d]
    BY <1>5 DEF TypeOK
  <2>5. PhasesExact'
    BY <1>0, <1>1, <1>2, <1>5, <2>2, <2>4 DEF PhasesExact
  <2>6. PlacesApart'
    BY <1>1, <1>5, <2>3 DEF PoolInv, PlacesApart
  <2>7. ListsDistinct' /\ PoolIsConnected'
    BY <1>1, <1>5, <2>2 DEF PoolInv, ListsDistinct, PoolIsConnected
  <2>8. QED
    BY <1>1, <2>5, <2>6, <2>7 DEF PoolInv
<1>6. QED
  BY <1>3, <1>4, <1>5 DEF CreateConnection

LEMMA UpgradeGonePool ==
  ASSUME TypeOK, PoolInv, NEW c \in Callers, UpgradeGone(c)
  PROVE  PoolInv'
<1>1. /\ availableSockets # <<>> /\ availableSockets' = Tail(availableSockets)
      /\ phase' = [phase EXCEPT ![c] = "failed"]
      /\ UNCHANGED <<waitingCreateConn, handoffs, given, free>>
  BY DEF UpgradeGone
<1>2. c \notin Queue /\ given[c] = NoSocket /\ \A h \in Pending : h.cb # c
  BY ReadyNowhere DEF UpgradeGone
<1>3. Pool' = Pool \ {Head(availableSockets)} /\ Distinct(availableSockets')
  BY <1>1, ShiftPool
<1>4. Queue' = Queue /\ Pending' = Pending
  BY <1>1 DEF Queue, Pending
<1>5. Accepted' = Accepted
  BY DestroyedAccepted DEF UpgradeGone
<1>6. ListsDistinct' /\ PendingApart' /\ PoolIsConnected'
  BY <1>1, <1>3, <1>4, <1>5 DEF PoolInv, ListsDistinct, PendingApart, PoolIsConnected, Pool
<1>7. \A d \in Callers : phase'[d] = IF d = c THEN "failed" ELSE phase[d]
  BY <1>1 DEF TypeOK
<1>8. PhasesExact'
  BY <1>1, <1>2, <1>4, <1>7 DEF PoolInv, PhasesExact
<1>9. PlacesApart'
  BY <1>1, <1>3, <1>4 DEF PoolInv, PlacesApart
<1>10. QED
  BY <1>6, <1>8, <1>9 DEF PoolInv

LEMMA ReusePool ==
  ASSUME TypeOK, PoolInv, NEW c \in Callers, HttpReuse(c)
  PROVE  PoolInv'
<1>1. PICK s \in free : /\ free' = free \ {s}
                        /\ phase' = [phase EXCEPT ![c] = "served"]
                        /\ given' = [given EXCEPT ![c] = s]
  BY DEF HttpReuse
<1>2. UNCHANGED <<sockState, availableSockets, waitingCreateConn, handoffs>>
  BY DEF HttpReuse, poolVars
<1>3. c \notin Queue /\ given[c] = NoSocket /\ \A h \in Pending : h.cb # c
  BY ReadyNowhere DEF HttpReuse
<1>4. Pool' = Pool /\ Queue' = Queue /\ Pending' = Pending /\ Accepted' = Accepted
  BY <1>2 DEF Pool, Queue, Pending, Accepted
<1>5. ListsDistinct' /\ PendingApart' /\ PoolIsConnected'
  BY <1>1, <1>2, <1>4 DEF PoolInv, ListsDistinct, PendingApart, PoolIsConnected
<1>6. s \in Sockets /\ s # NoSocket
  BY AgentAssumption DEF TypeOK
<1>7. /\ \A d \in Callers : phase'[d] = IF d = c THEN "served" ELSE phase[d]
      /\ \A d \in Callers : given'[d] = IF d = c THEN s ELSE given[d]
  BY <1>1 DEF TypeOK
<1>8. PhasesExact'
  BY <1>3, <1>4, <1>6, <1>7 DEF PoolInv, PhasesExact
<1>9. /\ \A d \in Callers : given[d] # s
      /\ s \notin Pool /\ \A h \in Pending : h.sock # s
  BY DEF PoolInv, PlacesApart
<1>10. PlacesApart'
  BY <1>1, <1>3, <1>4, <1>6, <1>9, GivePlaces
<1>11. QED
  BY <1>5, <1>8, <1>10 DEF PoolInv

\* The caller lets its socket go; http.Agent's list may take it.
LEMMA FinishPool ==
  ASSUME TypeOK, PoolInv, NEW c \in Callers, FinishKeep(c) \/ FinishDestroy(c)
  PROVE  PoolInv'
<1>1. /\ phase[c] = "served"
      /\ phase' = [phase EXCEPT ![c] = "idle"]
      /\ given' = [given EXCEPT ![c] = NoSocket]
      /\ UNCHANGED <<availableSockets, waitingCreateConn, handoffs>>
  BY DEF FinishKeep, FinishDestroy, poolVars
<1>2. Accepted' = Accepted
  <2>1. CASE FinishKeep(c)
    BY <2>1 DEF FinishKeep, Accepted
  <2>2. CASE FinishDestroy(c)
    BY <2>2, DestroyedAccepted DEF FinishDestroy
  <2>3. QED
    BY <2>1, <2>2
<1>3. \/ free' = free
      \/ free' = free \cup {given[c]} /\ given[c] \in Accepted
  BY DEF FinishKeep, FinishDestroy, Accepted
<1>4. Pool' = Pool /\ Queue' = Queue /\ Pending' = Pending
  BY <1>1 DEF Pool, Queue, Pending
<1>5. ListsDistinct' /\ PendingApart' /\ PoolIsConnected'
  BY <1>1, <1>2, <1>3, <1>4 DEF PoolInv, ListsDistinct, PendingApart, PoolIsConnected
<1>6. /\ \A d \in Callers : phase'[d] = IF d = c THEN "idle" ELSE phase[d]
      /\ \A d \in Callers : given'[d] = IF d = c THEN NoSocket ELSE given[d]
  BY <1>1 DEF TypeOK
<1>7. PhasesExact'
  BY <1>1, <1>4, <1>6 DEF PoolInv, PhasesExact
<1>8. given[c] # NoSocket
  BY <1>1 DEF PoolInv, PhasesExact
<1>9. NoSocket \notin Pool \cup free' /\ \A h \in Pending : h.sock # NoSocket
  BY <1>3, <1>8, ElementTypes, AgentAssumption DEF TypeOK, Handoff
<1>10. PlacesApart'
  <2>1. CASE free' = free
    BY <1>4, <1>6, <1>9, <2>1 DEF PoolInv, PlacesApart
  <2>2. CASE free' = free \cup {given[c]}
    BY <1>4, <1>6, <1>8, <1>9, <2>2 DEF PoolInv, PlacesApart
  <2>3. QED
    BY <1>3, <2>1, <2>2
<1>11. QED
  BY <1>5, <1>7, <1>10 DEF PoolInv

LEMMA HandoffPool ==
  ASSUME TypeOK, PoolInv, FireHandoff
  PROVE  PoolInv'
<1> DEFINE h == Head(handoffs)
           c == h.cb
           s == h.sock
<1>1. handoffs # <<>> /\ handoffs' = Tail(handoffs)
      /\ UNCHANGED <<availableSockets, waitingCreateConn, free>>
  BY DEF FireHandoff
<1>2. h \in Pending /\ Pending' = Pending \ {h} /\ Distinct(handoffs')
  <2>1. handoffs \in Seq(Handoff) /\ Distinct(handoffs)
    BY DEF TypeOK, PoolInv, ListsDistinct
  <2>2. QED
    BY <1>1, <2>1, TailElements DEF Pending
<1>3. c \in Callers /\ s \in Sockets
  BY <1>2, ElementTypes DEF Handoff
<1>4. \/ /\ phase' = [phase EXCEPT ![c] = "served"]
         /\ given' = [given EXCEPT ![c] = s]
         /\ UNCHANGED sockState
      \/ /\ phase' = [phase EXCEPT ![c] = "failed"]
         /\ sockState' = Destroyed({s})
         /\ UNCHANGED given
  BY DEF FireHandoff
<1>5. \A g \in Pending : g.cb = c \/ g.sock = s => g = h
  BY <1>2 DEF PoolInv, PendingApart
<1>6. phase[c] = "promised"
  BY <1>2, <1>3 DEF PoolInv, PhasesExact
<1> HIDE DEF h, c, s
<1>7. c \notin Queue /\ given[c] = NoSocket
  BY <1>3, <1>6 DEF PoolInv, PhasesExact
<1>8. Pool' = Pool /\ Queue' = Queue
  BY <1>1 DEF Pool, Queue
<1>9. Accepted' = Accepted
  <2>1. CASE UNCHANGED sockState
    BY <2>1 DEF Accepted
  <2>2. CASE sockState' = Destroyed({s})
    BY <2>2, DestroyedAccepted
  <2>3. QED
    BY <1>4, <2>1, <2>2
<1>10. ListsDistinct' /\ PendingApart' /\ PoolIsConnected'
  BY <1>1, <1>2, <1>9 DEF PoolInv, ListsDistinct, PendingApart, PoolIsConnected
<1>11. /\ \A d \in Callers : given[d] # s
       /\ s \notin Pool \cup free
  BY <1>2, <1>3 DEF PoolInv, PlacesApart, s
<1>12. \A d \in Callers : d # c => phase'[d] = phase[d] /\ given'[d] = given[d]
  BY <1>4 DEF TypeOK
<1>13. \A d \in Callers : d # c => ((\E g \in Pending' : g.cb = d) <=> \E g \in Pending : g.cb = d)
  BY <1>2 DEF c
<1>14. \A g \in Pending' : g.cb # c /\ g.sock # s
  BY <1>2, <1>5
<1>15. PhasesExact'
  <2> SUFFICES ASSUME NEW d \in Callers
               PROVE  /\ phase'[d] = "queued" <=> d \in Queue
                      /\ phase'[d] = "promised" <=> \E g \in Pending' : g.cb = d
                      /\ phase'[d] = "served" <=> given'[d] # NoSocket
    BY <1>8 DEF PhasesExact
  <2>1. CASE d # c
    BY <1>12, <1>13, <2>1 DEF PoolInv, PhasesExact
  <2>2. CASE d = c
    <3>1. \/ phase'[c] = "served" /\ given'[c] = s
          \/ phase'[c] = "failed" /\ given'[c] = NoSocket
      BY <1>3, <1>4, <1>7 DEF TypeOK
    <3>2. QED
      BY <1>3, <1>7, <1>14, <2>2, <3>1, AgentAssumption
  <2>3. QED
    BY <2>1, <2>2
<1>16. PlacesApart'
  <2>1. CASE given' = [given EXCEPT ![c] = s]
    BY <1>1, <1>2, <1>3, <1>7, <1>8, <1>11, <1>14, <2>1, GivePlaces
  <2>2. CASE UNCHANGED given
    BY <1>1, <1>2, <1>8, <2>2 DEF PoolInv, PlacesApart
  <2>3. QED
    BY <1>4, <2>1, <2>2
<1>17. QED
  BY <1>10, <1>15, <1>16 DEF PoolInv

\* The flush of _onClose: those who waited have failed, the rest is untouched.
LEMMA FlushPool ==
  ASSUME TypeOK, PoolInv, ServerClose
  PROVE  PoolInv'
<1>1. /\ waitingCreateConn' = <<>>
      /\ phase' = [c \in Callers |-> IF c \in Queue THEN "failed" ELSE phase[c]]
      /\ UNCHANGED <<sockState, availableSockets, handoffs, given, free>>
  BY DEF ServerClose, Queue
<1>2. Pool' = Pool /\ Queue' = {} /\ Pending' = Pending /\ Accepted' = Accepted
  BY <1>1 DEF Pool, Queue, Pending, Elements, Accepted
<1>3. ListsDistinct' /\ PendingApart' /\ PlacesApart' /\ PoolIsConnected'
  BY <1>1, <1>2 DEF PoolInv, ListsDistinct, Distinct, PendingApart, PlacesApart, PoolIsConnected
<1>4. PhasesExact'
  BY <1>1, <1>2 DEF PoolInv, PhasesExact
<1>5. QED
  BY <1>3, <1>4 DEF PoolInv

LEMMA StepPool == TypeOK /\ PoolInv /\ [Next]_vars => PoolInv'
<1> SUFFICES ASSUME TypeOK, PoolInv, [Next]_vars PROVE PoolInv'
  OBVIOUS
<1> USE DEF poolVars, callerVars
<1>1. CASE Listen \/ Bound
  BY <1>1, StillPool DEF Listen, Bound, Accepted
<1>2. CASE Destroy
  BY <1>2, StillPool, DestroyedAccepted DEF Destroy
<1>3. CASE ServerClose
  BY <1>3, FlushPool
<1>4. CASE FireHandoff
  BY <1>4, HandoffPool
<1>5. ASSUME NEW s \in Sockets, SocketNext(s) PROVE PoolInv'
  <2>1. CASE Refuse(s) \/ RefusedClosed(s) \/ Disconnect(s)
    <3>1. Accepted \subseteq Accepted'
      BY <2>1 DEF Refuse, RefusedClosed, Disconnect, Connectable, Accepted, TypeOK
    <3>2. QED
      BY <2>1, <3>1, StillPool DEF Refuse, RefusedClosed, Disconnect
  <2>2. CASE Accept(s)
    BY <2>2, AcceptPool
  <2>3. CASE SocketClosed(s)
    BY <2>3, ClosedPool
  <2>4. QED
    BY <1>5, <2>1, <2>2, <2>3 DEF SocketNext
<1>6. ASSUME NEW c \in Callers, CallerNext(c) PROVE PoolInv'
  <2>1. CASE Upgrade(c) \/ HttpRequest(c)
    BY <2>1, CreatePool DEF Upgrade, HttpRequest, Accepted
  <2>2. CASE UpgradeGone(c)
    BY <2>2, UpgradeGonePool
  <2>3. CASE HttpReuse(c)
    BY <2>3, ReusePool
  <2>4. CASE Abandon(c)
    BY <2>4, StillPool DEF Abandon, Accepted
  <2>5. CASE FinishKeep(c) \/ FinishDestroy(c)
    BY <2>5, FinishPool
  <2>6. QED
    BY <1>6, <2>1, <2>2, <2>3, <2>4, <2>5 DEF CallerNext
<1>7. CASE UNCHANGED vars
  BY <1>7, StillPool DEF vars, Accepted
<1>8. QED
  BY <1>1, <1>2, <1>3, <1>4, <1>5, <1>6, <1>7 DEF Next

LEMMA PoolInvariant == Spec => []PoolInv
BY InitPool, StepPool, TypeCorrect, PTL DEF Spec

-----------------------------------------------------------------------------
(* What follows from it                                                    *)

\* A set with at most one element, counted.
LEMMA AtMostOne ==
  ASSUME NEW S, \A x, y \in S : x = y
  PROVE  Cardinality(S) = IF S = {} THEN 0 ELSE 1
<1>1. CASE S = {}
  BY <1>1, FS_EmptySet
<1>2. ASSUME NEW x \in S PROVE Cardinality(S) = 1
  <2>1. S = {x}
    OBVIOUS
  <2>2. QED
    BY <2>1, FS_Singleton
<1>3. QED
  BY <1>1, <1>2

LEMMA PoolExclusive == TypeOK /\ PoolInv => ExclusiveSockets
<1> SUFFICES ASSUME TypeOK, PoolInv, NEW s \in Sockets PROVE Cardinality(Places(s)) <= 1
  BY DEF ExclusiveSockets
<1> DEFINE inPool == {<<"pool", i>> : i \in {j \in 1..Len(availableSockets) : availableSockets[j] = s}}
           inHand == {<<"handoff", i>> : i \in {j \in 1..Len(handoffs) : handoffs[j].sock = s}}
           inUse  == {<<"given", c>> : c \in {d \in Callers : given[d] = s}}
           inFree == {<<"free", 0>> : x \in {y \in free : y = s}}
<1>1. \A x, y \in inPool : x = y
  BY DEF PoolInv, ListsDistinct, Distinct
<1>2. \A x, y \in inHand : x = y
  <2> SUFFICES ASSUME NEW i \in 1..Len(handoffs), handoffs[i].sock = s,
                      NEW j \in 1..Len(handoffs), handoffs[j].sock = s
               PROVE  i = j
    OBVIOUS
  <2>1. handoffs[i] \in Pending /\ handoffs[j] \in Pending
    BY DEF Pending, Elements
  <2>2. handoffs[i] = handoffs[j]
    BY <2>1 DEF PoolInv, PendingApart
  <2>3. QED
    BY <2>2 DEF PoolInv, ListsDistinct, Distinct
<1>3. \A x, y \in inUse : x = y
  BY AgentAssumption DEF PoolInv, PlacesApart
<1>4. \A x, y \in inFree : x = y
  OBVIOUS
<1>5. /\ inPool # {} => s \in Pool
      /\ inHand # {} => \E h \in Pending : h.sock = s
      /\ inUse # {} => \E c \in Callers : given[c] = s
      /\ inFree # {} => s \in free
  BY DEF Pool, Pending, Elements
<1>6. Places(s) = inPool \cup inHand \cup inUse \cup inFree
  BY DEF Places
<1> HIDE DEF inPool, inHand, inUse, inFree
<1>7. /\ inPool # {} => inHand = {} /\ inUse = {} /\ inFree = {}
      /\ inHand # {} => inUse = {} /\ inFree = {}
      /\ inUse # {} => inFree = {}
  BY <1>5 DEF PoolInv, PlacesApart
<1>8. \A x, y \in Places(s) : x = y
  BY <1>1, <1>2, <1>3, <1>4, <1>6, <1>7
<1>9. QED
  BY <1>8, AtMostOne

\* No socket is in two places at once or twice in one, whatever closes,
\* timeouts, handoffs and requests interleave: two requests are never written
\* to one tunnel connection.
THEOREM ExclusiveCorrect == Spec => []ExclusiveSockets
BY PoolExclusive, PoolInvariant, TypeCorrect, PTL

LEMMA PoolCallbacks == TypeOK /\ PoolInv => CallbackOnce
<1> SUFFICES ASSUME TypeOK, PoolInv, NEW c \in Callers
             PROVE  /\ Cardinality({i \in 1..Len(waitingCreateConn) : waitingCreateConn[i] = c})
                         = (IF phase[c] = "queued" THEN 1 ELSE 0)
                    /\ Cardinality({i \in 1..Len(handoffs) : handoffs[i].cb = c})
                         = (IF phase[c] = "promised" THEN 1 ELSE 0)
                    /\ given[c] # NoSocket <=> phase[c] = "served"
  BY DEF CallbackOnce
<1> DEFINE waiting  == {i \in 1..Len(waitingCreateConn) : waitingCreateConn[i] = c}
           promised == {i \in 1..Len(handoffs) : handoffs[i].cb = c}
<1>1. \A i, j \in waiting : i = j
  BY DEF PoolInv, ListsDistinct, Distinct
<1>2. waiting # {} <=> phase[c] = "queued"
  BY DEF PoolInv, PhasesExact, Queue, Elements
<1>3. \A i, j \in promised : i = j
  <2> SUFFICES ASSUME NEW i \in 1..Len(handoffs), handoffs[i].cb = c,
                      NEW j \in 1..Len(handoffs), handoffs[j].cb = c
               PROVE  i = j
    OBVIOUS
  <2>1. handoffs[i] \in Pending /\ handoffs[j] \in Pending
    BY DEF Pending, Elements
  <2>2. handoffs[i] = handoffs[j]
    BY <2>1 DEF PoolInv, PendingApart
  <2>3. QED
    BY <2>2 DEF PoolInv, ListsDistinct, Distinct
<1>4. promised # {} <=> phase[c] = "promised"
  BY DEF PoolInv, PhasesExact, Pending, Elements
<1>5. given[c] # NoSocket <=> phase[c] = "served"
  BY DEF PoolInv, PhasesExact
<1> HIDE DEF waiting, promised
<1>6. Cardinality(waiting) = IF waiting = {} THEN 0 ELSE 1
  BY <1>1, AtMostOne
<1>7. Cardinality(promised) = IF promised = {} THEN 0 ELSE 1
  BY <1>3, AtMostOne
<1>8. QED
  BY <1>2, <1>4, <1>5, <1>6, <1>7 DEF waiting, promised

\* A createConnection callback is queued once while its caller waits and in
\* one timer once it is promised: never called twice, never forgotten.
THEOREM CallbackCorrect == Spec => []CallbackOnce
BY PoolCallbacks, PoolInvariant, TypeCorrect, PTL

-----------------------------------------------------------------------------
(* No socket is lost                                                       *)

InPlace(s) == \/ s \in Pool \cup free
              \/ \E h \in Pending : h.sock = s
              \/ \E c \in Callers : given[c] = s

LEMMA ReferencedInPlace == \A s : Referenced(s) <=> InPlace(s)
BY DEF Referenced, InPlace, Pool, Pending, Elements

\* A step that accepts no socket and takes open ones from no place.
LEMMA StillReferenced ==
  ASSUME NoSocketLost,
         \A s \in Sockets : sockState'[s] = "open" => sockState[s] = "open",
         \A s \in Sockets : sockState'[s] = "open" /\ InPlace(s) => InPlace(s)'
  PROVE  NoSocketLost'
<1>1. ASSUME NEW s \in Sockets, sockState'[s] = "open" PROVE InPlace(s)'
  BY <1>1, ReferencedInPlace DEF NoSocketLost
<1>2. \A s : Referenced(s)' <=> InPlace(s)'
  BY DEF Referenced, InPlace, Pool, Pending, Elements
<1>3. QED
  BY <1>1, <1>2 DEF NoSocketLost

LEMMA DestroyedOpen ==
  ASSUME NEW S, sockState' = Destroyed(S)
  PROVE  \A s \in Sockets : sockState'[s] = "open" => sockState[s] = "open" /\ s \notin S
BY DEF Destroyed

LEMMA AcceptLost ==
  ASSUME TypeOK, PoolInv, NoSocketLost, NEW s \in Sockets, Accept(s)
  PROVE  NoSocketLost'
<1>1. /\ sockState' = [sockState EXCEPT ![s] = "open"]
      /\ UNCHANGED <<given, free>>
  BY DEF Accept
<1>2. availableSockets \in Seq(Sockets) /\ handoffs \in Seq(Handoff)
  BY DEF TypeOK
<1>3. Pool \subseteq Pool' /\ Pending \subseteq Pending' /\ InPlace(s)'
  <2>1. CASE /\ waitingCreateConn # <<>>
             /\ handoffs' = Append(handoffs, [cb |-> Head(waitingCreateConn), sock |-> s])
             /\ UNCHANGED availableSockets
    <3> DEFINE h == [cb |-> Head(waitingCreateConn), sock |-> s]
    <3>1. waitingCreateConn \in Seq(Callers) /\ Head(waitingCreateConn) \in Callers
      BY <2>1 DEF TypeOK
    <3>2. h \in Handoff /\ h.sock = s
      BY <3>1 DEF Handoff
    <3> HIDE DEF h
    <3>3. Pending' = Pending \cup {h} /\ Pool' = Pool
      BY <1>2, <2>1, <3>2, AppendElements DEF Pending, Pool, h
    <3>4. QED
      BY <3>2, <3>3 DEF InPlace
  <2>2. CASE availableSockets' = Append(availableSockets, s) /\ UNCHANGED handoffs
    <3>1. Pool' = Pool \cup {s} /\ Pending' = Pending
      BY <1>2, <2>2, AppendElements DEF Pending, Pool
    <3>2. QED
      BY <3>1 DEF InPlace
  <2>3. QED
    BY <2>1, <2>2 DEF Accept
<1>4. ASSUME NEW x \in Sockets, sockState'[x] = "open" PROVE InPlace(x)'
  <2>1. CASE x = s
    BY <1>3, <2>1
  <2>2. CASE x # s
    <3>1. InPlace(x)
      BY <1>1, <1>4, <2>2, ReferencedInPlace DEF NoSocketLost, TypeOK
    <3>2. QED
      BY <1>1, <1>3, <3>1 DEF InPlace
  <2>3. QED
    BY <2>1, <2>2
<1>5. \A x : Referenced(x)' <=> InPlace(x)'
  BY DEF Referenced, InPlace, Pool, Pending, Elements
<1>6. QED
  BY <1>4, <1>5 DEF NoSocketLost

LEMMA ClosedLost ==
  ASSUME TypeOK, PoolInv, NoSocketLost, NEW s \in Sockets, SocketClosed(s)
  PROVE  NoSocketLost'
<1>1. availableSockets \in Seq(Sockets) /\ Distinct(availableSockets)
  BY DEF TypeOK, PoolInv, ListsDistinct
<1>2. Pool' = Pool \ {s} /\ Pending' = Pending
  BY <1>1, RemoveElements DEF SocketClosed, Pool, Pending
<1>3. /\ sockState' = [sockState EXCEPT ![s] = "away"]
      /\ free' = free \ {s}
      /\ \A c \in Callers : given[c] # s => given'[c] = given[c]
  BY DEF SocketClosed
<1>4. \A x \in Sockets : sockState'[x] = "open" => sockState[x] = "open" /\ x # s
  BY <1>3 DEF TypeOK
<1>5. \A x \in Sockets : sockState'[x] = "open" /\ InPlace(x) => InPlace(x)'
  BY <1>2, <1>3, <1>4 DEF InPlace
<1>6. QED
  BY <1>4, <1>5, StillReferenced

\* A socket that is given to a caller who holds none leaves no other behind.
LEMMA GiveLost ==
  ASSUME TypeOK, NoSocketLost, NEW c \in Callers, NEW s \in Sockets, given[c] = NoSocket,
         given' = [given EXCEPT ![c] = s],
         sockState' = sockState,
         \A x \in Sockets : sockState[x] = "open" /\ x \in Pool \cup free => x \in Pool' \cup free' \cup {s},
         \A h \in Pending : h.sock # s => h \in Pending'
  PROVE  NoSocketLost'
<1>1. \A d \in Callers : given'[d] = IF d = c THEN s ELSE given[d]
  BY DEF TypeOK
<1>2. ASSUME NEW x \in Sockets, sockState'[x] = "open", InPlace(x) PROVE InPlace(x)'
  <2>1. x # NoSocket
    BY AgentAssumption
  <2>2. QED
    BY <1>1, <1>2, <2>1 DEF InPlace
<1>3. QED
  BY <1>2, StillReferenced

LEMMA CreateLost ==
  ASSUME TypeOK, PoolInv, NoSocketLost, NEW c \in Callers, Ready(c), CreateConnection(c),
         UNCHANGED <<sockState, handoffs>>,
         \A s \in free : s \in free' \/ sockState[s] # "open"
  PROVE  NoSocketLost'
<1>1. Pending' = Pending /\ given[c] = NoSocket
  BY ReadyNowhere DEF Pending
<1>2. CASE UNCHANGED <<availableSockets, given>>
  <2>1. Pool' = Pool
    BY <1>2 DEF Pool
  <2>2. \A s \in Sockets : sockState'[s] = "open" /\ InPlace(s) => InPlace(s)'
    BY <1>1, <1>2, <2>1 DEF InPlace
  <2>3. QED
    BY <2>2, StillReferenced
<1>3. CASE /\ availableSockets # <<>>
           /\ availableSockets' = Tail(availableSockets)
           /\ given' = [given EXCEPT ![c] = Head(availableSockets)]
  <2> DEFINE s == Head(availableSockets)
  <2>1. s \in Sockets /\ Pool' = Pool \ {s}
    BY <1>3, ShiftPool
  <2>2. given' = [given EXCEPT ![c] = s]
    BY <1>3
  <2> HIDE DEF s
  <2>3. QED
    BY <1>1, <2>1, <2>2, GiveLost
<1>4. QED
  BY <1>2, <1>3 DEF CreateConnection

LEMMA HandoffLost ==
  ASSUME TypeOK, PoolInv, NoSocketLost, FireHandoff
  PROVE  NoSocketLost'
<1> DEFINE h == Head(handoffs)
<1>1. handoffs \in Seq(Handoff) /\ handoffs # <<>> /\ Distinct(handoffs)
  BY DEF FireHandoff, TypeOK, PoolInv, ListsDistinct
<1>2. h \in Pending /\ Pending' = Pending \ {h}
  BY <1>1, TailElements DEF FireHandoff, Pending
<1>3. h \in Handoff
  BY <1>2, ElementTypes
<1>4. h.cb \in Callers /\ h.sock \in Sockets
  BY <1>3 DEF Handoff
<1>5. given[h.cb] = NoSocket
  BY <1>2, <1>4 DEF PoolInv, PhasesExact
<1>6. Pool' = Pool /\ free' = free
  BY DEF FireHandoff, Pool
<1>7. CASE given' = [given EXCEPT ![h.cb] = h.sock] /\ UNCHANGED sockState
  <2> DEFINE c == h.cb
             s == h.sock
  <2>1. given' = [given EXCEPT ![c] = s] /\ c \in Callers /\ s \in Sockets /\ given[c] = NoSocket
    BY <1>4, <1>5, <1>7
  <2>2. \A g \in Pending : g.sock # s => g \in Pending'
    BY <1>2
  <2> HIDE DEF c, s
  <2>3. QED
    BY <1>6, <1>7, <2>1, <2>2, GiveLost
<1>8. CASE sockState' = Destroyed({h.sock}) /\ UNCHANGED given
  <2>1. \A x \in Sockets : sockState'[x] = "open" => sockState[x] = "open" /\ x # h.sock
    BY <1>8, DestroyedOpen
  <2>2. \A x \in Sockets : sockState'[x] = "open" /\ InPlace(x) => InPlace(x)'
    BY <1>2, <1>6, <1>8, <2>1 DEF InPlace
  <2>3. QED
    BY <2>1, <2>2, StillReferenced
<1>9. QED
  BY <1>7, <1>8 DEF FireHandoff

\* The caller's socket is kept or destroyed; all other callers keep theirs.
LEMMA FinishLost ==
  ASSUME TypeOK, PoolInv, NoSocketLost, NEW c \in Callers, FinishKeep(c) \/ FinishDestroy(c)
  PROVE  NoSocketLost'
<1>1. /\ given' = [given EXCEPT ![c] = NoSocket]
      /\ UNCHANGED <<availableSockets, handoffs>>
  BY DEF FinishKeep, FinishDestroy, poolVars
<1>2. Pool' = Pool /\ Pending' = Pending
  BY <1>1 DEF Pool, Pending
<1>3. \A d \in Callers : d # c => given'[d] = given[d]
  BY <1>1 DEF TypeOK
<1>4. CASE sockState' = sockState /\ free' = free \cup {given[c]}
  <2>1. \A x \in Sockets : sockState'[x] = "open" /\ InPlace(x) => InPlace(x)'
    BY <1>2, <1>3, <1>4 DEF InPlace
  <2>2. QED
    BY <1>4, <2>1, StillReferenced
<1>5. CASE sockState' = Destroyed({given[c]}) /\ free' = free
  <2>1. \A x \in Sockets : sockState'[x] = "open" => sockState[x] = "open" /\ x # given[c]
    BY <1>5, DestroyedOpen
  <2>2. \A x \in Sockets : sockState'[x] = "open" /\ InPlace(x) => InPlace(x)'
    BY <1>2, <1>3, <1>5, <2>1 DEF InPlace
  <2>3. QED
    BY <2>1, <2>2, StillReferenced
<1>6. QED
  BY <1>4, <1>5 DEF FinishKeep, FinishDestroy

LEMMA StepLost == TypeOK /\ PoolInv /\ NoSocketLost /\ [Next]_vars => NoSocketLost'
<1> SUFFICES ASSUME TypeOK, PoolInv, NoSocketLost, [Next]_vars PROVE NoSocketLost'
  OBVIOUS
<1> USE DEF poolVars, callerVars
<1>1. ASSUME UNCHANGED <<availableSockets, handoffs, given, free>>,
             \A s \in Sockets : sockState'[s] = "open" => sockState[s] = "open"
      PROVE  NoSocketLost'
  <2>1. Pool' = Pool /\ Pending' = Pending
    BY <1>1 DEF Pool, Pending
  <2>2. \A s \in Sockets : InPlace(s) => InPlace(s)'
    BY <1>1, <2>1 DEF InPlace
  <2>3. QED
    BY <1>1, <2>2, StillReferenced
<1>2. CASE Listen \/ Bound \/ ServerClose
  BY <1>1, <1>2 DEF Listen, Bound, ServerClose
<1>3. CASE Destroy
  <2>1. UNCHANGED <<availableSockets, handoffs, given, free>> /\ sockState' = Destroyed(HttpHeld \cup free)
    BY <1>3 DEF Destroy
  <2>2. QED
    BY <1>1, <2>1, DestroyedOpen
<1>4. CASE FireHandoff
  BY <1>4, HandoffLost
<1>5. ASSUME NEW s \in Sockets, SocketNext(s) PROVE NoSocketLost'
  <2>1. CASE Refuse(s) \/ RefusedClosed(s) \/ Disconnect(s)
    <3>1. \A x \in Sockets : sockState'[x] = "open" => sockState[x] = "open"
      BY <2>1 DEF Refuse, RefusedClosed, Disconnect, TypeOK
    <3>2. QED
      BY <1>1, <2>1, <3>1 DEF Refuse, RefusedClosed, Disconnect
  <2>2. CASE Accept(s)
    BY <2>2, AcceptLost
  <2>3. CASE SocketClosed(s)
    BY <2>3, ClosedLost
  <2>4. QED
    BY <1>5, <2>1, <2>2, <2>3 DEF SocketNext
<1>6. ASSUME NEW c \in Callers, CallerNext(c) PROVE NoSocketLost'
  <2>1. CASE Upgrade(c)
    BY <2>1, CreateLost DEF Upgrade
  <2>2. CASE HttpRequest(c)
    <3>1. \A s \in free : sockState[s] # "open"
      BY <2>2 DEF HttpRequest
    <3>2. QED
      BY <2>2, <3>1, CreateLost DEF HttpRequest
  <2>3. CASE UpgradeGone(c)
    <3>1. /\ sockState' = Destroyed({Head(availableSockets)})
          /\ UNCHANGED <<handoffs, given, free>>
      BY <2>3 DEF UpgradeGone
    <3>2. Pool' = Pool \ {Head(availableSockets)} /\ Pending' = Pending
      BY <2>3, ShiftPool DEF UpgradeGone, Pending
    <3>3. \A x \in Sockets : sockState'[x] = "open"
                              => sockState[x] = "open" /\ x # Head(availableSockets)
      BY <3>1, DestroyedOpen
    <3>4. \A x \in Sockets : sockState'[x] = "open" /\ InPlace(x) => InPlace(x)'
      BY <3>1, <3>2, <3>3 DEF InPlace
    <3>5. QED
      BY <3>3, <3>4, StillReferenced
  <2>4. CASE HttpReuse(c)
    <3>1. PICK s \in free : free' = free \ {s} /\ given' = [given EXCEPT ![c] = s]
      BY <2>4 DEF HttpReuse
    <3>2. UNCHANGED <<sockState, availableSockets, handoffs>> /\ s \in Sockets
      BY <2>4 DEF HttpReuse, TypeOK
    <3>3. given[c] = NoSocket
      BY <2>4, ReadyNowhere DEF HttpReuse
    <3>4. Pool' = Pool /\ Pending' = Pending
      BY <3>2 DEF Pool, Pending
    <3>5. QED
      BY <3>1, <3>2, <3>3, <3>4, GiveLost
  <2>5. CASE Abandon(c)
    BY <1>1, <2>5 DEF Abandon
  <2>6. CASE FinishKeep(c) \/ FinishDestroy(c)
    BY <2>6, FinishLost
  <2>7. QED
    BY <1>6, <2>1, <2>2, <2>3, <2>4, <2>5, <2>6 DEF CallerNext
<1>7. CASE UNCHANGED vars
  BY <1>1, <1>7 DEF vars
<1>8. QED
  BY <1>2, <1>3, <1>4, <1>5, <1>6, <1>7 DEF Next

\* The pool and http.Agent's list hold only sockets still counted as
\* connected: the splice of the 'close' handler misses none.  And every open
\* connection is in the pool, in a timer, with a caller or with http.Agent:
\* none is counted against the limit and of no use to anybody.
THEOREM SocketsCorrect == Spec => []SocketsAccounted
<1>1. Init => NoSocketLost
  BY DEF Init, NoSocketLost
<1>2. PoolInv /\ NoSocketLost => SocketsAccounted
  BY DEF PoolInv, SocketsAccounted
<1>3. QED
  BY <1>1, <1>2, StepLost, PoolInvariant, TypeCorrect, PTL DEF Spec

-----------------------------------------------------------------------------
(* What is due stays due                                                   *)

\* A step that leaves a waiting caller's phase alone or answers it, does not
\* reopen the server and connects no socket.
LEMMA StillDue ==
  ASSUME NEW c \in Callers, AnswerDue(c),
         phase'[c] \in {phase[c], "served", "failed"},
         handle = "closed" => handle' = "closed",
         handle = "closed" /\ Drained => Drained'
  PROVE  AnswerDue(c)' \/ phase'[c] \in {"served", "failed"}
BY DEF AnswerDue

\* No handler brings a socket to a closed server.
LEMMA StaysDrained ==
  ASSUME \A s \in Sockets : sockState'[s] \in {"open", "refused"} => sockState'[s] = sockState[s]
  PROVE  Drained => Drained'
BY DEF Drained

LEMMA DestroyedDrains ==
  ASSUME NEW S, sockState' = Destroyed(S)
  PROVE  Drained => Drained'
BY DEF Destroyed, Drained

LEMMA StepDue ==
  ASSUME TypeOK, PoolInv, [Next]_vars, NEW c \in Callers, AnswerDue(c)
  PROVE  AnswerDue(c)' \/ phase'[c] \in {"served", "failed"}
<1> USE DEF poolVars, callerVars
<1>1. phase[c] \in {"queued", "promised"}
  BY DEF AnswerDue
<1>2. ~Ready(c) /\ given[c] = NoSocket
  BY <1>1 DEF Ready, PoolInv, PhasesExact
<1>3. CASE Listen \/ Bound
  <2>1. handle # "closed" /\ UNCHANGED phase
    BY <1>3 DEF Listen, Bound
  <2>2. QED
    BY <2>1, StillDue
<1>4. CASE Destroy
  <2>1. UNCHANGED phase /\ handle' = "closed" /\ sockState' = Destroyed(HttpHeld \cup free)
    BY <1>4 DEF Destroy
  <2>2. QED
    BY <2>1, StillDue, DestroyedDrains
<1>5. CASE ServerClose
  <2>1. phase'[c] \in {phase[c], "failed"}
    BY <1>5 DEF ServerClose
  <2>2. UNCHANGED handle /\ (Drained => Drained')
    BY <1>5 DEF ServerClose, Drained
  <2>3. QED
    BY <2>1, <2>2, StillDue
<1>6. CASE FireHandoff
  <2>1. phase'[c] \in {phase[c], "served", "failed"}
    BY <1>6 DEF FireHandoff, TypeOK
  <2>2. UNCHANGED sockState \/ sockState' = Destroyed({Head(handoffs).sock})
    BY <1>6 DEF FireHandoff
  <2>3. Drained => Drained'
    BY <2>2, DestroyedDrains DEF Drained
  <2>4. UNCHANGED handle
    BY <1>6 DEF FireHandoff
  <2>5. QED
    BY <2>1, <2>3, <2>4, StillDue
<1>7. ASSUME NEW s \in Sockets, SocketNext(s)
      PROVE  AnswerDue(c)' \/ phase'[c] \in {"served", "failed"}
  <2>1. CASE Accept(s)
    <3>1. phase'[c] \in {phase[c], "promised"}
      BY <2>1 DEF Accept, TypeOK
    <3>2. handle # "closed"
      BY <2>1 DEF Accept, Connectable
    <3>3. QED
      BY <3>1, <3>2 DEF AnswerDue
  <2>2. CASE Refuse(s)
    <3>1. UNCHANGED <<handle, phase>> /\ handle # "closed"
      BY <2>2 DEF Refuse, Connectable
    <3>2. QED
      BY <3>1, StillDue
  <2>3. CASE RefusedClosed(s) \/ Disconnect(s) \/ SocketClosed(s)
    <3>1. \A x \in Sockets : sockState'[x] \in {"open", "refused"} => sockState'[x] = sockState[x]
      BY <2>3 DEF RefusedClosed, Disconnect, SocketClosed, TypeOK
    <3>2. phase'[c] \in {phase[c], "failed"} /\ UNCHANGED handle
      BY <2>3 DEF RefusedClosed, Disconnect, SocketClosed
    <3>3. QED
      BY <3>1, <3>2, StaysDrained, StillDue
  <2>4. QED
    BY <1>7, <2>1, <2>2, <2>3 DEF SocketNext
<1>8. ASSUME NEW d \in Callers, CallerNext(d)
      PROVE  AnswerDue(c)' \/ phase'[c] \in {"served", "failed"}
  <2>1. CASE Upgrade(d) \/ HttpRequest(d)
    <3>1. Ready(d) /\ CreateConnection(d) /\ UNCHANGED <<handle, sockState>>
      BY <2>1 DEF Upgrade, HttpRequest
    <3>2. phase'[c] = phase[c]
      BY <1>2, <3>1 DEF CreateConnection, TypeOK
    <3>3. QED
      BY <3>1, <3>2, StillDue DEF Drained
  <2>2. CASE UpgradeGone(d)
    <3>1. Ready(d) /\ phase' = [phase EXCEPT ![d] = "failed"] /\ UNCHANGED handle
      BY <2>2 DEF UpgradeGone
    <3>2. phase'[c] = phase[c]
      BY <1>2, <3>1 DEF TypeOK
    <3>3. Drained => Drained'
      BY <2>2, DestroyedDrains DEF UpgradeGone
    <3>4. QED
      BY <3>1, <3>2, <3>3, StillDue
  <2>3. CASE HttpReuse(d) \/ Abandon(d) \/ FinishKeep(d)
    <3>1. phase'[c] \in {phase[c], "served"}
      BY <1>1, <2>3 DEF HttpReuse, Abandon, FinishKeep, TypeOK
    <3>2. UNCHANGED <<handle, sockState>>
      BY <2>3 DEF HttpReuse, Abandon, FinishKeep
    <3>3. QED
      BY <3>1, <3>2, StillDue DEF Drained
  <2>4. CASE FinishDestroy(d)
    <3>1. phase'[c] = phase[c] /\ UNCHANGED handle
      BY <1>1, <2>4 DEF FinishDestroy, TypeOK
    <3>2. Drained => Drained'
      BY <2>4, DestroyedDrains DEF FinishDestroy
    <3>3. QED
      BY <3>1, <3>2, StillDue
  <2>5. QED
    BY <1>8, <2>1, <2>2, <2>3, <2>4 DEF CallerNext
<1>9. CASE UNCHANGED vars
  BY <1>9, StillDue DEF vars, Drained
<1>10. QED
  BY <1>3, <1>4, <1>5, <1>6, <1>7, <1>8, <1>9 DEF Next

\* A caller that was promised a socket, or waits for an agent whose last
\* connection is gone, is answered by the very next step that changes what it
\* waits for: no handler forgets it.  Fairness then makes DueAnswersArrive of it.
THEOREM DueCorrect == Spec => DueStaysDue
<1>1. TypeOK /\ PoolInv /\ [Next]_vars
      => [\A c \in Callers : AnswerDue(c) => AnswerDue(c)' \/ phase'[c] \in {"served", "failed"}]_vars
  BY StepDue
<1>2. QED
  BY <1>1, TypeCorrect, PoolInvariant, PTL DEF Spec, DueStaysDue

-----------------------------------------------------------------------------
(* After the agent's end                                                   *)

QuietInv == ClosedIsQuiet /\ (closed => handle = "closed")

LEMMA StepQuiet == TypeOK /\ QuietInv /\ [Next]_vars => QuietInv'
<1> SUFFICES ASSUME TypeOK, QuietInv, [Next]_vars PROVE QuietInv'
  OBVIOUS
<1> USE DEF poolVars, callerVars
<1>1. ASSUME UNCHANGED <<closed, handle, waitingCreateConn>>,
             closed => \A s \in Sockets : sockState'[s] = "open" => sockState[s] = "open"
      PROVE  QuietInv'
  BY <1>1 DEF QuietInv, ClosedIsQuiet
<1>2. ASSUME NEW S, sockState' = Destroyed(S)
      PROVE  \A s \in Sockets : sockState'[s] = "open" => sockState[s] = "open"
  BY <1>2 DEF Destroyed
<1>3. CASE Listen \/ Bound \/ Destroy
  <2>1. ~closed /\ closed' = closed
    BY <1>3 DEF Listen, Bound, Destroy, QuietInv
  <2>2. QED
    BY <2>1 DEF QuietInv, ClosedIsQuiet
<1>4. CASE ServerClose
  BY <1>4 DEF ServerClose, Drained, QuietInv, ClosedIsQuiet
<1>5. CASE FireHandoff
  <2>1. UNCHANGED sockState \/ sockState' = Destroyed({Head(handoffs).sock})
    BY <1>5 DEF FireHandoff
  <2>2. UNCHANGED <<closed, handle, waitingCreateConn>>
    BY <1>5 DEF FireHandoff
  <2>3. QED
    BY <1>1, <1>2, <2>1, <2>2
<1>6. ASSUME NEW s \in Sockets, SocketNext(s) PROVE QuietInv'
  <2>1. CASE Accept(s)
    <3>1. ~closed /\ closed' = closed
      BY <2>1 DEF Accept, Connectable, QuietInv
    <3>2. QED
      BY <3>1 DEF QuietInv, ClosedIsQuiet
  <2>2. CASE Refuse(s) \/ RefusedClosed(s) \/ Disconnect(s) \/ SocketClosed(s)
    <3>1. UNCHANGED <<closed, handle, waitingCreateConn>>
      BY <2>2 DEF Refuse, RefusedClosed, Disconnect, SocketClosed
    <3>2. \A x \in Sockets : sockState'[x] = "open" => sockState[x] = "open"
      BY <2>2 DEF Refuse, RefusedClosed, Disconnect, SocketClosed, TypeOK
    <3>3. QED
      BY <1>1, <3>1, <3>2
  <2>3. QED
    BY <1>6, <2>1, <2>2 DEF SocketNext
<1>7. ASSUME NEW c \in Callers, CallerNext(c) PROVE QuietInv'
  <2>1. CASE Upgrade(c) \/ HttpRequest(c)
    <3>1. UNCHANGED <<closed, handle, sockState>> /\ CreateConnection(c)
      BY <2>1 DEF Upgrade, HttpRequest
    <3>2. closed => UNCHANGED waitingCreateConn
      BY <3>1 DEF CreateConnection
    <3>3. QED
      BY <3>1, <3>2 DEF QuietInv, ClosedIsQuiet
  <2>2. CASE UpgradeGone(c)
    <3>1. ~closed /\ closed' = closed
      BY <2>2 DEF UpgradeGone
    <3>2. QED
      BY <3>1 DEF QuietInv, ClosedIsQuiet
  <2>3. CASE HttpReuse(c) \/ Abandon(c) \/ FinishKeep(c)
    BY <1>1, <2>3 DEF HttpReuse, Abandon, FinishKeep
  <2>4. CASE FinishDestroy(c)
    BY <1>1, <1>2, <2>4 DEF FinishDestroy
  <2>5. QED
    BY <1>7, <2>1, <2>2, <2>3, <2>4 DEF CallerNext
<1>8. CASE UNCHANGED vars
  BY <1>1, <1>8 DEF vars
<1>9. QED
  BY <1>3, <1>4, <1>5, <1>6, <1>7, <1>8 DEF Next

\* After 'end' the queue is empty for good and every live socket is gone,
\* although destroy() itself flushes nothing.
THEOREM QuietCorrect == Spec => []ClosedIsQuiet
<1>1. Init => QuietInv
  BY DEF Init, QuietInv, ClosedIsQuiet
<1>2. QuietInv => ClosedIsQuiet
  BY DEF QuietInv
<1>3. QED
  BY <1>1, <1>2, StepQuiet, TypeCorrect, PTL DEF Spec

-----------------------------------------------------------------------------
(* The refinement of SocketLease                                           *)

Holder(s, c) == given[c] = s \/ \E h \in Pending : h.sock = s /\ h.cb = c
Placed(s)    == s \in Pool \cup free \/ \E c \in Callers : Holder(s, c)

\* The lease says where each socket is, and the places say the lease.
LeaseRight ==
  /\ lease \in [Sockets -> Callers \cup {"away", "pool", "kept", "spent"}]
  /\ \A s \in Sockets :
       /\ \A c \in Callers : lease[s] = c <=> Holder(s, c)
       /\ lease[s] = "pool" <=> s \in Pool
       /\ lease[s] = "kept" <=> s \in free
       /\ lease[s] = "spent" <=> s \in Accepted /\ ~Placed(s)
       /\ lease[s] = "away" <=> s \notin Accepted /\ ~Placed(s)

LEMMA LeaseIs == TypeOK /\ PoolInv => LeaseRight
<1> SUFFICES ASSUME TypeOK, PoolInv PROVE LeaseRight
  OBVIOUS
<1> DEFINE at(s) == lease[s]
<1>0. /\ \A c, d \in Callers, s \in Sockets : Holder(s, c) /\ Holder(s, d) => c = d
      /\ \A c \in Callers, s \in Sockets : Holder(s, c) => s \notin Pool /\ s \notin free
      /\ Pool \cap free = {}
      /\ \A c \in Callers : c \notin {"away", "pool", "kept", "spent"}
  <2>1. \A s \in Sockets : s # NoSocket
    BY AgentAssumption
  <2>2. QED
    BY <2>1, AgentAssumption DEF Holder, PoolInv, PlacesApart, PendingApart
<1>1. ASSUME NEW s \in Sockets, NEW c \in Callers, Holder(s, c) PROVE lease[s] = c
  <2>1. CASE \E d \in Callers : given[d] = s
    <3> DEFINE ch == CHOOSE d \in Callers : given[d] = s
    <3>1. ch \in Callers /\ given[ch] = s
      BY <2>1
    <3>2. lease[s] = ch
      <4>1. Referenced(s) /\ s \notin Elements(availableSockets) /\ s \notin free
        BY <1>0, <1>1, <2>1 DEF Referenced, Pool
      <4>2. ~\E i \in 1..Len(handoffs) : handoffs[i].sock = s
        BY <2>1 DEF PoolInv, PlacesApart, Pending, Elements
      <4>3. QED
        BY <2>1, <4>1, <4>2 DEF lease
    <3> HIDE DEF ch
    <3>3. Holder(s, ch)
      BY <3>1 DEF Holder
    <3>4. QED
      BY <1>0, <1>1, <3>1, <3>2, <3>3
  <2>2. CASE ~\E d \in Callers : given[d] = s
    <3> DEFINE ch == CHOOSE h \in Elements(handoffs) : h.sock = s
    <3>1. \E h \in Elements(handoffs) : h.sock = s
      BY <1>1, <2>2 DEF Holder, Pending
    <3>2. ch \in Elements(handoffs) /\ ch.sock = s
      BY <3>1
    <3>3. \E i \in 1..Len(handoffs) : handoffs[i].sock = s
      BY <3>1 DEF Elements
    <3>4. lease[s] = ch.cb
      <4>1. Referenced(s) /\ s \notin Elements(availableSockets) /\ s \notin free
        BY <1>0, <1>1, <3>3 DEF Referenced, Pool
      <4>2. QED
        BY <2>2, <3>3, <4>1 DEF lease
    <3> HIDE DEF ch
    <3>5. ch.cb \in Callers /\ Holder(s, ch.cb)
      BY <3>2, ElementTypes DEF Holder, Pending, Handoff
    <3>6. QED
      BY <1>0, <1>1, <3>4, <3>5
  <2>3. QED
    BY <2>1, <2>2
<1>2. ASSUME NEW s \in Sockets, \A c \in Callers : ~Holder(s, c)
      PROVE  /\ s \in Pool => lease[s] = "pool"
             /\ s \in free => lease[s] = "kept"
             /\ ~Placed(s) => lease[s] = IF s \in Accepted THEN "spent" ELSE "away"
  <2>1. ~\E c \in Callers : given[c] = s
    BY <1>2 DEF Holder
  <2>2. ~\E i \in 1..Len(handoffs) : handoffs[i].sock = s
    <3> SUFFICES ASSUME NEW i \in 1..Len(handoffs), handoffs[i].sock = s PROVE FALSE
      OBVIOUS
    <3>1. handoffs[i] \in Pending
      BY DEF Pending, Elements
    <3>2. handoffs[i].cb \in Callers
      BY <3>1, ElementTypes DEF Handoff
    <3>3. QED
      BY <1>2, <3>1, <3>2 DEF Holder
  <2>3. ASSUME s \in Pool PROVE lease[s] = "pool"
    <3>1. s \in Elements(availableSockets) /\ s \notin free /\ Referenced(s)
      BY <1>0, <2>3 DEF Pool, Referenced
    <3>2. QED
      BY <2>1, <2>2, <3>1 DEF lease
  <2>4. ASSUME s \in free PROVE lease[s] = "kept"
    <3>1. s \notin Elements(availableSockets) /\ s \in free /\ Referenced(s)
      BY <1>0, <2>4 DEF Pool, Referenced
    <3>2. QED
      BY <2>1, <2>2, <3>1 DEF lease
  <2>5. ASSUME ~Placed(s) PROVE lease[s] = IF s \in Accepted THEN "spent" ELSE "away"
    <3>1. s \notin Elements(availableSockets) /\ s \notin free
      BY <2>5 DEF Placed, Pool
    <3>2. ~Referenced(s)
      BY <2>1, <2>2, <3>1 DEF Referenced
    <3>3. QED
      BY <2>1, <2>2, <3>1, <3>2 DEF lease
  <2>6. QED
    BY <2>3, <2>4, <2>5
<1>3. ASSUME NEW s \in Sockets
      PROVE  /\ lease[s] \in Callers \cup {"away", "pool", "kept", "spent"}
             /\ \A c \in Callers : lease[s] = c <=> Holder(s, c)
             /\ lease[s] = "pool" <=> s \in Pool
             /\ lease[s] = "kept" <=> s \in free
             /\ lease[s] = "spent" <=> s \in Accepted /\ ~Placed(s)
             /\ lease[s] = "away" <=> s \notin Accepted /\ ~Placed(s)
  <2>1. CASE \E c \in Callers : Holder(s, c)
    BY <1>0, <1>1, <2>1 DEF Placed
  <2>2. CASE ~\E c \in Callers : Holder(s, c)
    BY <1>0, <1>2, <2>2 DEF Placed
  <2>3. QED
    BY <2>1, <2>2
<1>4. lease = [s \in Sockets |-> lease[s]]
  BY DEF lease
<1>5. QED
  BY <1>3, <1>4 DEF LeaseRight

\* http.Agent's list has at most one socket: maxFreeSockets.
OneFree == \A x, y \in free : x = y

LEMMA StepOneFree == TypeOK /\ OneFree /\ [Next]_vars => OneFree'
<1> SUFFICES ASSUME TypeOK, OneFree, [Next]_vars PROVE OneFree'
  OBVIOUS
<1>1. ASSUME free' \subseteq free PROVE OneFree'
  BY <1>1 DEF OneFree
<1>2. CASE Listen \/ Bound \/ Destroy \/ ServerClose \/ FireHandoff \/ UNCHANGED vars
  BY <1>1, <1>2 DEF Listen, Bound, Destroy, ServerClose, FireHandoff, vars
<1>3. ASSUME NEW s \in Sockets, SocketNext(s) PROVE OneFree'
  BY <1>1, <1>3 DEF SocketNext, Refuse, Accept, RefusedClosed, Disconnect, SocketClosed
<1>4. ASSUME NEW c \in Callers, CallerNext(c) PROVE OneFree'
  <2>1. CASE FinishKeep(c)
    <3>1. IsFiniteSet(free)
      BY AgentAssumption, FS_Subset DEF TypeOK
    <3>2. Cardinality(free) \in Nat /\ (Cardinality(free) = 0 <=> free = {})
      BY <3>1, FS_CardinalityType, FS_EmptySet
    <3>3. free = {}
      BY <2>1, <3>2 DEF FinishKeep, MaxFreeSockets
    <3>4. QED
      BY <2>1, <3>3 DEF FinishKeep, OneFree
  <2>2. CASE ~FinishKeep(c)
    BY <1>1, <1>4, <2>2 DEF CallerNext, Upgrade, UpgradeGone, HttpRequest, HttpReuse,
                            Abandon, FinishDestroy
  <2>3. QED
    BY <2>1, <2>2
<1>5. QED
  BY <1>2, <1>3, <1>4 DEF Next

\* What a step leaves alone at one socket.
SameAt(x) ==
  /\ x \in Pool' <=> x \in Pool
  /\ x \in free' <=> x \in free
  /\ \A c \in Callers : Holder(x, c)' <=> Holder(x, c)
  /\ Placed(x) \/ (x \in Accepted' <=> x \in Accepted)

LEMMA LeaseSame ==
  ASSUME LeaseRight, LeaseRight', NEW x \in Sockets, SameAt(x)
  PROVE  lease'[x] = lease[x]
<1>1. Placed(x)' <=> Placed(x)
  BY DEF SameAt, Placed
<1>2. lease[x] \in Callers \cup {"away", "pool", "kept", "spent"}
  BY DEF LeaseRight
<1>3. ASSUME NEW c \in Callers, lease[x] = c PROVE lease'[x] = lease[x]
  BY <1>3 DEF LeaseRight, SameAt
<1>4. CASE lease[x] \in {"away", "pool", "kept", "spent"}
  BY <1>1, <1>4 DEF LeaseRight, SameAt
<1>5. QED
  BY <1>2, <1>3, <1>4

LEMMA LeaseStutters ==
  ASSUME LeaseRight, LeaseRight', \A x \in Sockets : SameAt(x)
  PROVE  lease' = lease
BY LeaseSame DEF LeaseRight

\* One socket changes hands.
LEMMA LeaseMoves ==
  ASSUME LeaseRight, LeaseRight', NEW s \in Sockets, \A x \in Sockets \ {s} : SameAt(x)
  PROVE  lease' = [lease EXCEPT ![s] = lease'[s]]
<1>1. \A x \in Sockets \ {s} : lease'[x] = lease[x]
  BY LeaseSame
<1>2. QED
  BY <1>1 DEF LeaseRight

\* A socket that nobody refers to any more is spent, or gone.
LEMMA LeaseRetires ==
  ASSUME LeaseRight, LeaseRight', NEW s \in Sockets, \A x \in Sockets \ {s} : SameAt(x),
         ~Placed(s)', s \in Accepted' => s \in Accepted
  PROVE  [Lease!Next]_lease
<1>1. lease' = [lease EXCEPT ![s] = lease'[s]]
  BY LeaseMoves
<1>2. lease'[s] \in {"spent", "away"}
  BY DEF LeaseRight
<1>3. CASE lease[s] = "away"
  <2>1. lease'[s] = "away"
    BY <1>3 DEF LeaseRight
  <2>2. lease' = lease
    BY <1>1, <1>3, <2>1 DEF LeaseRight
  <2>3. QED
    BY <2>2
<1>4. CASE lease[s] # "away"
  BY <1>1, <1>2, <1>4 DEF Lease!Next, Lease!Retire
<1>5. QED
  BY <1>3, <1>4

LEMMA QuietLease ==
  ASSUME LeaseRight, LeaseRight', UNCHANGED <<availableSockets, handoffs, given, free>>,
         Accepted' = Accepted
  PROVE  lease' = lease
<1>1. \A x \in Sockets : SameAt(x)
  BY DEF SameAt, Holder, Pool, Pending
<1>2. QED
  BY <1>1, LeaseStutters

LEMMA AcceptLease ==
  ASSUME TypeOK, PoolInv, LeaseRight, LeaseRight', NEW s \in Sockets, Accept(s)
  PROVE  [Lease!Next]_lease
<1>1. /\ s \notin Pool \cup free
      /\ \A h \in Pending : h.sock # s
      /\ \A c \in Callers : given[c] # s
  BY ConnectableFree DEF Accept
<1>2. s \notin Accepted /\ Accepted' = Accepted \cup {s} /\ UNCHANGED <<given, free>>
  BY DEF Accept, Connectable, Accepted, TypeOK
<1>3. lease[s] = "away"
  BY <1>1, <1>2 DEF LeaseRight, Placed, Holder
<1>4. CASE waitingCreateConn # <<>>
  <2>1. /\ handoffs' = Append(handoffs, [cb |-> Head(waitingCreateConn), sock |-> s])
        /\ availableSockets' = availableSockets
    BY <1>4 DEF Accept
  <2>2. PICK c \in Queue : c \in Callers /\ c = Head(waitingCreateConn)
    BY <1>4, TailElements, ElementTypes DEF TypeOK, PoolInv, ListsDistinct, Queue
  <2>3. PICK h \in Handoff : h.cb = c /\ h.sock = s /\ handoffs' = Append(handoffs, h)
    BY <2>1, <2>2 DEF Handoff
  <2>4. Pending' = Pending \cup {h} /\ Pool' = Pool
    BY <2>1, <2>3, AppendElements DEF TypeOK, Pending, Pool
  <2>5. \A x \in Sockets \ {s} : SameAt(x)
    BY <1>2, <2>3, <2>4 DEF SameAt, Holder
  <2>6. Holder(s, c)'
    BY <2>3, <2>4 DEF Holder
  <2>7. lease' = [lease EXCEPT ![s] = c]
    BY <2>2, <2>5, <2>6, LeaseMoves DEF LeaseRight
  <2>8. \A x \in Sockets : ~Holder(x, c)
    <3>1. \A g \in Pending : g.cb # c
      BY <2>2 DEF PoolInv, PhasesExact
    <3>2. given[c] = NoSocket
      BY <2>2 DEF PoolInv, PhasesExact
    <3>3. QED
      BY <3>1, <3>2, AgentAssumption DEF Holder
  <2>9. ~Lease!Holding(c)
    BY <2>2, <2>8 DEF Lease!Holding, LeaseRight
  <2>10. Lease!Arrive(s)
    BY <1>3, <2>2, <2>7, <2>9 DEF Lease!Arrive, Lease!Callers, Callers
  <2>11. QED
    BY <2>10 DEF Lease!Next
<1>5. CASE waitingCreateConn = <<>>
  <2>1. availableSockets' = Append(availableSockets, s) /\ UNCHANGED handoffs
    BY <1>5 DEF Accept
  <2>2. Pool' = Pool \cup {s} /\ Pending' = Pending
    BY <2>1, AppendElements DEF TypeOK, Pool, Pending
  <2>3. \A x \in Sockets \ {s} : SameAt(x)
    BY <1>2, <2>2 DEF SameAt, Holder
  <2>4. lease' = [lease EXCEPT ![s] = "pool"]
    BY <2>2, <2>3, LeaseMoves DEF LeaseRight
  <2>5. Lease!Arrive(s)
    BY <1>3, <2>4 DEF Lease!Arrive
  <2>6. QED
    BY <2>5 DEF Lease!Next
<1>6. QED
  BY <1>4, <1>5

LEMMA ClosedLease ==
  ASSUME TypeOK, PoolInv, LeaseRight, LeaseRight', NEW s \in Sockets, SocketClosed(s)
  PROVE  [Lease!Next]_lease
<1>1. /\ UNCHANGED handoffs
      /\ free' = free \ {s}
      /\ given' = [c \in Callers |-> IF given[c] = s THEN NoSocket ELSE given[c]]
  BY DEF SocketClosed
<1>2. Pool' = Pool \ {s} /\ Pending' = Pending
  BY <1>1, RemoveElements DEF SocketClosed, TypeOK, PoolInv, ListsDistinct, Pool, Pending
<1>3. Accepted' = Accepted \ {s}
  BY DEF SocketClosed, Accepted, TypeOK
<1>4. NoSocket \notin Sockets
  BY AgentAssumption
<1>5. \A x \in Sockets \ {s} : SameAt(x)
  BY <1>1, <1>2, <1>3, <1>4 DEF SameAt, Holder
<1>6. CASE \E h \in Pending : h.sock = s
  <2>1. /\ s \notin Pool /\ s \notin free
        /\ \A c \in Callers : given[c] # s
    BY <1>6 DEF PoolInv, PlacesApart
  <2>2. Placed(s)
    BY <1>6, ElementTypes DEF Placed, Holder, Handoff
  <2>3. SameAt(s)
    BY <1>1, <1>2, <2>1, <2>2 DEF SameAt, Holder
  <2>4. QED
    BY <1>5, <2>3, LeaseStutters
<1>7. CASE ~\E h \in Pending : h.sock = s
  <2>1. ~Placed(s)'
    BY <1>1, <1>2, <1>4, <1>7 DEF Placed, Holder
  <2>2. QED
    BY <1>3, <1>5, <2>1, LeaseRetires
<1>8. QED
  BY <1>6, <1>7

\* createConnection: a pooled socket is granted, and the dead sockets that
\* http.Agent drops from its list on the way are spent.
LEMMA CreateLease ==
  ASSUME TypeOK, PoolInv, OneFree, LeaseRight, LeaseRight',
         NEW c \in Callers, Ready(c), CreateConnection(c), UNCHANGED handoffs,
         Accepted' = Accepted, free' = free \/ (c \in HttpCallers /\ free' = {})
  PROVE  [Lease!Next]_lease
<1>0. c \notin Queue /\ given[c] = NoSocket /\ \A h \in Pending : h.cb # c
  BY ReadyNowhere
<1>1. Pending' = Pending
  BY DEF Pending
<1>2. \A x \in free : /\ x \in Accepted /\ x \in Sockets /\ x \notin Pool
                      /\ \A d \in Callers : ~Holder(x, d)
  BY DEF PoolInv, PlacesApart, PoolIsConnected, Holder, Accepted
<1>3. CASE UNCHANGED <<availableSockets, given>>
  <2>1. Pool' = Pool
    BY <1>3 DEF Pool
  <2>2. \A x \in Sockets : ~(x \in free /\ x \notin free') => SameAt(x)
    BY <1>1, <1>3, <2>1 DEF SameAt, Holder
  <2>3. CASE free' = free
    BY <2>2, <2>3, LeaseStutters
  <2>4. ASSUME NEW x \in free, free' = {} PROVE [Lease!Next]_lease
    <3>1. \A y \in Sockets \ {x} : SameAt(y)
      BY <2>2 DEF OneFree
    <3>2. ~Placed(x)'
      BY <1>1, <1>2, <1>3, <2>1, <2>4 DEF Placed, Holder
    <3>3. QED
      BY <1>2, <3>1, <3>2, LeaseRetires
  <2>5. QED
    BY <2>3, <2>4
<1>4. CASE /\ availableSockets # <<>>
           /\ availableSockets' = Tail(availableSockets)
           /\ given' = [given EXCEPT ![c] = Head(availableSockets)]
  <2>1. PICK s \in Pool : /\ s = Head(availableSockets) /\ s \in Sockets
                          /\ Pool' = Pool \ {s}
    BY <1>4, ShiftPool
  <2>2. \A d \in Callers : given'[d] = IF d = c THEN s ELSE given[d]
    BY <1>4, <2>1 DEF TypeOK
  <2>3. lease[s] = "pool" /\ s \notin free /\ \A d \in Callers : ~Holder(s, d)
    BY <2>1 DEF LeaseRight, PoolInv, PlacesApart, Holder
  <2>4. lease'[s] = c
    BY <2>1, <2>2 DEF LeaseRight, Holder
  <2>5. \A x \in Sockets \ {s} : ~Holder(x, c)
    BY <1>0, AgentAssumption DEF Holder
  <2>6. ~Lease!Holding(c)
    BY <2>3, <2>5 DEF Lease!Holding, LeaseRight
  <2>7. \A x \in Sockets \ {s} : \A d \in Callers : Holder(x, d)' <=> Holder(x, d)
    BY <1>0, <1>1, <2>2, AgentAssumption DEF Holder
  <2> DEFINE dropped == free \ free'
  <2>8. ASSUME NEW x \in Sockets, x # s, x \notin dropped PROVE lease'[x] = lease[x]
    <3>1. x \in free' <=> x \in free
      BY <2>8
    <3>2. SameAt(x)
      BY <2>1, <2>7, <2>8, <3>1 DEF SameAt
    <3>3. QED
      BY <3>2, LeaseSame
  <2>9. ASSUME NEW x \in dropped PROVE lease'[x] = "spent" /\ x # s
    <3>1. x # s /\ x \in Sockets
      BY <1>2, <2>1, <2>9
    <3>2. ~Placed(x)'
      BY <1>2, <2>1, <2>7, <2>9, <3>1 DEF Placed
    <3>3. QED
      BY <1>2, <3>1, <3>2 DEF LeaseRight
  <2>10. dropped \in SUBSET Lease!Kept
    BY <1>2 DEF Lease!Kept, LeaseRight
  <2>11. c \in UpgradeCallers => dropped = {}
    BY AgentAssumption
  <2> HIDE DEF dropped
  <2>12. lease' = [x \in Sockets |-> IF x = s THEN c
                                     ELSE IF x \in dropped THEN "spent" ELSE lease[x]]
    <3>1. \A x \in Sockets : lease'[x] = IF x = s THEN c
                                         ELSE IF x \in dropped THEN "spent" ELSE lease[x]
      BY <2>4, <2>8, <2>9
    <3>2. QED
      BY <3>1 DEF LeaseRight
  <2>13. Lease!Grant(s, c)
    BY <2>3, <2>6, <2>10, <2>11, <2>12 DEF Lease!Grant
  <2>14. QED
    BY <2>1, <2>13 DEF Lease!Next, Lease!Callers, Callers
<1>5. QED
  BY <1>3, <1>4 DEF CreateConnection

LEMMA UpgradeGoneLease ==
  ASSUME TypeOK, PoolInv, LeaseRight, LeaseRight', NEW c \in Callers, UpgradeGone(c)
  PROVE  [Lease!Next]_lease
<1>1. UNCHANGED <<handoffs, given, free>>
  BY DEF UpgradeGone
<1>2. Accepted' = Accepted /\ Pending' = Pending
  BY <1>1, DestroyedAccepted DEF UpgradeGone, Pending
<1>3. PICK s \in Pool : s \in Sockets /\ Pool' = Pool \ {s}
  BY ShiftPool DEF UpgradeGone
<1>4. \A x \in Sockets \ {s} : SameAt(x)
  BY <1>1, <1>2, <1>3 DEF SameAt, Holder
<1>5. ~Placed(s)'
  BY <1>1, <1>2, <1>3 DEF Placed, Holder, PoolInv, PlacesApart
<1>6. QED
  BY <1>2, <1>3, <1>4, <1>5, LeaseRetires

LEMMA ReuseLease ==
  ASSUME TypeOK, PoolInv, LeaseRight, LeaseRight', NEW c \in Callers, HttpReuse(c)
  PROVE  [Lease!Next]_lease
<1>0. given[c] = NoSocket /\ \A h \in Pending : h.cb # c
  BY ReadyNowhere DEF HttpReuse
<1>1. PICK s \in free : free' = free \ {s} /\ given' = [given EXCEPT ![c] = s]
  BY DEF HttpReuse
<1>2. UNCHANGED <<sockState, availableSockets, handoffs>>
  BY DEF HttpReuse, poolVars
<1>3. Pool' = Pool /\ Pending' = Pending /\ Accepted' = Accepted
  BY <1>2 DEF Pool, Pending, Accepted
<1>4. s \in Sockets /\ NoSocket \notin Sockets
  BY AgentAssumption DEF TypeOK
<1>5. \A d \in Callers : given'[d] = IF d = c THEN s ELSE given[d]
  BY <1>1 DEF TypeOK
<1>6. \A x \in Sockets \ {s} : SameAt(x)
  BY <1>0, <1>1, <1>3, <1>4, <1>5 DEF SameAt, Holder
<1>7. lease' = [lease EXCEPT ![s] = c]
  <2>1. Holder(s, c)'
    BY <1>5 DEF Holder
  <2>2. lease'[s] = c
    BY <1>4, <2>1 DEF LeaseRight
  <2>3. QED
    BY <1>4, <1>6, <2>2, LeaseMoves
<1>8. lease[s] = "kept"
  BY <1>4 DEF LeaseRight
<1>9. ~Lease!Holding(c)
  BY <1>0, <1>4 DEF Lease!Holding, LeaseRight, Holder
<1>10. Lease!Reuse(s, c)
  BY <1>7, <1>8, <1>9 DEF Lease!Reuse, HttpReuse
<1>11. QED
  BY <1>4, <1>10 DEF Lease!Next, Lease!Callers, Callers

LEMMA FinishLease ==
  ASSUME TypeOK, PoolInv, LeaseRight, LeaseRight', NEW c \in Callers,
         FinishKeep(c) \/ FinishDestroy(c)
  PROVE  [Lease!Next]_lease
<1>1. /\ phase[c] = "served"
      /\ given' = [given EXCEPT ![c] = NoSocket]
      /\ UNCHANGED <<availableSockets, handoffs>>
  BY DEF FinishKeep, FinishDestroy, poolVars
<1>2. PICK s \in Sockets : given[c] = s
  BY <1>1 DEF TypeOK, PoolInv, PhasesExact
<1>3. Pool' = Pool /\ Pending' = Pending /\ NoSocket \notin Sockets
  BY <1>1, AgentAssumption DEF Pool, Pending
<1>4. \A d \in Callers : given'[d] = IF d = c THEN NoSocket ELSE given[d]
  BY <1>1 DEF TypeOK
<1>5. /\ \A d \in Callers : given'[d] # s
      /\ \A h \in Pending : h.sock # s
      /\ s \notin Pool \cup free
  BY <1>2, <1>3, <1>4 DEF PoolInv, PlacesApart
<1>6. lease[s] = c
  BY <1>2 DEF LeaseRight, Holder
<1>7. Accepted' = Accepted
  <2>1. CASE FinishKeep(c)
    BY <2>1 DEF FinishKeep, Accepted
  <2>2. CASE FinishDestroy(c)
    BY <2>2, DestroyedAccepted DEF FinishDestroy
  <2>3. QED
    BY <2>1, <2>2
<1>8. \A x \in Sockets \ {s} : \A d \in Callers : Holder(x, d)' <=> Holder(x, d)
  BY <1>2, <1>3, <1>4 DEF Holder
<1>9. CASE FinishKeep(c)
  <2>1. free' = free \cup {s} /\ c \in HttpCallers
    BY <1>2, <1>9 DEF FinishKeep
  <2>2. \A x \in Sockets \ {s} : SameAt(x)
    BY <1>3, <1>7, <1>8, <2>1 DEF SameAt
  <2>3. lease' = [lease EXCEPT ![s] = "kept"]
    BY <2>1, <2>2, LeaseMoves DEF LeaseRight
  <2>4. free = {}
    <3>1. IsFiniteSet(free)
      BY AgentAssumption, FS_Subset DEF TypeOK
    <3>2. Cardinality(free) \in Nat /\ (Cardinality(free) = 0 <=> free = {})
      BY <3>1, FS_CardinalityType, FS_EmptySet
    <3>3. QED
      BY <1>9, <3>2 DEF FinishKeep, MaxFreeSockets
  <2>5. Lease!Kept = {}
    BY <2>4 DEF Lease!Kept, LeaseRight
  <2>6. QED
    BY <1>6, <2>1, <2>3, <2>5 DEF Lease!Next, Lease!Return
<1>10. CASE FinishDestroy(c)
  <2>1. free' = free
    BY <1>10 DEF FinishDestroy
  <2>2. \A x \in Sockets \ {s} : SameAt(x)
    BY <1>3, <1>7, <1>8, <2>1 DEF SameAt
  <2>3. ~Placed(s)'
    BY <1>3, <1>5, <2>1 DEF Placed, Holder
  <2>4. QED
    BY <1>7, <2>2, <2>3, LeaseRetires
<1>11. QED
  BY <1>9, <1>10

LEMMA HandoffLease ==
  ASSUME TypeOK, PoolInv, LeaseRight, LeaseRight', FireHandoff
  PROVE  [Lease!Next]_lease
<1>1. PICK h \in Pending : h = Head(handoffs) /\ Pending' = Pending \ {h}
  BY TailElements DEF TypeOK, PoolInv, ListsDistinct, FireHandoff, Pending
<1>2. PICK c \in Callers, s \in Sockets : c = h.cb /\ s = h.sock
  BY ElementTypes DEF Handoff
<1>3. Pool' = Pool /\ free' = free
  BY DEF FireHandoff, Pool
<1>4. \/ given' = [given EXCEPT ![c] = s] /\ UNCHANGED sockState
      \/ UNCHANGED given /\ sockState' = Destroyed({s})
  BY <1>1, <1>2 DEF FireHandoff
<1>5. Accepted' = Accepted
  <2>1. CASE UNCHANGED sockState
    BY <2>1 DEF Accepted
  <2>2. CASE sockState' = Destroyed({s})
    BY <2>2, DestroyedAccepted
  <2>3. QED
    BY <1>4, <2>1, <2>2
<1>6. /\ \A g \in Pending : g.cb = c \/ g.sock = s => g = h
      /\ s \notin Pool \cup free
      /\ \A d \in Callers : given[d] # s
  BY <1>2 DEF PoolInv, PendingApart, PlacesApart
<1>7. given[c] = NoSocket /\ NoSocket \notin Sockets
  BY <1>1, <1>2, AgentAssumption DEF PoolInv, PhasesExact
<1>8. CASE given' = [given EXCEPT ![c] = s]
  <2>1. \A d \in Callers : given'[d] = IF d = c THEN s ELSE given[d]
    BY <1>8 DEF TypeOK
  <2>2. \A x \in Sockets, d \in Callers : Holder(x, d)' <=> Holder(x, d)
    BY <1>1, <1>2, <1>6, <1>7, <2>1 DEF Holder
  <2>3. \A x \in Sockets : SameAt(x)
    BY <1>3, <1>5, <2>2 DEF SameAt
  <2>4. QED
    BY <2>3, LeaseStutters
<1>9. CASE UNCHANGED given
  <2>1. \A x \in Sockets \ {s} : SameAt(x)
    BY <1>1, <1>2, <1>3, <1>5, <1>9 DEF SameAt, Holder
  <2>2. ~Placed(s)'
    BY <1>1, <1>3, <1>6, <1>9 DEF Placed, Holder
  <2>3. QED
    BY <1>5, <2>1, <2>2, LeaseRetires
<1>10. QED
  BY <1>4, <1>8, <1>9

LEMMA StepLease ==
  TypeOK /\ PoolInv /\ OneFree /\ LeaseRight /\ LeaseRight' /\ [Next]_vars
  => [Lease!Next]_lease
<1> SUFFICES ASSUME TypeOK, PoolInv, OneFree, LeaseRight, LeaseRight', [Next]_vars
             PROVE  [Lease!Next]_lease
  OBVIOUS
<1> USE DEF poolVars, callerVars
<1>1. CASE Listen \/ Bound \/ ServerClose \/ UNCHANGED vars
  BY <1>1, QuietLease DEF Listen, Bound, ServerClose, vars, Accepted
<1>2. CASE Destroy
  BY <1>2, QuietLease, DestroyedAccepted DEF Destroy
<1>3. CASE FireHandoff
  BY <1>3, HandoffLease
<1>4. ASSUME NEW s \in Sockets, SocketNext(s) PROVE [Lease!Next]_lease
  <2>1. CASE Refuse(s) \/ RefusedClosed(s) \/ Disconnect(s)
    <3>1. Accepted' = Accepted
      BY <2>1 DEF Refuse, RefusedClosed, Disconnect, Connectable, Accepted, TypeOK
    <3>2. QED
      BY <2>1, <3>1, QuietLease DEF Refuse, RefusedClosed, Disconnect
  <2>2. CASE Accept(s)
    BY <2>2, AcceptLease
  <2>3. CASE SocketClosed(s)
    BY <2>3, ClosedLease
  <2>4. QED
    BY <1>4, <2>1, <2>2, <2>3 DEF SocketNext
<1>5. ASSUME NEW c \in Callers, CallerNext(c) PROVE [Lease!Next]_lease
  <2>1. CASE Upgrade(c) \/ HttpRequest(c)
    <3>1. Ready(c) /\ CreateConnection(c) /\ UNCHANGED <<handoffs, sockState>>
      BY <2>1 DEF Upgrade, HttpRequest
    <3>2. free' = free \/ (c \in HttpCallers /\ free' = {})
      BY <2>1 DEF Upgrade, HttpRequest
    <3>3. Accepted' = Accepted
      BY <3>1 DEF Accepted
    <3>4. QED
      BY <3>1, <3>2, <3>3, CreateLease
  <2>2. CASE UpgradeGone(c)
    BY <2>2, UpgradeGoneLease
  <2>3. CASE HttpReuse(c)
    BY <2>3, ReuseLease
  <2>4. CASE Abandon(c)
    BY <2>4, QuietLease DEF Abandon, Accepted
  <2>5. CASE FinishKeep(c) \/ FinishDestroy(c)
    BY <2>5, FinishLease
  <2>6. QED
    BY <1>5, <2>1, <2>2, <2>3, <2>4, <2>5 DEF CallerNext
<1>6. QED
  BY <1>1, <1>2, <1>3, <1>4, <1>5 DEF Next

\* The agent keeps the promise of SocketLease: pool, queue, timers and
\* http.Agent's list together lease each socket to one caller at a time, and
\* only an HTTP request passes its socket on.
THEOREM LeaseImplemented == Spec => ImplementsLease
<1>1. Init => OneFree
  BY DEF Init, OneFree
<1>2. Init /\ LeaseRight => Lease!Init
  <2> SUFFICES ASSUME Init, LeaseRight PROVE Lease!Init
    OBVIOUS
  <2>1. Pool = {} /\ Pending = {} /\ free = {} /\ Accepted = {}
    BY DEF Init, Pool, Pending, Elements, Accepted
  <2>2. \A s \in Sockets : ~Placed(s)
    BY <2>1, AgentAssumption DEF Init, Placed, Holder
  <2>3. QED
    BY <2>1, <2>2 DEF LeaseRight, Lease!Init
<1>3. Spec => []OneFree
  BY <1>1, StepOneFree, TypeCorrect, PTL DEF Spec
<1>4. Spec => [](TypeOK /\ PoolInv)
  BY PoolInvariant, TypeCorrect, PTL
<1>5. QED
  BY <1>2, <1>3, <1>4, LeaseIs, StepLease, PTL DEF Spec, ImplementsLease, Lease!Spec
=============================================================================

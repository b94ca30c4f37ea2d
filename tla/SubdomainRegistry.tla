------------------------- MODULE SubdomainRegistry -------------------------
(***************************************************************************)
(* What the server promises about subdomains, with no ports, timers or     *)
(* client objects: a subdomain belongs to nobody or to one identity (a     *)
(* token or an IP), it changes owner only through being given up, and it   *)
(* is given up only while its owner has no connection.                     *)
(***************************************************************************)

CONSTANTS Ids, Identities, Nobody

VARIABLES owner, connected

vars == <<owner, connected>>

RegistryTypeOK ==
  /\ owner \in [Ids -> Identities \cup {Nobody}]
  /\ connected \in SUBSET Ids

Init ==
  /\ owner = [i \in Ids |-> Nobody]
  /\ connected = {}

Claim(i, who) ==
  /\ owner[i] = Nobody
  /\ owner' = [owner EXCEPT ![i] = who]
  /\ UNCHANGED connected

\* The first tunnel socket of the owner.
Connect(i) ==
  /\ owner[i] # Nobody
  /\ connected' = connected \cup {i}
  /\ UNCHANGED owner

\* The owner's last socket closed, or the owner asked for the name again.
Drop(i) ==
  /\ i \in connected
  /\ connected' = connected \ {i}
  /\ UNCHANGED owner

Expire(i) ==
  /\ owner[i] # Nobody
  /\ i \notin connected
  /\ owner' = [owner EXCEPT ![i] = Nobody]
  /\ UNCHANGED connected

Next ==
  \E i \in Ids :
    \/ Connect(i) \/ Drop(i) \/ Expire(i)
    \/ \E who \in Identities : Claim(i, who)

Spec == Init /\ [][Next]_vars
=============================================================================

----------------------------- MODULE ClientLife -----------------------------
(***************************************************************************)
(* What the server promises about one Client, with no sockets, ids, ports  *)
(* or clock: it comes online only after its setImmediate and while it is   *)
(* in the map, its timer runs out only while it is offline, and once out   *)
(* of the map it never comes online again, though it may still be online   *)
(* and its timer may be set once more.                                     *)
(*                                                                         *)
(* PublicServer, with one client and its whole agent, ClientManager, with  *)
(* many, and GraceClock, with one and the time, each implement it: they    *)
(* abstract different parts of the same life.                              *)
(***************************************************************************)

VARIABLES
  mapped,  \* the manager has it
  young,   \* its setImmediate has not run
  online,  \* it has a connection
  timer    \* its grace timer is set

vars == <<mapped, young, online, timer>>

Init == ~mapped /\ ~young /\ ~online /\ ~timer

\* A client is made, where there is none or nothing is left of an earlier one.
Born ==
  /\ ~mapped /\ ~young /\ ~online /\ ~timer
  /\ mapped' = TRUE
  /\ young' = TRUE
  /\ UNCHANGED <<online, timer>>

\* The setImmediate, of a client that was replaced meanwhile as well.
Settle ==
  /\ young
  /\ ~online
  /\ young' = FALSE
  /\ timer' = TRUE
  /\ UNCHANGED <<mapped, online>>

Connect ==
  /\ mapped /\ ~young /\ ~online
  /\ online' = TRUE
  /\ timer' = FALSE
  /\ UNCHANGED <<mapped, young>>

Disconnect ==
  /\ online
  /\ online' = FALSE
  /\ timer' = TRUE
  /\ UNCHANGED <<mapped, young>>

\* The timer, of a client that was replaced as well.
Expire ==
  /\ timer /\ ~online
  /\ mapped' = FALSE
  /\ timer' = FALSE
  /\ UNCHANGED <<young, online>>

\* Its owner asks for the subdomain again.
Replace ==
  /\ mapped
  /\ mapped' = FALSE
  /\ timer' = FALSE
  /\ UNCHANGED <<young, online>>

Next == Born \/ Settle \/ Connect \/ Disconnect \/ Expire \/ Replace

Spec == Init /\ [][Next]_vars
=============================================================================

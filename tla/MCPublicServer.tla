--------------------------- MODULE MCPublicServer --------------------------
(* TLC instances of PublicServer: one request and two upgrades, and two    *)
(* tunnel sockets: with a limit of one the second connection is refused,   *)
(* and callers outnumber sockets; with two one can be kept while the other *)
(* is used.                                                                *)
EXTENDS PublicServer, TLC

CONSTANTS s1, s2, h1, u1, u2

MCSockets == {s1, s2}
MCHttpCallers == {h1}
MCUpgradeCallers == {u1, u2}
MCOneUpgradeCaller == {u1}
=============================================================================

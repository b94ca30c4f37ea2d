--------------------------- MODULE MCTunnelAgent ---------------------------
(* TLC instances of TunnelAgent: three connections against a limit of two, *)
(* so that every limit is met, and a caller of each kind plus one.         *)
EXTENDS TunnelAgent, TLC

CONSTANTS s1, s2, s3, h1, h2, u1

MCSockets == {s1, s2, s3}
MCTwoSockets == {s1, s2}
MCHttpCallers == {h1, h2}
MCOneHttpCaller == {h1}
MCUpgradeCallers == {u1}
=============================================================================

-------------------------- MODULE MCClientManager --------------------------
(* TLC instances of ClientManager: two subdomains and 'size', two          *)
(* identities, three client objects, so that one can linger after two have *)
(* followed it.                                                            *)
EXTENDS ClientManager, TLC

CONSTANTS a, b, size, x, y, k1, k2, k3

MCIds == {a, b, size}
MCAccessors == {size}
MCIdentities == {x, y}
MCClients == {k1, k2, k3}
MCTwoClients == {k1, k2}
MCSymmetry == Permutations(MCClients) \cup Permutations(MCIdentities)
=============================================================================

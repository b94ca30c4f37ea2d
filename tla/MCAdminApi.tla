----------------------------- MODULE MCAdminApi -----------------------------
(* TLC instances of AdminApi: two subdomains of which one is also asked    *)
(* for by name, 'size', a caller with a token and one without, and two     *)
(* requests under way.                                                     *)
EXTENDS AdminApi, TLC

CONSTANTS a, b, size, bad, token1, address1, proxy1, k1, k2, r1, r2

MCIds == {a, b, size}
MCAccessors == {size}
MCClients == {k1, k2}
MCRequests == {r1, r2}
MCNames == {a, size, bad}
MCShape ==
  (a   :> [length |-> 6, plain |-> TRUE, hyphen |-> TRUE, hyphenAtEnd |-> FALSE]) @@
  (size :> [length |-> 4, plain |-> TRUE, hyphen |-> FALSE, hyphenAtEnd |-> FALSE]) @@
  (bad :> [length |-> 5, plain |-> TRUE, hyphen |-> TRUE, hyphenAtEnd |-> FALSE])
MCHeaders ==
  {[token |-> token1, tokenValid |-> TRUE, forwarded |-> address1, realIp |-> NoHeader, peer |-> proxy1],
   [token |-> token1, tokenValid |-> FALSE, forwarded |-> address1, realIp |-> NoHeader, peer |-> proxy1],
   [token |-> NoHeader, tokenValid |-> FALSE, forwarded |-> NoHeader, realIp |-> address1, peer |-> proxy1]}
MCIdentities == {<<"token", token1>>, <<"ip", address1>>}
MCDomain == <<"tunnel", "example", "com">>
MCHosts == {[labels |-> MCDomain, port |-> 8080]}
MCPort == [number |-> 80, text |-> TRUE]
=============================================================================

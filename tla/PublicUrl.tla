----------------------------- MODULE PublicUrl -----------------------------
(***************************************************************************)
(* The public URL of a tunnel: how server.js makes it for the answer of    *)
(* the admin API, from options of bin/server.mjs, and how the public       *)
(* server finds the tunnel again in a Host header.                         *)
(*                                                                         *)
(* A host is the sequence of its labels and the port written after it.     *)
(***************************************************************************)
EXTENDS Integers, Sequences

CONSTANTS Secure,          \* opt.secure
          HttpProxyPort,   \* opt.httpProxyPort, a number or Absent
          HttpsProxyPort,  \* opt.httpsProxyPort
          Port,            \* opt.port
          Domain,          \* opt.domain, as labels
          Absent           \* undefined, NaN, or no port in a host

\* bin/server.mjs: the port is text when it comes from LT_PORT or from the
\* default, a number when it was given on the command line.
PortOption == [number : Nat \ {0}, text : BOOLEAN]

ASSUME UrlAssumption ==
  /\ Secure \in BOOLEAN
  /\ {HttpProxyPort, HttpsProxyPort} \subseteq Nat \cup {Absent}
  /\ Absent \notin Nat
  /\ Port \in PortOption
  /\ Domain \in Seq(STRING) /\ Domain # <<>>

schema == IF Secure THEN "https" ELSE "http"
defaultPort == IF Secure THEN 443 ELSE 80

\* The proxy's port when it is configured, else the server's own.
publicUrlPort ==
  LET proxy == IF Secure THEN HttpsProxyPort ELSE HttpProxyPort
  IN IF proxy = Absent THEN Port ELSE [number |-> proxy, text |-> FALSE]

\* Mutant of buildPublicUrl: opt.secure is not looked at for the scheme.
buildHttpsUrl(tunnelId, requestHost) ==
  [schema |-> "https",
   labels |-> <<tunnelId>> \o requestHost.labels,
   port   |-> IF publicUrlPort = [number |-> defaultPort, text |-> FALSE]
                THEN Absent ELSE publicUrlPort.number]

\* The port is left out if it is the standard one: the comparison is strict, so
\* a port that is text never is.
buildPublicUrl(tunnelId, requestHost) ==
  [schema |-> schema,
   labels |-> <<tunnelId>> \o requestHost.labels,
   port   |-> IF publicUrlPort = [number |-> defaultPort, text |-> FALSE]
                THEN Absent ELSE publicUrlPort.number]

\* tldjs.getSubdomain with the domain as its only valid host: what is left of
\* the domain, Absent if nothing is, or if it is a host of another domain.
getSubdomain(host) ==
  LET n == Len(host) - Len(Domain)
  IN IF n > 0 /\ SubSeq(host, n + 1, Len(host)) = Domain
       THEN SubSeq(host, 1, n) ELSE Absent

\* Where a browser connects.
EffectivePort(url) ==
  IF url.port # Absent THEN url.port ELSE IF url.schema = "https" THEN 443 ELSE 80
=============================================================================

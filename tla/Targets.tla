------------------------------- MODULE Targets -------------------------------
(***************************************************************************)
(* Which receivers a browser may connect to, and how the address it gives   *)
(* becomes the URI that is dialled (internal/connvalidate/validate.go).     *)
(*                                                                          *)
(* A text is abstracted to what the code tells apart: the name in it, the   *)
(* blanks around it and the brackets of an IPv6 literal.  A URI that was    *)
(* parsed or built has a name, a port and nothing else: net.JoinHostPort    *)
(* adds the brackets where the name needs them and url.Hostname takes them  *)
(* off (both external).  A URI is parsed more than once on its way to the   *)
(* dial, and url.Parse decodes: what it makes of a name is Parsed[name].    *)
(***************************************************************************)
EXTENDS Integers

CONSTANTS
  Names,      \* host names and address literals
  Empty,      \* no characters
  IP,         \* the names that are address literals, each with its kind
  Localhost,  \* "localhost" and names that end in ".localhost"
  Resolver,   \* the kinds of the addresses of every other name, {} if it has none
  Parsed,     \* what url.Parse makes of each name in a URI, or Malformed: most are
              \* kept, the %25 before the zone of an IPv6 literal becomes %, and a
              \* bare % does not parse
  Malformed,  \* the URI does not parse
  NoPort,     \* a URI without a port
  Refused,    \* an error
  Panic       \* the handler panics

\* Kinds of address: those isNonPublicIP names, the unspecified ones (0.0.0.0 and
\* ::, which the system dials as this host), and any other
NonPublic == {"loopback", "private", "link-local", "link-local multicast", "unique local"}
Kind == NonPublic \cup {"unspecified", "public"}

ASSUME TargetsAssumption ==
  /\ Empty \in Names \ (DOMAIN IP \cup Localhost)
  /\ DOMAIN IP \cap Localhost = {}
  /\ DOMAIN IP \cup Localhost \subseteq Names
  /\ IP \in [DOMAIN IP -> Kind]
  /\ Resolver \in [Names \ (DOMAIN IP \cup Localhost) -> SUBSET Kind]
  /\ Parsed \in [Names -> Names \cup {Malformed}] /\ Malformed \notin Names
  /\ \A n \in Names : Parsed[n] = Empty <=> n = Empty
  /\ NoPort \notin Int

Text == [name : Names, blanks : BOOLEAN, brackets : BOOLEAN]
MaxPort == 65535
PortNumber == 1 .. MaxPort
Target == [host : Names, port : PortNumber]

\* A URI as it is typed: scheme is "none" when it has no "://".
URI == [scheme : {"none", "tcp", "tcp4", "tcp6", "other"}, host : Text, port : Int \cup {NoPort}]

TrimSpace(t) == [t EXCEPT !.blanks = FALSE]

\* t = ""
IsEmpty(t) == t.name = Empty /\ ~t.blanks /\ ~t.brackets

\* The brackets go, so "[]" is not refused here.
BuildTCPURI(t, port) ==
  IF IsEmpty(TrimSpace(t)) \/ port \notin PortNumber
  THEN Refused
  ELSE [host |-> t.name, port |-> port]

\* u.Hostname() of a URI that was parsed
Hostname(name) == [name |-> name, blanks |-> FALSE, brackets |-> FALSE]

\* Blanks in the host do not parse.
NormalizeTCPURI(u) ==
  IF \/ u.scheme = "other"
     \/ u.host.blanks \/ Parsed[u.host.name] \in {Malformed, Empty}
     \/ u.port = NoPort
  THEN Refused
  ELSE BuildTCPURI(Hostname(Parsed[u.host.name]), u.port)

\* "tcp://host:port" of a target, for a function that takes a URI
TCP(target) == [scheme |-> "tcp", host |-> Hostname(target.host), port |-> target.port]

isNonPublicIP(kind) == kind \in NonPublic

\* What a target is when its URI is parsed again, as for the dial
Reparsed(target) ==
  IF target = Refused \/ Parsed[target.host] = Malformed THEN Refused
  ELSE [target EXCEPT !.host = Parsed[target.host]]

\* Mutant: one address is looked at.
OneAddress(name) ==
  IF name \in DOMAIN IP THEN isNonPublicIP(IP[name])
  ELSE name \in Localhost \/ \A kind \in Resolver[name] : isNonPublicIP(kind)

\* Whether the name stands for, or resolves to, an address of this host or network
HostIsNonPublic(name) ==
  IF name \in DOMAIN IP THEN isNonPublicIP(IP[name])
  ELSE name \in Localhost \/ \E kind \in Resolver[name] : isNonPublicIP(kind)

\* net.LookupIP fails or finds nothing
Unresolved(name) ==
  name \notin DOMAIN IP \cup Localhost /\ Resolver[name] = {}

\* The error of the second url.Parse is ignored: its result is nil then, and
\* u.Hostname() panics.
ValidateBrowserTCP(u, allowLocal) ==
  LET norm == NormalizeTCPURI(u)
      name == Reparsed(norm).host
  IN IF norm = Refused \/ allowLocal THEN norm
     ELSE IF Reparsed(norm) = Refused THEN Panic
     ELSE IF Unresolved(name) \/ HostIsNonPublic(name) THEN Refused
     ELSE norm

\* Manager.ConnectBrowser and ConnectBrowserURI, up to connectURI
ConnectBrowser(t, port, allowLocal) ==
  LET target == BuildTCPURI(t, port)
  IN IF target = Refused THEN Refused ELSE ValidateBrowserTCP(TCP(target), allowLocal)

ConnectBrowserURI(u, allowLocal) == ValidateBrowserTCP(u, allowLocal)
=============================================================================

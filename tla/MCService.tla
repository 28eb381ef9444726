------------------------------ MODULE MCService ------------------------------
(* Service with two connections and a few names, given in every way. *)
EXTENDS Service, TLC

CONSTANTS c1, c2, sps, ula, home, mixed, zone, zoned, empty

TwoClients == {c1, c2}
SomeNames == {sps, ula, home, mixed, zone, zoned, empty}

\* fd00::1, "localhost", a name that also resolves to 0.0.0.0, one that also
\* resolves to 10.0.0.1, and fe80::1%25eth0, which parses as fe80::1%eth0, which
\* does not parse
Literals == ula :> "unique local"
Home == {home}
Answers == sps :> {"public", "unspecified"} @@ mixed :> {"public", "private"}
             @@ zoned :> {"link-local"} @@ zone :> {} @@ empty :> {}
Decoded == [n \in SomeNames \ {zone, zoned} |-> n] @@ zone :> zoned @@ zoned :> Malformed

Plain(n) == [name |-> n, blanks |-> FALSE, brackets |-> FALSE]
Bracketed(n) == [name |-> n, blanks |-> FALSE, brackets |-> TRUE]
Blank(n) == [name |-> n, blanks |-> TRUE, brackets |-> FALSE]

SomeTexts == {Blank(sps), Bracketed(ula), Plain(empty)}
SomePorts == {0, 5017}
SomeURIs == {
  [scheme |-> "tcp4", host |-> Plain(mixed), port |-> 5017],
  [scheme |-> "none", host |-> Plain(home), port |-> 5017],
  [scheme |-> "tcp6", host |-> Bracketed(zone), port |-> 5017],
  [scheme |-> "tcp", host |-> Plain(sps), port |-> NoPort],
  [scheme |-> "other", host |-> Plain(sps), port |-> 5017]}

\* The text of an IPv6 literal is longer.
TextLengths == [f \in Forms |-> IF f.host.name = ula THEN 3 ELSE 2]
=============================================================================

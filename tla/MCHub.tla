-------------------------------- MODULE MCHub --------------------------------
(* Hub on two publishers and one or two event-stream handlers. *)
EXTENDS Hub

CONSTANTS p1, p2, c1, c2

MCPublishers == {p1, p2}
MCClients == {c1, c2}
OneClient == {c1}
=============================================================================

------------------------------- MODULE MCStats -------------------------------
(* Stats with a connection and the one it replaced. *)
EXTENDS Stats

CONSTANTS c1, c2

OffInfoDebug == {0, 1, 2}
TwoConns == {c1, c2}
=============================================================================

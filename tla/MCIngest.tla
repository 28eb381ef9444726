------------------------------- MODULE MCIngest -------------------------------
(* Ingest with two goroutine slots: a connection and one it replaced. *)
EXTENDS Ingest

CONSTANTS r1, r2, u1, u2

TwoRuns == {r1, r2}
OneRun == {r1}
OnePort == {u1}
TwoPorts == {u1, u2}
=============================================================================

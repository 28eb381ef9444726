------------------------------ MODULE MCSignals ------------------------------
(* Signals on all systems with up to three of the blocks that share a column. *)
EXTENDS Signals

AllSystems == 0 .. 11
SomeBlocks == {L1, L2, E1, L5, E5B}
SomeTracks == {0, 1, 20}
TwoSNRs == {40, 41}
=============================================================================

--------------------------- MODULE MCEventStream ---------------------------
(* EventStream with two goroutines that publish: a callback and a request. *)
EXTENDS EventStream

CONSTANTS p1, p2

TwoPublishers == {p1, p2}
=============================================================================

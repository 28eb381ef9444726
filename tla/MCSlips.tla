-------------------------------- MODULE MCSlips --------------------------------
(* Slips on two signals, of which the first may also have the slip flag. *)
EXTENDS Slips

First == {1}
\* Ages 30, 60, 90, 270, 300 and 330: on both sides of the limits and at them.
AroundLimits == {-2, 30, 270}
=============================================================================

---------------------------- MODULE MCSnqQueue ----------------------------
(* Instances of SnqQueue for TLC. *)
EXTENDS SnqQueue

CONSTANTS z, x

DefaultSmallOdd == {0, 1, 3}
Three == {3}
TwoSizes == {1, 4}
=============================================================================

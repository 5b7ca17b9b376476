---------------------------- MODULE MCSnqStack ----------------------------
(* Instances of SnqStack for TLC. *)
EXTENDS SnqStack

CONSTANTS z, x

DefaultSmallOdd == {0, 1, 3}
Three == {3}
TwoSizes == {1, 4}
=============================================================================

----------------------------- MODULE Container ------------------------------
(* What the containers of stdlib have in common: storage that doubles.     *)
EXTENDS Integers

CONSTANT MaxCapacity   \* bound: nothing doubles beyond it

ASSUME BoundAssumption == MaxCapacity \in Nat

VARIABLE capacity
=============================================================================

---------------------------- MODULE MCOwnership ----------------------------
(* The instance of Ownership that TLC checks: one name, so that every      *)
(* second declaration of it shadows the first.                             *)
EXTENDS Ownership
=============================================================================

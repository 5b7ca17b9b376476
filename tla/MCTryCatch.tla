---------------------------- MODULE MCTryCatch ----------------------------
(* Instances of TryCatch for TLC. *)
EXTENDS TryCatch

CONSTANTS A, B

\* A clause with one arm, one and two arms before a wildcard, and one without
\* a wildcard, whose errors may match no arm.
Clauses == {<<A>>, <<A, Wildcard>>, <<A, B, Wildcard>>, <<B, A>>}
=============================================================================

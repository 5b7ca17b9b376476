----------------------------- MODULE MCHotReload -----------------------------
(* Instances of HotReload for TLC. *)
EXTENDS HotReload

CONSTANTS b1, b2, b3, p, q

\* The last source has dropped q.
DropsFn == [b \in Builders |-> IF b = b3 THEN {p} ELSE {p, q}]
=============================================================================

----------------------------- MODULE MCHashMap ------------------------------
(* Four keys: three collide in a table of one or two chains, two in one of   *)
(* four.                                                                     *)
EXTENDS HashMap

FourKeys == 1..4
Hashes   == <<0, 2, 4, 1>>
=============================================================================

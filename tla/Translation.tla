----------------------------- MODULE Translation -----------------------------
(***************************************************************************)
(* Emission with the expressions that Expressions writes.                  *)
(***************************************************************************)
EXTENDS Emission, Expressions

(* The C of every expression, read by a C compiler, groups as the source   *)
(* does and calls the same functions with the same objects, but for the    *)
(* expressions that Misread and CastOfMore name; methods and errors are    *)
(* not checked, so what they hold has no types.                            *)
ExpressionsRead ==
    Done => \A k \in DOMAIN file : \A x \in file[k].texts :
               ReadsAsMeant(x.text, x.c, file[k].what = "body")
=============================================================================

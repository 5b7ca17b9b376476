----------------------------- MODULE Dictionary -----------------------------
(* What stdlib/map.h promises: each key has the value that was set last.     *)
(* A call is begun with its arguments and ended by its effect, which is the  *)
(* one its operation has on its own key and with its own value.  Only the    *)
(* set of a key that is not there may end without one.                       *)
EXTENDS FiniteSets, Naturals

CONSTANTS Keys, Values

VARIABLES dict,   \* the values of the keys that are there
          doing,  \* the operation of the call under way, or "ready"
          arg,    \* the key and the value, or default, of the last call
          ans     \* what the last question was answered

Operations == {"set", "get", "has", "remove", "size", "clear"}

Has(k) == k \in DOMAIN dict

Init == DOMAIN dict = {} /\ doing = "ready" /\ arg \in [key : Keys, value : Values] /\ ans = 0

Begin == /\ doing = "ready" /\ doing' \in Operations
         /\ arg' \in [key : Keys, value : Values]
         /\ UNCHANGED <<dict, ans>>

End(o) == doing = o /\ doing' = "ready" /\ UNCHANGED arg

Put == /\ End("set") /\ UNCHANGED ans
       /\ dict' = [j \in DOMAIN dict \cup {arg.key} |-> IF j = arg.key THEN arg.value ELSE dict[j]]

Refuse == End("set") /\ ~Has(arg.key) /\ UNCHANGED <<dict, ans>>

Drop == /\ End("remove") /\ UNCHANGED ans
        /\ dict' = [j \in DOMAIN dict \ {arg.key} |-> dict[j]]

Clear == End("clear") /\ DOMAIN dict' = {} /\ UNCHANGED ans

Get == End("get") /\ UNCHANGED dict /\ ans' = IF Has(arg.key) THEN dict[arg.key] ELSE arg.value

HasKey == End("has") /\ UNCHANGED dict /\ ans' = IF Has(arg.key) THEN 1 ELSE 0

Measure == End("size") /\ UNCHANGED dict /\ ans' = Cardinality(DOMAIN dict)

Next == Begin \/ Put \/ Refuse \/ Drop \/ Clear \/ Get \/ HasKey \/ Measure

Spec == Init /\ [][Next]_<<dict, doing, arg, ans>>
=============================================================================

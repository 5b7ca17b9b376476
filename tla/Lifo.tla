-------------------------------- MODULE Lifo --------------------------------
(* What Tight-C's `stack<T>` promises (stdlib/snq.h): the value that entered  *)
(* last leaves first.  A push may be refused as a whole; pop and peek of an   *)
(* empty stack give no value.                                                 *)
EXTENDS Sequences

CONSTANTS Elem, NULL

VARIABLES lifo,   \* the values in the stack, newest first
          out     \* the value the last pop or peek gave, or NULL

TypeOK == lifo \in Seq(Elem) /\ out \in Elem \cup {NULL}

Init == lifo = << >> /\ out = NULL

Put(x) == lifo' = <<x>> \o lifo /\ UNCHANGED out

Take == /\ lifo # << >>
        /\ out' = Head(lifo) /\ lifo' = Tail(lifo)

Look == /\ lifo # << >>
        /\ out' = Head(lifo) /\ UNCHANGED lifo

Miss == /\ lifo = << >>
        /\ out' = NULL /\ UNCHANGED lifo

Clear == lifo' = << >> /\ UNCHANGED out

Next == (\E x \in Elem : Put(x)) \/ Take \/ Look \/ Miss \/ Clear

Spec == Init /\ [][Next]_<<lifo, out>>
=============================================================================

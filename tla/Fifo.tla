-------------------------------- MODULE Fifo --------------------------------
(* What Tight-C's `queue<T>` promises (stdlib/snq.h): values of one element   *)
(* size leave in the order they entered.  A push may be refused as a whole;   *)
(* pop and peek of an empty queue give no value.                              *)
EXTENDS Sequences

CONSTANTS Elem, NULL

VARIABLES fifo,   \* the values in the queue, oldest first
          out     \* the value the last pop or peek gave, or NULL

TypeOK == fifo \in Seq(Elem) /\ out \in Elem \cup {NULL}

Init == fifo = << >> /\ out = NULL

Put(x) == fifo' = Append(fifo, x) /\ UNCHANGED out

Take == /\ fifo # << >>
        /\ out' = Head(fifo) /\ fifo' = Tail(fifo)

Look == /\ fifo # << >>
        /\ out' = Head(fifo) /\ UNCHANGED fifo

Miss == /\ fifo = << >>
        /\ out' = NULL /\ UNCHANGED fifo

Clear == fifo' = << >> /\ UNCHANGED out

Next == (\E x \in Elem : Put(x)) \/ Take \/ Look \/ Miss \/ Clear

Spec == Init /\ [][Next]_<<fifo, out>>
=============================================================================

----------------------------- MODULE SnqBuffer ------------------------------
(***************************************************************************)
(* What Queue and Stack of stdlib/snq.h have in common: cells that the     *)
(* first push allocates, and the pointer into them that pop and peek       *)
(* return.                                                                 *)
(***************************************************************************)
EXTENDS Container

CONSTANTS
    Elem,          \* element values
    Zero,          \* the value of a cell calloc has cleared
    Sizes,         \* the elem_size arguments of pushes
    Requests,      \* the capacity arguments of queue_create and stack_create
    NULL

\* A pointer into a buffer.
Pointer == [gen : Nat, cell : Nat]

ASSUME ElemAssumption == Zero \in Elem /\ NULL \notin Elem \cup Pointer
ASSUME SizeAssumption == Sizes \subseteq Nat \ {0} /\ Requests \subseteq Int

VARIABLES
    items,      \* NoBuffer (the null pointer), or the cells of the buffer
    elem_size,
    gen,        \* which allocation items is: the earlier ones are freed
    ptr,        \* the pointer pop or peek last returned: NULL, or a cell of a buffer
    out         \* the value the caller read through it at once

Cells(c) == [0..c-1 -> Elem]

\* items before the first push: there is no cell.
NoBuffer == [i \in {} |-> Zero]
=============================================================================

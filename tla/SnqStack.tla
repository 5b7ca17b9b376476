------------------------------ MODULE SnqStack ------------------------------
(***************************************************************************)
(* The stack of stdlib/snq.h: an array that is allocated by the first push,*)
(* which fixes the element size, and doubles when a push finds it full.    *)
(* One handle, called by one thread; each call is one step.                *)
(***************************************************************************)
EXTENDS SnqBuffer

VARIABLE top

array == <<items, capacity, top, elem_size, gen>>
stackvars == <<array, ptr, out>>

StackTypeOK ==
    /\ capacity \in Nat \ {0}
    /\ items # NoBuffer => items \in Cells(capacity)
    /\ top \in 0..capacity
    /\ elem_size \in Sizes \cup {0}
    /\ gen \in Nat
    /\ ptr \in Pointer \cup {NULL}
    /\ out \in Elem \cup {NULL}

\* stack_create; the compiler passes the number of initializers, and 0 for none.
StackInit ==
    /\ \E n \in Requests : capacity = IF n <= 0 THEN 8 ELSE n
    /\ items = NoBuffer
    /\ top = 0
    /\ elem_size = 0
    /\ gen = 0 /\ ptr = NULL /\ out = NULL

-----------------------------------------------------------------------------

\* The first push allocates and fixes the element size.
StackPushFirst(x, n) ==
    /\ items = NoBuffer
    /\ elem_size' = n
    /\ items' = [i \in 0..capacity-1 |-> IF i = top THEN x ELSE Zero]
    /\ top' = top + 1
    /\ gen' = gen + 1
    /\ UNCHANGED <<capacity, ptr, out>>

StackPushRoom(x, n) ==
    /\ items # NoBuffer /\ elem_size = n
    /\ top < capacity
    /\ items' = [items EXCEPT ![top] = x]
    /\ top' = top + 1
    /\ UNCHANGED <<capacity, elem_size, gen, ptr, out>>

\* Mutant: the copy stops one element short.
DoubledShort == [i \in 0..2*capacity-1 |-> IF i < capacity - 1 THEN items[i] ELSE Zero]

\* The doubled buffer: memcpy of the whole old one.
StackDoubled == [i \in 0..2*capacity-1 |-> IF i < capacity THEN items[i] ELSE Zero]

StackPushGrow(x, n) ==
    /\ items # NoBuffer /\ elem_size = n
    /\ top >= capacity
    /\ 2 * capacity <= MaxCapacity
    /\ items' = [StackDoubled EXCEPT ![top] = x]
    /\ capacity' = 2 * capacity
    /\ top' = top + 1
    /\ gen' = gen + 1
    /\ UNCHANGED <<elem_size, ptr, out>>

\* A push that finds no memory, or that has another element size, is dropped
\* without a word; a failed first allocation still records the element size.
StackPushDropped(n) ==
    \/ /\ items = NoBuffer
       /\ elem_size' = n
       /\ UNCHANGED <<items, capacity, top, gen, ptr, out>>
    \/ /\ items # NoBuffer
       /\ elem_size # n \/ top >= capacity
       /\ UNCHANGED stackvars

StackPush(x, n) == \/ StackPushFirst(x, n) \/ StackPushRoom(x, n)
                   \/ StackPushGrow(x, n) \/ StackPushDropped(n)

\* Mutant: pop clears the cell it leaves.
StackPopClears ==
    /\ top # 0 /\ items # NoBuffer
    /\ top' = top - 1
    /\ ptr' = [gen |-> gen, cell |-> top - 1]
    /\ out' = items[top - 1]
    /\ items' = [items EXCEPT ![top - 1] = Zero]
    /\ UNCHANGED <<capacity, elem_size, gen>>

StackPop ==
    /\ top # 0 /\ items # NoBuffer
    /\ top' = top - 1
    /\ ptr' = [gen |-> gen, cell |-> top - 1]
    /\ out' = items[top - 1]
    /\ UNCHANGED <<items, capacity, elem_size, gen>>

StackPeek ==
    /\ top # 0 /\ items # NoBuffer
    /\ ptr' = [gen |-> gen, cell |-> top - 1]
    /\ out' = items[top - 1]
    /\ UNCHANGED array

\* pop and peek of an empty stack return NULL.
StackEmpty ==
    /\ top = 0 \/ items = NoBuffer
    /\ ptr' = NULL /\ out' = NULL
    /\ UNCHANGED array

\* stack_clear keeps the buffer and the element size; ptr is followed no further.
StackClear ==
    /\ top' = 0
    /\ ptr' = NULL
    /\ UNCHANGED <<items, capacity, elem_size, gen, out>>

StackNext == \/ \E x \in Elem, n \in Sizes : StackPush(x, n)
             \/ StackPop \/ StackPeek \/ StackEmpty \/ StackClear

StackSpec == StackInit /\ [][StackNext]_stackvars

-----------------------------------------------------------------------------

\* Nothing is counted before the buffer exists, so no push or pop indexes NULL.
ArrayInv == items = NoBuffer => top = 0

\* The stack as a sequence, newest first.
StackContents == [i \in 1..top |-> items[top - i]]

StackAbstract == INSTANCE Lifo WITH lifo <- StackContents

\* The array is a LIFO stack: pops and peeks return the newest value left, across
\* growth, clear and dropped pushes.
IsLifo == StackAbstract!Spec

\* C code may keep the pointer pop returned (stdlib/note.txt warns against it): it
\* still reads the popped value until the buffer is reallocated or the stack grows
\* over its cell again.
StackLastPointerHolds ==
    ptr # NULL /\ ptr.gen = gen /\ top <= ptr.cell => items[ptr.cell] = out
=============================================================================

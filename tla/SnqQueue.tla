------------------------------ MODULE SnqQueue ------------------------------
(***************************************************************************)
(* The queue of stdlib/snq.h: a ring buffer that is allocated by the first *)
(* push, which fixes the element size, and doubles when a push finds it    *)
(* full.  One handle, called by one thread; each call is one step.         *)
(*                                                                         *)
(* pop and peek return a pointer into the buffer, which compiled Tight-C   *)
(* code dereferences at once; C code may hold it.                          *)
(***************************************************************************)
EXTENDS SnqBuffer

VARIABLES head, tail, count

ring == <<items, capacity, head, tail, count, elem_size, gen>>
queuevars == <<ring, ptr, out>>

\* Index i taken around a ring of c cells.
Wrap(i, c) == i % c

QueueTypeOK ==
    /\ capacity \in Nat \ {0}
    /\ items # NoBuffer => items \in Cells(capacity)
    /\ head \in 0..capacity-1
    /\ tail \in 0..capacity-1
    /\ count \in 0..capacity
    /\ elem_size \in Sizes \cup {0}
    /\ gen \in Nat
    /\ ptr \in Pointer \cup {NULL}
    /\ out \in Elem \cup {NULL}

\* queue_create; the compiler passes the number of initializers, and 0 for none.
QueueInit ==
    /\ \E n \in Requests : capacity = IF n <= 0 THEN 8 ELSE n
    /\ items = NoBuffer
    /\ head = 0 /\ tail = 0 /\ count = 0
    /\ elem_size = 0
    /\ gen = 0 /\ ptr = NULL /\ out = NULL

-----------------------------------------------------------------------------

\* The first push allocates and fixes the element size.
QueuePushFirst(x, n) ==
    /\ items = NoBuffer
    /\ elem_size' = n
    /\ items' = [i \in 0..capacity-1 |-> IF i = tail THEN x ELSE Zero]
    /\ tail' = Wrap(tail + 1, capacity)
    /\ count' = count + 1
    /\ gen' = gen + 1
    /\ UNCHANGED <<capacity, head, ptr, out>>

QueuePushRoom(x, n) ==
    /\ items # NoBuffer /\ elem_size = n
    /\ count < capacity
    /\ items' = [items EXCEPT ![tail] = x]
    /\ tail' = Wrap(tail + 1, capacity)
    /\ count' = count + 1
    /\ UNCHANGED <<capacity, head, elem_size, gen, ptr, out>>

\* Mutant: the cells are copied as they lie, not from head.
DoubledInPlace == [i \in 0..2*capacity-1 |-> IF i < count THEN items[i] ELSE Zero]

\* The doubled buffer: the elements moved to its start, oldest first.
QueueDoubled == [i \in 0..2*capacity-1 |->
                   IF i < count THEN items[Wrap(head + i, capacity)] ELSE Zero]

QueuePushGrow(x, n) ==
    /\ items # NoBuffer /\ elem_size = n
    /\ count >= capacity
    /\ 2 * capacity <= MaxCapacity
    /\ items' = [QueueDoubled EXCEPT ![count] = x]
    /\ capacity' = 2 * capacity
    /\ head' = 0
    /\ tail' = Wrap(count + 1, 2 * capacity)
    /\ count' = count + 1
    /\ gen' = gen + 1
    /\ UNCHANGED <<elem_size, ptr, out>>

\* A push that finds no memory, or that has another element size, is dropped
\* without a word; a failed first allocation still records the element size.
QueuePushDropped(n) ==
    \/ /\ items = NoBuffer
       /\ elem_size' = n
       /\ UNCHANGED <<items, capacity, head, tail, count, gen, ptr, out>>
    \/ /\ items # NoBuffer
       /\ elem_size # n \/ count >= capacity
       /\ UNCHANGED queuevars

QueuePush(x, n) == \/ QueuePushFirst(x, n) \/ QueuePushRoom(x, n)
                   \/ QueuePushGrow(x, n) \/ QueuePushDropped(n)

\* Mutant: pop clears the cell it leaves.
QueuePopClears ==
    /\ count # 0 /\ items # NoBuffer
    /\ ptr' = [gen |-> gen, cell |-> head]
    /\ out' = items[head]
    /\ items' = [items EXCEPT ![head] = Zero]
    /\ head' = Wrap(head + 1, capacity)
    /\ count' = count - 1
    /\ UNCHANGED <<capacity, tail, elem_size, gen>>

QueuePop ==
    /\ count # 0 /\ items # NoBuffer
    /\ ptr' = [gen |-> gen, cell |-> head]
    /\ out' = items[head]
    /\ head' = Wrap(head + 1, capacity)
    /\ count' = count - 1
    /\ UNCHANGED <<items, capacity, tail, elem_size, gen>>

QueuePeek ==
    /\ count # 0 /\ items # NoBuffer
    /\ ptr' = [gen |-> gen, cell |-> head]
    /\ out' = items[head]
    /\ UNCHANGED ring

\* pop and peek of an empty queue return NULL.
QueueEmpty ==
    /\ count = 0 \/ items = NoBuffer
    /\ ptr' = NULL /\ out' = NULL
    /\ UNCHANGED ring

\* queue_clear keeps the buffer and the element size.  The next push may reuse any
\* cell, so ptr is followed no further.
QueueClear ==
    /\ head' = 0 /\ tail' = 0 /\ count' = 0
    /\ ptr' = NULL
    /\ UNCHANGED <<items, capacity, elem_size, gen, out>>

QueueNext == \/ \E x \in Elem, n \in Sizes : QueuePush(x, n)
             \/ QueuePop \/ QueuePeek \/ QueueEmpty \/ QueueClear

QueueSpec == QueueInit /\ [][QueueNext]_queuevars

-----------------------------------------------------------------------------

\* The two indices and the count agree, though each call updates only some of
\* them: a ring that breaks this overwrites or skips elements many calls later.
RingInv ==
    /\ tail = Wrap(head + count, capacity)
    /\ items = NoBuffer => head = 0 /\ tail = 0 /\ count = 0

\* Where element i (from 1, oldest first) is.
Slot(i) == Wrap(head + i - 1, capacity)

\* The queue as a sequence.
QueueContents == [i \in 1..count |-> items[Slot(i)]]

QueueAbstract == INSTANCE Fifo WITH fifo <- QueueContents

\* The ring buffer is a FIFO queue: pops and peeks return what was pushed, in
\* order, across wrap-around, growth, clear and dropped pushes.
IsFifo == QueueAbstract!Spec

\* C code may keep the pointer pop or peek returned (stdlib/note.txt warns against
\* it): it still reads the value it was returned for until the buffer is
\* reallocated or the ring is full again, however many pushes that takes.
QueueLastPointerHolds ==
    ptr # NULL /\ ptr.gen = gen /\ count < capacity => items[ptr.cell] = out
=============================================================================

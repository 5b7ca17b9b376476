---------------------------- MODULE StdlibProofs ----------------------------
(***************************************************************************)
(* Theorems of the containers of stdlib: the ring buffer is a FIFO queue,  *)
(* the growing array a LIFO stack and the hash table a dictionary, for     *)
(* every set of elements or keys, size, capacity and hash function.        *)
(* Each theorem is about one of the three specifications; the variables    *)
(* the other two have of their own play no part in it.                     *)
(***************************************************************************)
EXTENDS SnqQueue, SnqStack, HashMap, SequenceTheorems, FiniteSetTheorems, TLAPS

\* The remainder of an index that has run at most once around the ring.
LEMMA WrapOnce ==
    ASSUME NEW a \in Nat, NEW c \in Nat \ {0}, a < 2 * c
    PROVE  Wrap(a, c) = IF a < c THEN a ELSE a - c
BY DEF Wrap

LEMMA WrapRange ==
    ASSUME NEW a \in Nat, NEW c \in Nat \ {0}
    PROVE  Wrap(a, c) \in 0..c-1
BY DEF Wrap

\* The push's tail step, and the pop's head step, keep tail = head + count.
LEMMA TailStep ==
    ASSUME NEW c \in Nat \ {0}, NEW h \in 0..c-1, NEW k \in 0..c-1
    PROVE  Wrap(Wrap(h + k, c) + 1, c) = Wrap(h + (k + 1), c)
BY WrapOnce

LEMMA HeadStep ==
    ASSUME NEW c \in Nat \ {0}, NEW h \in 0..c-1, NEW k \in 1..c
    PROVE  Wrap(Wrap(h + 1, c) + (k - 1), c) = Wrap(h + k, c)
<1>1. CASE h + 1 < c
  <2>1. Wrap(h + 1, c) = h + 1
    BY <1>1, WrapOnce
  <2>2. (h + 1) + (k - 1) = h + k
    OBVIOUS
  <2>3. QED BY <2>1, <2>2
<1>2. CASE h + 1 = c
  <2>1. Wrap(h + 1, c) = 0
    BY <1>2, WrapOnce
  <2>2. Wrap(0 + (k - 1), c) = k - 1
    BY WrapOnce
  <2>3. Wrap(h + k, c) = (h + k) - c
    BY <1>2, WrapOnce
  <2>4. QED BY <1>2, <2>1, <2>2, <2>3
<1>3. QED BY <1>1, <1>2

-----------------------------------------------------------------------------

\* The last pointer is to the front element (peek), or to the cell before it (pop).
PtrInv ==
    ptr # NULL /\ ptr.gen = gen =>
        /\ items # NoBuffer /\ ptr.cell \in 0..capacity-1
        /\ count < capacity => items[ptr.cell] = out
        /\ \/ head = ptr.cell /\ count > 0
           \/ head = Wrap(ptr.cell + 1, capacity)

IInv == /\ QueueTypeOK /\ RingInv /\ PtrInv
        /\ ptr # NULL => ptr.gen <= gen

LEMMA InitInv == QueueInit => IInv
<1> SUFFICES ASSUME QueueInit PROVE IInv
  OBVIOUS
<1>1. capacity \in Nat \ {0}
  BY SizeAssumption DEF SizeAssumption, QueueInit
<1>2. tail = Wrap(head + count, capacity)
  BY <1>1, WrapOnce DEF QueueInit
<1>3. QED BY <1>1, <1>2 DEF QueueInit, IInv, QueueTypeOK, RingInv, PtrInv

\* Every call keeps the invariant.
LEMMA StepInv == IInv /\ [QueueNext]_queuevars => IInv'
<1> SUFFICES ASSUME IInv, [QueueNext]_queuevars PROVE IInv'
  OBVIOUS
<1> USE ElemAssumption, SizeAssumption DEF ElemAssumption, SizeAssumption
<1>0. /\ capacity \in Nat \ {0} /\ head \in 0..capacity-1 /\ count \in 0..capacity
      /\ tail \in 0..capacity-1 /\ tail = Wrap(head + count, capacity)
      /\ items # NoBuffer => items \in [0..capacity-1 -> Elem]
  BY DEF IInv, QueueTypeOK, RingInv, Cells
<1>1. ASSUME NEW x \in Elem, NEW n \in Sizes, QueuePushFirst(x, n) PROVE IInv'
  <2>1. head = 0 /\ tail = 0 /\ count = 0
    BY <1>1 DEF QueuePushFirst, IInv, RingInv
  <2>2. QueueTypeOK'
    BY <1>1, <1>0, <2>1, WrapRange DEF QueuePushFirst, IInv, QueueTypeOK, Cells
  <2>3. RingInv'
    <3>1. items' # NoBuffer
      <4>1. items' \in [0..capacity-1 -> Elem]
        BY <1>1 DEF QueuePushFirst
      <4>2. 0 \in DOMAIN items'
        BY <1>0, <4>1
      <4>3. QED BY <4>2 DEF NoBuffer
    <3>2. QED BY <1>1, <2>1, <3>1 DEF QueuePushFirst, RingInv
  <2>4. ptr # NULL => ptr.gen < gen'
    BY <1>1 DEF QueuePushFirst, IInv, QueueTypeOK, Pointer
  <2>5. QED BY <1>1, <2>2, <2>3, <2>4 DEF QueuePushFirst, IInv, PtrInv, QueueTypeOK, Pointer

<1>2. ASSUME NEW x \in Elem, NEW n \in Sizes, QueuePushRoom(x, n) PROVE IInv'
  <2>0. count \in 0..capacity-1 /\ items \in [0..capacity-1 -> Elem]
    BY <1>2, <1>0 DEF QueuePushRoom
  <2>1. items' \in [0..capacity-1 -> Elem] /\ items' # NoBuffer
    BY <1>2, <1>0, <2>0 DEF QueuePushRoom, NoBuffer
  <2>2. QueueTypeOK'
    <3>1. tail' \in 0..capacity-1
      <4>1. tail + 1 \in Nat
        BY <1>0
      <4>2. QED BY <1>2, <1>0, <4>1, WrapRange DEF QueuePushRoom
    <3>2. QED BY <1>2, <1>0, <2>0, <2>1, <3>1 DEF QueuePushRoom, IInv, QueueTypeOK, Cells
  <2>3. tail' = Wrap(head + count', capacity)
    BY <1>2, <1>0, <2>0, TailStep DEF QueuePushRoom
  <2>4. RingInv'
    BY <1>2, <2>1, <2>3 DEF QueuePushRoom, RingInv
  <2>5. ASSUME ptr # NULL, ptr.gen = gen, count + 1 < capacity
        PROVE  ptr.cell # tail
    <3>1. ptr.cell \in 0..capacity-1
      BY <2>5 DEF IInv, PtrInv
    <3>2. CASE head = ptr.cell /\ count > 0
      BY <1>0, <2>5, <3>1, <3>2, WrapOnce
    <3>3. CASE head = Wrap(ptr.cell + 1, capacity)
      BY <1>0, <2>5, <3>1, <3>3, WrapOnce
    <3>4. QED BY <2>5, <3>2, <3>3 DEF IInv, PtrInv
  <2>6. PtrInv'
    BY <1>2, <1>0, <2>0, <2>1, <2>5 DEF QueuePushRoom, IInv, PtrInv
  <2>7. QED BY <1>2, <2>2, <2>4, <2>6 DEF QueuePushRoom, IInv
<1>3. ASSUME NEW x \in Elem, NEW n \in Sizes, QueuePushGrow(x, n) PROVE IInv'
  <2>0. count = capacity /\ items \in [0..capacity-1 -> Elem]
    BY <1>3, <1>0 DEF QueuePushGrow
  <2>1. \A i \in 0..count-1 : Wrap(head + i, capacity) \in 0..capacity-1
    <3> TAKE i \in 0..count-1
    <3>1. head + i \in Nat
      BY <1>0
    <3>2. QED BY <1>0, <3>1, WrapRange
  <2>2. QueueDoubled \in [0..2*capacity-1 -> Elem]
    BY <1>0, <2>0, <2>1 DEF QueueDoubled
  <2>3. items' \in [0..2*capacity-1 -> Elem]
    BY <1>3, <1>0, <2>0, <2>2 DEF QueuePushGrow
  <2>4. items' # NoBuffer
    BY <1>0, <2>3 DEF NoBuffer
  <2>5. QueueTypeOK'
    <3>1. /\ capacity' = 2 * capacity /\ capacity' \in Nat \ {0}
          /\ head' = 0 /\ count' = count + 1
          /\ tail' = Wrap(count + 1, 2 * capacity)
      BY <1>3, <1>0 DEF QueuePushGrow
    <3>2. tail' \in 0..capacity'-1 /\ head' \in 0..capacity'-1 /\ count' \in 0..capacity'
      BY <1>0, <2>0, <3>1, WrapRange
    <3>3. QED BY <1>3, <2>3, <3>1, <3>2 DEF QueuePushGrow, IInv, QueueTypeOK, Cells
  <2>6. RingInv'
    BY <1>3, <1>0, <2>4 DEF QueuePushGrow, RingInv
  <2>7. PtrInv' /\ (ptr' # NULL => ptr'.gen <= gen')
    BY <1>3 DEF QueuePushGrow, IInv, PtrInv, QueueTypeOK, Pointer
  <2>8. QED BY <2>5, <2>6, <2>7 DEF IInv
<1>4. ASSUME NEW n \in Sizes, QueuePushDropped(n) PROVE IInv'
  BY <1>4 DEF QueuePushDropped, IInv, QueueTypeOK, RingInv, PtrInv, queuevars, ring
<1>5. CASE QueuePop
  <2>0. count \in 1..capacity /\ items \in [0..capacity-1 -> Elem]
    BY <1>5, <1>0 DEF QueuePop
  <2>1. head' \in 0..capacity-1
    BY <1>5, <1>0, WrapRange DEF QueuePop
  <2>2. ptr' \in Pointer /\ ptr' # NULL /\ out' \in Elem
        /\ ptr'.gen = gen /\ ptr'.cell = head
    BY <1>5, <1>0, <2>0 DEF QueuePop, Pointer, IInv, QueueTypeOK
  <2>3. QueueTypeOK'
    BY <1>5, <2>0, <2>1, <2>2 DEF QueuePop, IInv, QueueTypeOK
  <2>4. RingInv'
    BY <1>5, <1>0, <2>0, HeadStep DEF QueuePop, RingInv
  <2>5. PtrInv'
    BY <1>5, <1>0, <2>0, <2>2 DEF QueuePop, PtrInv
  <2>6. QED BY <1>5, <2>2, <2>3, <2>4, <2>5 DEF QueuePop, IInv, QueueTypeOK
<1>6. CASE QueuePeek
  <2>1. ptr' \in Pointer /\ ptr' # NULL /\ out' \in Elem
        /\ ptr'.gen = gen /\ ptr'.cell = head
    BY <1>6, <1>0 DEF QueuePeek, Pointer, IInv, QueueTypeOK
  <2>2. QED BY <1>6, <1>0, <2>1 DEF QueuePeek, ring, IInv, QueueTypeOK, RingInv, PtrInv
<1>7. CASE QueueEmpty
  BY <1>7 DEF QueueEmpty, ring, IInv, QueueTypeOK, RingInv, PtrInv
<1>8. CASE QueueClear
  <2>1. Wrap(0, capacity) = 0
    BY <1>0, WrapOnce
  <2>2. QED BY <1>8, <1>0, <2>1 DEF QueueClear, IInv, QueueTypeOK, RingInv, PtrInv
<1>9. CASE UNCHANGED queuevars
  BY <1>9 DEF queuevars, ring, IInv, QueueTypeOK, RingInv, PtrInv
<1>10. QED
  BY <1>1, <1>2, <1>3, <1>4, <1>5, <1>6, <1>7, <1>8, <1>9 DEF QueueNext, QueuePush

LEMMA Inductive == QueueSpec => []IInv
BY InitInv, StepInv, PTL DEF QueueSpec

\* Whatever the calls, indices stay in the buffer and the count within it.
THEOREM TypeCorrect == QueueSpec => []QueueTypeOK
BY Inductive, PTL DEF IInv

\* tail is always head + count around the ring.
THEOREM RingCorrect == QueueSpec => []RingInv
BY Inductive, PTL DEF IInv

\* A pointer from pop or peek keeps its value until reallocation or a full ring.
THEOREM PointerHolds == QueueSpec => []QueueLastPointerHolds
<1>1. IInv => QueueLastPointerHolds
  BY DEF IInv, PtrInv, QueueLastPointerHolds
<1>2. QED BY <1>1, Inductive, PTL

-----------------------------------------------------------------------------
(* The refinement: QueueContents follows Fifo. *)

LEMMA SeqOfFcn ==
    ASSUME NEW S, NEW n \in Nat, NEW f \in [1..n -> S]
    PROVE  f \in Seq(S) /\ Len(f) = n
<1>1. f \in Seq(S)
  BY SeqDef
<1>2. QED BY <1>1, LenProperties

\* What the invariant says of the elements.
ContentsOK == /\ QueueContents \in Seq(Elem) /\ Len(QueueContents) = count
              /\ \A i \in 1..count : QueueContents[i] = items[Slot(i)]
              /\ QueueContents = << >> <=> count = 0

LEMMA ContentsSeq == IInv => ContentsOK
<1> SUFFICES ASSUME IInv PROVE ContentsOK
  OBVIOUS
<1>0. count \in Nat
  BY DEF IInv, QueueTypeOK
<1>1. QueueContents \in [1..count -> Elem]
  <2> SUFFICES ASSUME NEW i \in 1..count PROVE items[Slot(i)] \in Elem
    BY DEF QueueContents
  <2>1. items \in [0..capacity-1 -> Elem]
    BY DEF IInv, QueueTypeOK, RingInv, Cells
  <2>2. head + i - 1 \in Nat
    BY DEF IInv, QueueTypeOK
  <2>3. Slot(i) \in 0..capacity-1
    BY <2>2, WrapRange DEF Slot, IInv, QueueTypeOK
  <2>4. QED BY <2>1, <2>3
<1>2. QueueContents \in Seq(Elem) /\ Len(QueueContents) = count
  BY <1>0, <1>1, SeqOfFcn
<1>3. QueueContents = << >> <=> count = 0
  BY <1>2, EmptySeq
<1>4. QED BY <1>2, <1>3 DEF ContentsOK, QueueContents

\* A push that is not dropped appends.
LEMMA PushAppends ==
    ASSUME IInv, IInv', NEW x \in Elem, count' = count + 1,
           \A i \in 1..count : items'[Slot(i)'] = items[Slot(i)],
           (items[Slot(count)])' = x
    PROVE  QueueContents' = Append(QueueContents, x)
<1>1. /\ QueueContents \in Seq(Elem) /\ Len(QueueContents) = count /\ count \in Nat
      /\ \A i \in 1..count : QueueContents[i] = items[Slot(i)]
  BY ContentsSeq DEF ContentsOK, IInv, QueueTypeOK
<1>2. /\ QueueContents' \in Seq(Elem) /\ Len(QueueContents') = count + 1
  <2>1. ContentsOK'
    BY ContentsSeq, PTL
  <2>2. QED BY <2>1 DEF ContentsOK
<1>3. \A i \in 1..count+1 : QueueContents'[i] = items'[Slot(i)']
  BY DEF QueueContents
<1>4. /\ Append(QueueContents, x) \in Seq(Elem)
      /\ Len(Append(QueueContents, x)) = count + 1
      /\ \A i \in 1..count : Append(QueueContents, x)[i] = QueueContents[i]
      /\ Append(QueueContents, x)[count + 1] = x
  BY <1>1, AppendProperties
<1>5. ASSUME NEW i \in 1..count+1 PROVE QueueContents'[i] = Append(QueueContents, x)[i]
  <2>1. CASE i \in 1..count
    BY <1>1, <1>3, <1>4, <2>1
  <2>2. CASE i = count + 1
    BY <1>3, <1>4, <2>2 DEF Slot
  <2>3. i \in 1..count \/ i = count + 1
    BY <1>1
  <2>4. QED BY <2>1, <2>2, <2>3
<1>6. QED BY <1>2, <1>4, <1>5, SeqEqual

\* A pop takes the head.
LEMMA PopTakes == ASSUME IInv, IInv', QueuePop PROVE QueueAbstract!Take
<1>1. ContentsOK /\ ContentsOK'
  BY ContentsSeq, PTL
<1>2. /\ capacity \in Nat \ {0} /\ head \in 0..capacity-1 /\ count \in 1..capacity
      /\ head' = Wrap(head + 1, capacity) /\ count' = count - 1
      /\ UNCHANGED <<items, capacity>> /\ out' = items[head]
  BY DEF QueuePop, IInv, QueueTypeOK
<1>3. QueueContents # << >> /\ QueueContents \in Seq(Elem) /\ Len(QueueContents) = count
  BY <1>1, <1>2 DEF ContentsOK
<1>4. Head(QueueContents) = items[head]
  <2>1. Slot(1) = head
    BY <1>2, WrapOnce DEF Slot
  <2>2. QueueContents[1] = items[head]
    BY <1>1, <1>2, <2>1 DEF ContentsOK
  <2>3. QED BY <1>3, <2>2
<1>5. /\ Tail(QueueContents) \in Seq(Elem) /\ Len(Tail(QueueContents)) = count - 1
      /\ \A i \in 1..count-1 : Tail(QueueContents)[i] = QueueContents[i + 1]
  BY <1>3, HeadTailProperties
<1>6. ASSUME NEW i \in 1..count-1 PROVE QueueContents'[i] = QueueContents[i + 1]
  <2>1. Slot(i)' = Slot(i + 1)
    <3>1. Wrap(Wrap(head + 1, capacity) + (i - 1), capacity) = Wrap(head + i, capacity)
      BY <1>2, HeadStep
    <3>2. QED BY <1>2, <3>1 DEF Slot
  <2>2. QueueContents'[i] = items'[Slot(i)']
    BY <1>1, <1>2 DEF ContentsOK
  <2>3. QueueContents[i + 1] = items[Slot(i + 1)]
    BY <1>1, <1>2 DEF ContentsOK
  <2>4. QED BY <1>2, <2>1, <2>2, <2>3
<1>7. QueueContents' = Tail(QueueContents)
  <2>1. QueueContents' \in Seq(Elem) /\ Len(QueueContents') = count - 1
    BY <1>1, <1>2 DEF ContentsOK
  <2>2. QED BY <1>5, <1>6, <2>1, SeqEqual
<1>8. QED BY <1>2, <1>3, <1>4, <1>7 DEF QueueAbstract!Take

\* Every step of the ring is a step of the FIFO queue, or leaves it unchanged.
LEMMA StepRefines ==
    ASSUME IInv, IInv', [QueueNext]_queuevars
    PROVE  [QueueAbstract!Next]_<<QueueContents, out>>
<1> USE DEF QueueAbstract!Next
<1>0. /\ ContentsOK /\ ContentsOK'
      /\ capacity \in Nat \ {0} /\ head \in 0..capacity-1 /\ count \in 0..capacity
      /\ tail = Wrap(head + count, capacity)
      /\ items # NoBuffer => items \in [0..capacity-1 -> Elem]
  BY ContentsSeq, PTL DEF IInv, QueueTypeOK, RingInv, Cells
<1>1. ASSUME NEW x \in Elem, NEW n \in Sizes, QueuePushFirst(x, n) PROVE QueueAbstract!Put(x)
  <2>1. head = 0 /\ tail = 0 /\ count = 0 /\ count' = 1 /\ head' = 0 /\ out' = out
        /\ capacity' = capacity /\ items'[0] = x
    BY <1>0, <1>1 DEF QueuePushFirst, IInv, RingInv
  <2>2. (Slot(count))' = 0
    BY <1>0, <2>1, WrapOnce DEF Slot
  <2>3. QueueContents' = Append(QueueContents, x)
    BY <2>1, <2>2, PushAppends
  <2>4. QED BY <2>1, <2>3 DEF QueueAbstract!Put
<1>2. ASSUME NEW x \in Elem, NEW n \in Sizes, QueuePushRoom(x, n) PROVE QueueAbstract!Put(x)
  <2>1. /\ count < capacity /\ count' = count + 1 /\ items' = [items EXCEPT ![tail] = x]
        /\ UNCHANGED <<head, capacity, out>> /\ items \in [0..capacity-1 -> Elem]
    BY <1>0, <1>2 DEF QueuePushRoom
  <2>2. \A i \in 1..count : /\ Slot(i)' = Slot(i)
                            /\ Slot(i) \in 0..capacity-1 /\ Slot(i) # tail
    <3> TAKE i \in 1..count
    <3>1. Slot(i)' = Slot(i)
      BY <2>1 DEF Slot
    <3>2. Slot(i) = IF head + i - 1 < capacity THEN head + i - 1 ELSE head + i - 1 - capacity
      BY <1>0, WrapOnce DEF Slot
    <3>3. tail = IF head + count < capacity THEN head + count ELSE head + count - capacity
      BY <1>0, WrapOnce
    <3>4. QED BY <1>0, <2>1, <3>1, <3>2, <3>3
  <2>3. \A i \in 1..count : items'[Slot(i)'] = items[Slot(i)]
    BY <2>1, <2>2
  <2>4. (items[Slot(count)])' = x
    <3>1. Slot(count)' = Wrap(head + (count + 1) - 1, capacity)
      BY <2>1 DEF Slot
    <3>2. head + (count + 1) - 1 = head + count
      BY <1>0
    <3>3. Slot(count)' = tail /\ tail \in 0..capacity-1
      BY <1>0, <3>1, <3>2, WrapRange DEF IInv, QueueTypeOK
    <3>4. QED BY <2>1, <3>3
  <2>5. QueueContents' = Append(QueueContents, x)
    BY <2>1, <2>3, <2>4, PushAppends
  <2>6. QED BY <2>1, <2>5 DEF QueueAbstract!Put
<1>3. ASSUME NEW x \in Elem, NEW n \in Sizes, QueuePushGrow(x, n) PROVE QueueAbstract!Put(x)
  <2>1. /\ count = capacity /\ count' = count + 1 /\ items' = [QueueDoubled EXCEPT ![count] = x]
        /\ head' = 0 /\ capacity' = 2 * capacity /\ out' = out
    BY <1>0, <1>3 DEF QueuePushGrow
  <2>2. \A i \in 1..count+1 : Slot(i)' = i - 1
    <3> TAKE i \in 1..count+1
    <3>1. Slot(i)' = Wrap(0 + i - 1, 2 * capacity)
      BY <2>1 DEF Slot
    <3>2. 0 + i - 1 \in Nat /\ 0 + i - 1 < 2 * capacity
      BY <1>0, <2>1
    <3>3. QED BY <1>0, <3>1, <3>2, WrapOnce
  <2>3. ASSUME NEW i \in 1..count PROVE items'[Slot(i)'] = items[Slot(i)]
    <3>1. items'[i - 1] = items[Wrap(head + (i - 1), capacity)]
      BY <1>0, <2>1 DEF QueueDoubled
    <3>2. head + (i - 1) = head + i - 1
      BY <1>0
    <3>3. Slot(i)' = i - 1
      BY <1>0, <2>2
    <3>4. Slot(i) = Wrap(head + (i - 1), capacity)
      BY <3>2 DEF Slot
    <3>5. QED BY <3>1, <3>3, <3>4
  <2>4. (items[Slot(count)])' = x
    <3>1. Slot(count)' = count
      BY <1>0, <2>1, <2>2 DEF Slot
    <3>2. items'[count] = x
      BY <1>0, <2>1 DEF QueueDoubled
    <3>3. QED BY <3>1, <3>2
  <2>5. QueueContents' = Append(QueueContents, x)
    BY <2>1, <2>3, <2>4, PushAppends
  <2>6. QED BY <2>1, <2>5 DEF QueueAbstract!Put
<1>4. ASSUME NEW n \in Sizes, QueuePushDropped(n) PROVE UNCHANGED <<QueueContents, out>>
  BY <1>4 DEF QueuePushDropped, QueueContents, Slot, queuevars, ring
<1>5. CASE QueuePop
  BY <1>5, PopTakes
<1>6. CASE QueuePeek
  <2>1. count > 0 /\ out' = items[head] /\ UNCHANGED ring
    BY <1>0, <1>6 DEF QueuePeek
  <2>2. Slot(1) = head
    BY <1>0, WrapOnce DEF Slot
  <2>3. QueueContents # << >> /\ Head(QueueContents) = items[head]
    BY <1>0, <2>1, <2>2 DEF ContentsOK
  <2>4. UNCHANGED QueueContents
    BY <2>1 DEF ring, QueueContents, Slot
  <2>5. QED BY <2>1, <2>3, <2>4 DEF QueueAbstract!Look
<1>7. CASE QueueEmpty
  <2>1. count = 0 /\ out' = NULL /\ UNCHANGED ring
    BY <1>7 DEF QueueEmpty, IInv, RingInv
  <2>2. QueueContents = << >> /\ UNCHANGED QueueContents
    BY <1>0, <2>1 DEF ContentsOK, ring, QueueContents, Slot
  <2>3. QED BY <2>1, <2>2 DEF QueueAbstract!Miss
<1>8. CASE QueueClear
  <2>1. QueueContents' = << >> /\ out' = out
    BY <1>0, <1>8 DEF ContentsOK, QueueClear
  <2>2. QED BY <2>1 DEF QueueAbstract!Clear
<1>9. CASE UNCHANGED queuevars
  BY <1>9 DEF queuevars, ring, QueueContents, Slot
<1>10. QED
  BY <1>1, <1>2, <1>3, <1>4, <1>5, <1>6, <1>7, <1>8, <1>9 DEF QueueNext, QueuePush

\* The ring buffer implements the FIFO queue, for every element set, element
\* size, requested capacity and sequence of calls.
THEOREM RingIsFifo == QueueSpec => IsFifo
<1>1. QueueInit => QueueAbstract!Init
  <2> SUFFICES ASSUME QueueInit PROVE QueueAbstract!Init
    OBVIOUS
  <2>1. ContentsOK
    BY InitInv, ContentsSeq
  <2>2. QED BY <2>1 DEF QueueInit, ContentsOK, QueueAbstract!Init
<1>2. IInv /\ IInv' /\ [QueueNext]_queuevars => [QueueAbstract!Next]_<<QueueContents, out>>
  BY StepRefines
<1>3. QED BY <1>1, <1>2, Inductive, PTL DEF QueueSpec, IsFifo, QueueAbstract!Spec

-----------------------------------------------------------------------------
(* The stack. *)

\* The last pointer is into the buffer, to the top element (peek) or just above.
StackPtrInv ==
    ptr # NULL => /\ ptr.gen <= gen
                  /\ ptr.gen = gen => /\ ptr.cell \in 0..capacity-1
                                      /\ top >= ptr.cell
                                      /\ items # NoBuffer
                                      /\ top = ptr.cell => items[ptr.cell] = out

StackInv == StackTypeOK /\ ArrayInv /\ StackPtrInv

LEMMA StackInitInv == StackInit => StackInv
BY SizeAssumption DEF SizeAssumption, StackInit, StackInv, StackTypeOK, ArrayInv, StackPtrInv

\* A buffer with a cell is not the null pointer.
LEMMA StackAllocated ==
    ASSUME NEW c \in Nat \ {0}, NEW f \in [0..c-1 -> Elem]
    PROVE  f # NoBuffer
<1>1. 0 \in DOMAIN f
  OBVIOUS
<1>2. QED BY <1>1 DEF NoBuffer

\* Every call keeps the invariant.
LEMMA StackStep == StackInv /\ [StackNext]_(stackvars) => StackInv'
<1> SUFFICES ASSUME StackInv, [StackNext]_(stackvars) PROVE StackInv'
  OBVIOUS
<1> USE ElemAssumption DEF ElemAssumption
<1>0. /\ capacity \in Nat \ {0} /\ top \in 0..capacity /\ gen \in Nat
      /\ items # NoBuffer => items \in [0..capacity-1 -> Elem]
      /\ ptr \in Pointer \cup {NULL}
  BY DEF StackInv, StackTypeOK, Cells
<1>1. ASSUME NEW x \in Elem, NEW n \in Sizes, StackPushFirst(x, n) PROVE StackInv'
  <2>1. top = 0
    BY <1>1 DEF StackPushFirst, StackInv, ArrayInv
  <2>2. items' \in [0..capacity-1 -> Elem] /\ items' # NoBuffer
    <3>1. items' \in [0..capacity-1 -> Elem]
      BY <1>1 DEF StackPushFirst
    <3>2. QED BY <1>0, <3>1, StackAllocated
  <2>3. StackTypeOK'
    BY <1>0, <1>1, <2>1, <2>2 DEF StackPushFirst, StackInv, StackTypeOK, Cells
  <2>4. StackPtrInv'
    BY <1>0, <1>1 DEF StackPushFirst, StackInv, StackPtrInv, Pointer
  <2>5. QED BY <2>2, <2>3, <2>4 DEF StackInv, ArrayInv
<1>2. ASSUME NEW x \in Elem, NEW n \in Sizes, StackPushRoom(x, n) PROVE StackInv'
  <2>1. top < capacity /\ items \in [0..capacity-1 -> Elem]
    BY <1>0, <1>2 DEF StackPushRoom
  <2>2. items' \in [0..capacity-1 -> Elem] /\ items' # NoBuffer
    <3>1. items' \in [0..capacity-1 -> Elem]
      BY <1>0, <1>2, <2>1 DEF StackPushRoom
    <3>2. QED BY <1>0, <3>1, StackAllocated
  <2>3. StackTypeOK'
    BY <1>0, <1>2, <2>1, <2>2 DEF StackPushRoom, StackInv, StackTypeOK, Cells
  <2>4. StackPtrInv'
    BY <1>0, <1>2, <2>1, <2>2 DEF StackPushRoom, StackInv, StackPtrInv, Pointer
  <2>5. QED BY <2>2, <2>3, <2>4 DEF StackInv, ArrayInv
<1>3. ASSUME NEW x \in Elem, NEW n \in Sizes, StackPushGrow(x, n) PROVE StackInv'
  <2>1. top = capacity /\ items \in [0..capacity-1 -> Elem]
    BY <1>0, <1>3 DEF StackPushGrow
  <2>2. items' \in [0..2*capacity-1 -> Elem] /\ items' # NoBuffer
    <3>1. items' \in [0..2*capacity-1 -> Elem]
      BY <1>0, <1>3, <2>1 DEF StackPushGrow, StackDoubled
    <3>2. QED BY <1>0, <3>1, StackAllocated
  <2>3. StackTypeOK'
    BY <1>0, <1>3, <2>1, <2>2 DEF StackPushGrow, StackInv, StackTypeOK, Cells
  <2>4. StackPtrInv'
    BY <1>0, <1>3 DEF StackPushGrow, StackInv, StackPtrInv, Pointer
  <2>5. QED BY <2>2, <2>3, <2>4 DEF StackInv, ArrayInv
<1>4. ASSUME NEW n \in Sizes, StackPushDropped(n) PROVE StackInv'
  BY <1>4 DEF StackPushDropped, stackvars, array, StackInv, StackTypeOK, ArrayInv, StackPtrInv
<1>5. CASE StackPop \/ StackPeek
  <2>1. top \in 1..capacity /\ items \in [0..capacity-1 -> Elem] /\ items # NoBuffer
    BY <1>0, <1>5 DEF StackPop, StackPeek
  <2>2. /\ ptr' = [gen |-> gen, cell |-> top - 1] /\ out' = items[top - 1]
        /\ top' \in {top, top - 1} /\ UNCHANGED <<items, capacity, elem_size, gen>>
    BY <1>5 DEF StackPop, StackPeek, array
  <2>3. ptr' \in Pointer /\ out' \in Elem
    BY <1>0, <2>1, <2>2 DEF Pointer
  <2>4. QED BY <1>0, <2>1, <2>2, <2>3 DEF StackInv, StackTypeOK, ArrayInv, StackPtrInv
<1>6. CASE StackEmpty
  BY <1>6 DEF StackEmpty, array, StackInv, StackTypeOK, ArrayInv, StackPtrInv
<1>7. CASE StackClear
  BY <1>0, <1>7 DEF StackClear, StackInv, StackTypeOK, ArrayInv, StackPtrInv
<1>8. CASE UNCHANGED stackvars
  BY <1>8 DEF stackvars, array, StackInv, StackTypeOK, ArrayInv, StackPtrInv
<1>9. QED BY <1>1, <1>2, <1>3, <1>4, <1>5, <1>6, <1>7, <1>8 DEF StackNext, StackPush

LEMMA StackInductive == StackSpec => []StackInv
BY StackInitInv, StackStep, PTL DEF StackSpec

\* Whatever the calls, top stays within the buffer.
THEOREM StackTypeCorrect == StackSpec => []StackTypeOK
BY StackInductive, PTL DEF StackInv

\* A popped pointer keeps its value until reallocation or the next push over it.
THEOREM StackPointerHolds == StackSpec => []StackLastPointerHolds
<1>1. StackInv => StackLastPointerHolds
  BY DEF StackInv, StackTypeOK, StackPtrInv, StackLastPointerHolds, Pointer
<1>2. QED BY <1>1, StackInductive, PTL

-----------------------------------------------------------------------------
(* The refinement: StackContents follows Lifo. *)

\* What the invariant says of the elements.
StackContentsOK ==
    /\ StackContents \in Seq(Elem) /\ Len(StackContents) = top
    /\ \A i \in 1..top : StackContents[i] = items[top - i]
    /\ StackContents = << >> <=> top = 0

LEMMA StackContentsSeq == StackInv => StackContentsOK
<1> SUFFICES ASSUME StackInv PROVE StackContentsOK
  OBVIOUS
<1>1. StackContents \in [1..top -> Elem]
  BY DEF StackContents, StackInv, StackTypeOK, ArrayInv, Cells
<1>2. StackContents \in Seq(Elem) /\ Len(StackContents) = top
  <2>1. top \in Nat
    BY DEF StackInv, StackTypeOK
  <2>2. StackContents \in Seq(Elem)
    BY <1>1, <2>1, SeqDef
  <2>3. QED BY <1>1, <2>1, <2>2, LenProperties
<1>3. StackContents = << >> <=> top = 0
  BY <1>2, EmptySeq
<1>4. QED BY <1>2, <1>3 DEF StackContentsOK, StackContents

\* A push that is not dropped puts its element on top.
LEMMA PushPuts ==
    ASSUME StackInv, StackInv', NEW x \in Elem, top' = top + 1, out' = out,
           \A i \in 0..top-1 : items'[i] = items[i],
           items'[top] = x
    PROVE  StackAbstract!Put(x)
<1>1. /\ StackContents \in Seq(Elem) /\ Len(StackContents) = top /\ top \in Nat
      /\ \A i \in 1..top : StackContents[i] = items[top - i]
  BY StackContentsSeq DEF StackContentsOK, StackInv, StackTypeOK
<1>2. /\ StackContents' \in Seq(Elem) /\ Len(StackContents') = top + 1
      /\ \A i \in 1..top+1 : StackContents'[i] = items'[top + 1 - i]
  <2>1. StackContentsOK'
    BY StackContentsSeq, PTL
  <2>2. \A i \in 1..top+1 : StackContents'[i] = items'[top' - i]
    BY <2>1 DEF StackContentsOK
  <2>3. StackContents' \in Seq(Elem) /\ Len(StackContents') = top + 1
    BY <2>1 DEF StackContentsOK
  <2>4. \A i \in 1..top+1 : StackContents'[i] = items'[top + 1 - i]
    BY <1>1, <2>2
  <2>5. QED BY <2>3, <2>4
<1>3. <<x>> \in Seq(Elem) /\ Len(<<x>>) = 1 /\ <<x>>[1] = x
  OBVIOUS
<1>4. /\ <<x>> \o StackContents \in Seq(Elem)
      /\ Len(<<x>> \o StackContents) = top + 1
      /\ \A i \in 1..top+1 : (<<x>> \o StackContents)[i] = IF i = 1 THEN x ELSE StackContents[i - 1]
  BY <1>1, <1>3, ConcatProperties
<1>5. ASSUME NEW i \in 1..top+1 PROVE StackContents'[i] = (<<x>> \o StackContents)[i]
  <2>1. CASE i = 1
    BY <1>1, <1>2, <1>4, <2>1
  <2>2. CASE i > 1
    <3>1. i - 1 \in 1..top /\ top - (i - 1) \in 0..top-1 /\ top + 1 - i = top - (i - 1)
      BY <1>1, <2>2
    <3>2. StackContents'[i] = items[top - (i - 1)]
      BY <1>2, <3>1
    <3>3. StackContents[i - 1] = items[top - (i - 1)]
      BY <1>1, <3>1
    <3>4. QED BY <1>4, <2>2, <3>2, <3>3
  <2>3. QED BY <1>1, <2>1, <2>2
<1>6. StackContents' = <<x>> \o StackContents
  BY <1>2, <1>4, <1>5, SeqEqual
<1>7. QED BY <1>6 DEF StackAbstract!Put

\* Every step of the array is a step of the LIFO stack, or leaves it unchanged.
LEMMA StackRefines ==
    ASSUME StackInv, StackInv', [StackNext]_(stackvars)
    PROVE  [StackAbstract!Next]_<<StackContents, out>>
<1> USE DEF StackAbstract!Next
<1>0. /\ StackContentsOK /\ StackContentsOK'
      /\ capacity \in Nat \ {0} /\ top \in 0..capacity
      /\ items # NoBuffer => items \in [0..capacity-1 -> Elem]
  BY StackContentsSeq, PTL DEF StackInv, StackTypeOK, Cells
<1>1. ASSUME NEW x \in Elem, NEW n \in Sizes,
             StackPushFirst(x, n) \/ StackPushRoom(x, n) \/ StackPushGrow(x, n)
      PROVE  StackAbstract!Put(x)
  <2>1. top' = top + 1 /\ out' = out
    BY <1>1 DEF StackPushFirst, StackPushRoom, StackPushGrow
  <2>2. (\A i \in 0..top-1 : items'[i] = items[i]) /\ items'[top] = x
    <3>1. CASE StackPushFirst(x, n)
      BY <1>0, <3>1 DEF StackPushFirst, StackInv, ArrayInv
    <3>2. CASE StackPushRoom(x, n)
      BY <1>0, <3>2 DEF StackPushRoom
    <3>3. CASE StackPushGrow(x, n)
      BY <1>0, <3>3 DEF StackPushGrow, StackDoubled
    <3>4. QED BY <1>1, <3>1, <3>2, <3>3
  <2>3. QED BY <2>1, <2>2, PushPuts
<1>2. ASSUME NEW n \in Sizes, StackPushDropped(n) PROVE UNCHANGED <<StackContents, out>>
  BY <1>2 DEF StackPushDropped, StackContents, stackvars, array
<1>3. CASE StackPop
  <2>1. /\ top \in 1..capacity /\ top' = top - 1 /\ items' = items
        /\ out' = items[top - 1]
    BY <1>0, <1>3 DEF StackPop
  <2>2. StackContents # << >> /\ StackContents \in Seq(Elem) /\ Head(StackContents) = items[top - 1]
    BY <1>0, <2>1 DEF StackContentsOK
  <2>3. /\ Tail(StackContents) \in Seq(Elem) /\ Len(Tail(StackContents)) = top - 1
        /\ \A i \in 1..top-1 : Tail(StackContents)[i] = StackContents[i + 1]
    BY <1>0, <2>1, <2>2, HeadTailProperties DEF StackContentsOK
  <2>4. /\ StackContents' \in Seq(Elem) /\ Len(StackContents') = top - 1
        /\ \A i \in 1..top-1 : StackContents'[i] = items[top - 1 - i]
    BY <1>0, <2>1 DEF StackContentsOK
  <2>5. ASSUME NEW i \in 1..top-1 PROVE StackContents'[i] = Tail(StackContents)[i]
    <3>1. i + 1 \in 1..top /\ top - (i + 1) = top - 1 - i
      BY <2>1
    <3>2. StackContents[i + 1] = items[top - 1 - i]
      BY <1>0, <3>1 DEF StackContentsOK
    <3>3. QED BY <2>3, <2>4, <3>2
  <2>6. StackContents' = Tail(StackContents)
    BY <2>3, <2>4, <2>5, SeqEqual
  <2>7. QED BY <2>1, <2>2, <2>6 DEF StackAbstract!Take
<1>4. CASE StackPeek
  <2>1. top \in 1..capacity /\ out' = items[top - 1] /\ UNCHANGED array
    BY <1>0, <1>4 DEF StackPeek
  <2>2. StackContents # << >> /\ Head(StackContents) = items[top - 1]
    BY <1>0, <2>1 DEF StackContentsOK
  <2>3. UNCHANGED StackContents
    BY <2>1 DEF array, StackContents
  <2>4. QED BY <2>1, <2>2, <2>3 DEF StackAbstract!Look
<1>5. CASE StackEmpty
  <2>1. top = 0 /\ out' = NULL /\ UNCHANGED array
    BY <1>5 DEF StackEmpty, StackInv, ArrayInv
  <2>2. StackContents = << >> /\ UNCHANGED StackContents
    BY <1>0, <2>1 DEF StackContentsOK, array, StackContents
  <2>3. QED BY <2>1, <2>2 DEF StackAbstract!Miss
<1>6. CASE StackClear
  <2>1. StackContents' = << >> /\ out' = out
    BY <1>0, <1>6 DEF StackContentsOK, StackClear
  <2>2. QED BY <2>1 DEF StackAbstract!Clear
<1>7. CASE UNCHANGED stackvars
  BY <1>7 DEF stackvars, array, StackContents
<1>8. QED BY <1>1, <1>2, <1>3, <1>4, <1>5, <1>6, <1>7 DEF StackNext, StackPush

\* The growing array implements the LIFO stack, for every element set, element
\* size, requested capacity and sequence of calls.
THEOREM StackArrayIsLifo == StackSpec => IsLifo
<1>1. StackInit => StackAbstract!Init
  <2> SUFFICES ASSUME StackInit PROVE StackAbstract!Init
    OBVIOUS
  <2>1. StackContentsOK
    BY StackInitInv, StackContentsSeq
  <2>2. QED BY <2>1 DEF StackInit, StackContentsOK, StackAbstract!Init
<1>2. StackInv /\ StackInv' /\ [StackNext]_(stackvars) => [StackAbstract!Next]_<<StackContents, out>>
  BY StackRefines
<1>3. QED BY <1>1, <1>2, StackInductive, PTL DEF StackSpec, IsLifo, StackAbstract!Spec

-----------------------------------------------------------------------------
(* The map, over its own constants; capacity is the number of chains.      *)

Table(c)    == [0..c-1 -> Seq(Entry)]
Sound(t, c) == t \in Table(c) /\ Placed(t, c) /\ Once(t)

LEMMA Remainder == ASSUME NEW a \in Nat, NEW c \in Nat \ {0} PROVE a % c \in 0..c-1
OBVIOUS

LEMMA IndexRange ==
    ASSUME HashAssumption, NEW k \in Keys, NEW c \in Nat \ {0}
    PROVE  Index(k, c) \in 0..c-1
<1>1. Hash[k] \in Nat
  BY DEF HashAssumption
<1>2. QED BY <1>1, Remainder DEF Index

LEMMA Chain ==
    ASSUME NEW c \in Nat, NEW t \in Table(c), NEW b \in DOMAIN t
    PROVE  /\ t[b] \in Seq(Entry) /\ Len(t[b]) \in Nat /\ DOMAIN t[b] = 1..Len(t[b])
           /\ \A i \in DOMAIN t[b] : t[b][i] \in Entry
<1>1. t[b] \in Seq(Entry)
  BY DEF Table
<1>2. QED BY <1>1, LenProperties, ElementOfSeq

(* What is in a table.                                                     *)
LEMMA InTable ==
    ASSUME NEW t
    PROVE  \A e : e \in Entries(t) <=> \E b \in DOMAIN t : \E i \in DOMAIN t[b] : e = t[b][i]
BY DEF Entries, Range

(* Those whose index is not x.                                             *)
Others(t, c, x) == {e \in Entries(t) : Index(e.key, c) # x}

(* A chain of entries of index x, one for a key; a table with that chain.   *)
Proper(s, c, x) == /\ s \in Seq(Entry)
                   /\ \A i \in DOMAIN s : Index(s[i].key, c) = x
                   /\ \A i, j \in DOMAIN s : s[i].key = s[j].key => i = j
Replaced(t, x, s) == [t EXCEPT ![x] = s]
Ahead(t, c, e)    == Replaced(t, Index(e.key, c), <<e>> \o t[Index(e.key, c)])
Updated(q, n, e)  == [q EXCEPT ![n] = e]

LEMMA EntriesTyped ==
    ASSUME NEW c \in Nat, NEW t \in Table(c)
    PROVE  Entries(t) \subseteq Entry
BY InTable, Chain

(* The entries of one chain of a sound table are those whose index it is.  *)
LEMMA ChainEntries ==
    ASSUME NEW c, NEW t, Sound(t, c), NEW x \in DOMAIN t
    PROVE  /\ \A i \in DOMAIN t[x] : t[x][i] \in Entries(t) /\ Index(t[x][i].key, c) = x
           /\ \A e \in Entries(t) : Index(e.key, c) = x => \E i \in DOMAIN t[x] : e = t[x][i]
           /\ \A i, j \in DOMAIN t[x] : t[x][i].key = t[x][j].key => i = j
BY InTable DEF Sound, Placed, Once

LEMMA Partition ==
    ASSUME NEW c, NEW t, Sound(t, c), NEW x \in DOMAIN t
    PROVE  /\ Entries(t) = Others(t, c, x) \cup Range(t[x])
           /\ Others(t, c, x) \cap Range(t[x]) = {}
BY ChainEntries DEF Others, Range

(* No two entries of a sound table have one key.                           *)
LEMMA OnceInTable ==
    ASSUME HashAssumption, NEW c \in Nat \ {0}, NEW t, Sound(t, c),
           NEW e \in Entries(t), NEW f \in Entries(t), e.key = f.key
    PROVE  e = f
<1> DEFINE x == Index(e.key, c)
<1>1. x \in DOMAIN t
  BY InTable DEF Sound, Placed
<1>2. PICK i \in DOMAIN t[x] : e = t[x][i]
  BY <1>1, ChainEntries
<1>3. PICK j \in DOMAIN t[x] : f = t[x][j]
  BY <1>1, ChainEntries
<1>4. i = j
  BY <1>1, <1>2, <1>3, ChainEntries
<1>5. QED BY <1>2, <1>3, <1>4

LEMMA Nothing ==
    ASSUME NEW c \in Nat
    PROVE  Sound(Empty(c), c) /\ Entries(Empty(c)) = {}
<1>1. << >> \in Seq(Entry) /\ DOMAIN << >> = {}
  BY EmptySeq
<1>2. /\ Empty(c) \in Table(c)
      /\ \A b \in DOMAIN Empty(c) : Empty(c)[b] = << >>
  BY <1>1 DEF Empty, Table
<1>3. \A b \in DOMAIN Empty(c) : DOMAIN Empty(c)[b] = {}
  BY <1>1, <1>2
<1>4. Entries(Empty(c)) = {}
  BY <1>3, InTable
<1>5. Placed(Empty(c), c) /\ Once(Empty(c))
  BY <1>3 DEF Placed, Once
<1>6. QED BY <1>2, <1>4, <1>5 DEF Sound

(* One chain for another.                                                  *)
LEMMA Rechain ==
    ASSUME NEW c, NEW t, Sound(t, c), NEW x \in DOMAIN t, NEW s, Proper(s, c, x)
    PROVE  /\ Sound(Replaced(t, x, s), c)
           /\ Entries(Replaced(t, x, s)) = Others(t, c, x) \cup Range(s)
<1> DEFINE u == Replaced(t, x, s)
<1>1. u \in Table(c)
  BY DEF Table, Sound, Proper, Replaced
<1>2. DOMAIN u = DOMAIN t /\ u[x] = s /\ \A b \in DOMAIN t : b # x => u[b] = t[b]
  BY DEF Table, Sound, Replaced
<1> HIDE DEF u
<1>3. Placed(u, c)
  <2> SUFFICES ASSUME NEW b \in DOMAIN u, NEW i \in DOMAIN u[b] PROVE Index(u[b][i].key, c) = b
    BY DEF Placed
  <2>1. CASE b = x
    BY <1>2, <2>1 DEF Proper
  <2>2. CASE b # x
    <3>1. u[b] = t[b]
      BY <1>2, <2>2
    <3>2. QED BY <1>2, <3>1, ChainEntries
  <2>3. QED BY <2>1, <2>2
<1>4. Once(u)
  <2> SUFFICES ASSUME NEW b \in DOMAIN u, NEW i \in DOMAIN u[b], NEW j \in DOMAIN u[b],
                      u[b][i].key = u[b][j].key
               PROVE  i = j
    BY DEF Once
  <2>1. CASE b = x
    BY <1>2, <2>1 DEF Proper
  <2>2. CASE b # x
    <3>1. u[b] = t[b] /\ b \in DOMAIN t
      BY <1>2, <2>2
    <3>2. QED BY <3>1, ChainEntries
  <2>3. QED BY <2>1, <2>2
<1>5. Sound(u, c)
  BY <1>1, <1>3, <1>4 DEF Sound
<1>6. Range(u[x]) = Range(s)
  BY <1>2
<1>7. Others(u, c, x) = Others(t, c, x)
  <2>1. ASSUME NEW e \in Others(u, c, x) PROVE e \in Others(t, c, x)
    <3>1. PICK b \in DOMAIN u : \E i \in DOMAIN u[b] : e = u[b][i]
      <4>1. e \in Entries(u)
        BY <2>1 DEF Others
      <4>2. QED BY ONLY <4>1, InTable
    <3>2. b # x
      BY <1>5, <2>1, <3>1, ChainEntries DEF Others
    <3>3. u[b] = t[b] /\ b \in DOMAIN t
      BY <1>2, <3>2
    <3>4. QED BY <2>1, <3>1, <3>3, ChainEntries DEF Others
  <2>2. ASSUME NEW e \in Others(t, c, x) PROVE e \in Others(u, c, x)
    <3>1. PICK b \in DOMAIN t : \E i \in DOMAIN t[b] : e = t[b][i]
      BY <2>2, InTable DEF Others
    <3>2. b # x
      BY <2>2, <3>1, ChainEntries DEF Others
    <3>3. u[b] = t[b] /\ b \in DOMAIN u
      BY <1>2, <3>2
    <3>4. \E i \in DOMAIN u[b] : e = u[b][i]
      BY <3>1, <3>3
    <3>5. e \in Entries(u)
      BY ONLY <3>3, <3>4, InTable
    <3>6. QED BY <2>2, <3>5 DEF Others
  <2>3. QED BY <2>1, <2>2
<1>8. x \in DOMAIN u
  BY <1>2
<1>9. Entries(u) = Others(u, c, x) \cup Range(u[x])
  BY <1>5, <1>8, Partition
<1>10. QED BY <1>5, <1>6, <1>7, <1>9 DEF u

(* An entry at the front of the chain of its key.                          *)
LEMMA Prepend ==
    ASSUME HashAssumption, NEW c \in Nat \ {0}, NEW t, Sound(t, c),
           NEW e \in Entry, e.key \notin KeysOf(t)
    PROVE  Sound(Ahead(t, c, e), c) /\ Entries(Ahead(t, c, e)) = Entries(t) \cup {e}
<1> DEFINE x == Index(e.key, c)
           s == <<e>> \o t[x]
           u == Ahead(t, c, e)
<1>1. e.key \in Keys /\ x \in DOMAIN t
  BY IndexRange DEF Entry, Sound, Table
<1>2. t[x] \in Seq(Entry) /\ Len(t[x]) \in Nat /\ DOMAIN t[x] = 1..Len(t[x])
  BY <1>1, Chain DEF Sound
<1>3. /\ s \in Seq(Entry) /\ DOMAIN s = 1..Len(t[x]) + 1
      /\ s[1] = e /\ \A i \in 2..Len(t[x]) + 1 : s[i] = t[x][i - 1]
  <2>1. <<e>> \in Seq(Entry) /\ Len(<<e>>) = 1 /\ <<e>>[1] = e
    OBVIOUS
  <2>2. \A i \in 1..Len(t[x]) + 1 : s[i] = IF i <= 1 THEN <<e>>[i] ELSE t[x][i - 1]
    BY <1>2, <2>1, ConcatProperties
  <2>3. s \in Seq(Entry) /\ Len(s) = Len(t[x]) + 1
    BY <1>2, <2>1, ConcatProperties
  <2>4. DOMAIN s = 1..Len(t[x]) + 1
    BY <1>2, <2>3, LenProperties
  <2>5. s[1] = e
    BY <1>2, <2>1, <2>2
  <2>6. \A i \in 2..Len(t[x]) + 1 : s[i] = t[x][i - 1]
    BY <1>2, <2>2
  <2>7. QED BY <2>3, <2>4, <2>5, <2>6
<1>4. u = Replaced(t, x, s)
  BY DEF Ahead
<1> HIDE DEF s, u
<1>5. /\ \A i \in DOMAIN t[x] : t[x][i] \in Entries(t) /\ Index(t[x][i].key, c) = x
      /\ \A f \in Entries(t) : Index(f.key, c) = x => \E i \in DOMAIN t[x] : f = t[x][i]
      /\ \A i, j \in DOMAIN t[x] : t[x][i].key = t[x][j].key => i = j
  BY <1>1, ChainEntries
<1>6. \A i \in DOMAIN t[x] : t[x][i].key # e.key
  BY <1>5 DEF KeysOf
<1>7. \A i \in DOMAIN s : i = 1 \/ (i - 1 \in DOMAIN t[x] /\ s[i] = t[x][i - 1])
  BY <1>2, <1>3
<1>8. ASSUME NEW i \in DOMAIN s PROVE Index(s[i].key, c) = x
  <2>1. CASE i = 1
    BY <1>3, <2>1
  <2>2. CASE i # 1
    BY <1>5, <1>7, <2>2
  <2>3. QED BY <2>1, <2>2
<1>9. ASSUME NEW i \in DOMAIN s, NEW j \in DOMAIN s, s[i].key = s[j].key PROVE i = j
  <2>1. CASE i = 1 /\ j # 1
    BY <1>3, <1>6, <1>7, <1>9, <2>1
  <2>2. CASE i # 1 /\ j = 1
    BY <1>3, <1>6, <1>7, <1>9, <2>2
  <2>3. CASE i # 1 /\ j # 1
    <3>1. i - 1 = j - 1
      BY <1>5, <1>7, <1>9, <2>3
    <3>2. i \in Int /\ j \in Int
      BY <1>2, <1>3
    <3>3. QED BY <3>1, <3>2
  <2>4. QED BY <2>1, <2>2, <2>3
<1>10. Sound(u, c) /\ Entries(u) = Others(t, c, x) \cup Range(s)
  <2>1. Proper(s, c, x)
    BY <1>3, <1>8, <1>9 DEF Proper
  <2>2. QED BY <1>1, <1>4, <2>1, Rechain
<1>11. ASSUME NEW i \in DOMAIN t[x] PROVE \E j \in DOMAIN s : t[x][i] = s[j]
  <2>1. i \in Nat /\ i + 1 \in 2..Len(t[x]) + 1
    BY <1>2
  <2>2. i + 1 \in DOMAIN s /\ s[i + 1] = t[x][(i + 1) - 1]
    BY <1>2, <1>3, <2>1
  <2>3. QED BY <2>1, <2>2
<1>12. 1 \in DOMAIN s
  BY <1>2, <1>3
<1>13. Range(s) = Range(t[x]) \cup {e}
  <2>1. ASSUME NEW i \in DOMAIN s PROVE s[i] \in Range(t[x]) \cup {e}
    BY <1>3, <1>7 DEF Range
  <2>2. \A i \in DOMAIN t[x] : t[x][i] \in Range(s)
    BY <1>11 DEF Range
  <2>3. e \in Range(s)
    BY <1>3, <1>12 DEF Range
  <2>4. QED BY <2>1, <2>2, <2>3 DEF Range
<1>14. Entries(t) = Others(t, c, x) \cup Range(t[x])
  BY <1>1, Partition
<1>15. QED BY <1>10, <1>13, <1>14 DEF u

(* s is the chain q less its n-th entry.                                   *)
Without(s, q, n) == /\ s \in Seq(Entry) /\ Len(s) = Len(q) - 1
                    /\ \A i \in 1..Len(s) : s[i] = IF i < n THEN q[i] ELSE q[i + 1]

LEMMA Cut ==
    ASSUME NEW c \in Nat \ {0}, NEW t, Sound(t, c),
           NEW x \in DOMAIN t, NEW n \in DOMAIN t[x],
           NEW s, Without(s, t[x], n)
    PROVE  /\ Sound(Replaced(t, x, s), c)
           /\ Entries(Replaced(t, x, s)) = Entries(t) \ {t[x][n]}
<1> DEFINE u == Replaced(t, x, s)
<1>0. /\ s \in Seq(Entry) /\ Len(s) = Len(t[x]) - 1
      /\ \A i \in 1..Len(s) : s[i] = IF i < n THEN t[x][i] ELSE t[x][i + 1]
  BY DEF Without
<1>1. t[x] \in Seq(Entry) /\ Len(t[x]) \in Nat /\ DOMAIN t[x] = 1..Len(t[x])
  BY Chain DEF Sound
<1>2. Len(s) \in Nat /\ DOMAIN s = 1..Len(s)
  BY <1>0, LenProperties
<1>3. /\ \A i \in DOMAIN t[x] : t[x][i] \in Entries(t) /\ Index(t[x][i].key, c) = x
      /\ \A f \in Entries(t) : Index(f.key, c) = x => \E i \in DOMAIN t[x] : f = t[x][i]
      /\ \A i, j \in DOMAIN t[x] : t[x][i].key = t[x][j].key => i = j
  BY ChainEntries
<1> DEFINE old(i) == IF i < n THEN i ELSE i + 1
<1>4. \A i \in DOMAIN s : old(i) \in DOMAIN t[x] /\ old(i) # n /\ s[i] = t[x][old(i)]
  BY <1>0, <1>1, <1>2
<1>5. \A i, j \in DOMAIN s : old(i) = old(j) => i = j
  BY <1>1, <1>2
<1>6. ASSUME NEW i \in DOMAIN t[x], i # n PROVE \E j \in DOMAIN s : i = old(j)
  <2>1. CASE i < n
    <3>1. i \in DOMAIN s /\ i = old(i)
      BY <1>0, <1>1, <1>2, <2>1
    <3>2. QED BY <3>1
  <2>2. CASE i > n
    <3>1. i - 1 \in DOMAIN s /\ i = old(i - 1)
      BY <1>0, <1>1, <1>2, <2>2
    <3>2. QED BY <3>1
  <2>3. QED BY <1>1, <1>6, <2>1, <2>2
<1> HIDE DEF old
<1>7. \A i \in DOMAIN s : Index(s[i].key, c) = x
  BY <1>3, <1>4
<1>8. \A i, j \in DOMAIN s : s[i].key = s[j].key => i = j
  BY <1>3, <1>4, <1>5
<1>9. Sound(u, c) /\ Entries(u) = Others(t, c, x) \cup Range(s)
  <2>1. Proper(s, c, x)
    BY <1>0, <1>7, <1>8 DEF Proper
  <2>2. QED BY <2>1, Rechain
<1>10. Range(s) = Range(t[x]) \ {t[x][n]}
  <2>1. \A i \in DOMAIN t[x] : t[x][i] = t[x][n] => i = n
    BY <1>3
  <2>2. \A i \in DOMAIN s : s[i] \in Range(t[x]) /\ s[i] # t[x][n]
    BY <1>4, <2>1 DEF Range
  <2>3. \A i \in DOMAIN t[x] : i # n => t[x][i] \in Range(s)
    BY <1>4, <1>6 DEF Range
  <2>4. QED BY <2>2, <2>3 DEF Range
<1>11. t[x][n] \in Range(t[x])
  BY DEF Range
<1>12. /\ Entries(t) = Others(t, c, x) \cup Range(t[x])
       /\ Others(t, c, x) \cap Range(t[x]) = {}
  BY Partition
<1>13. QED BY <1>9, <1>10, <1>11, <1>12

(* Another value for the n-th entry of a chain.                            *)
LEMMA Rewrite ==
    ASSUME NEW c \in Nat \ {0}, NEW t, Sound(t, c),
           NEW x \in DOMAIN t, NEW n \in DOMAIN t[x],
           NEW e \in Entry, e.key = t[x][n].key
    PROVE  /\ Sound(Replaced(t, x, Updated(t[x], n, e)), c)
           /\ Entries(Replaced(t, x, Updated(t[x], n, e))) = (Entries(t) \ {t[x][n]}) \cup {e}
<1>1. t[x] \in Seq(Entry) /\ Len(t[x]) \in Nat /\ DOMAIN t[x] = 1..Len(t[x])
  BY Chain DEF Sound
<1> DEFINE s == [t[x] EXCEPT ![n] = e]
           u == Replaced(t, x, Updated(t[x], n, e))
<1>2. s \in Seq(Entry)
  BY <1>1, ExceptSeq
<1>3. DOMAIN s = DOMAIN t[x] /\ s[n] = e /\ \A i \in DOMAIN s : i # n => s[i] = t[x][i]
  OBVIOUS
<1>4. /\ \A i \in DOMAIN t[x] : t[x][i] \in Entries(t) /\ Index(t[x][i].key, c) = x
      /\ \A f \in Entries(t) : Index(f.key, c) = x => \E i \in DOMAIN t[x] : f = t[x][i]
      /\ \A i, j \in DOMAIN t[x] : t[x][i].key = t[x][j].key => i = j
  BY ChainEntries
<1>5. u = Replaced(t, x, s)
  BY DEF Updated
<1> HIDE DEF s, u
<1>6. ASSUME NEW i \in DOMAIN s PROVE s[i].key = t[x][i].key
  <2>1. CASE i = n
    BY <1>3, <2>1
  <2>2. CASE i # n
    BY <1>3, <2>2
  <2>3. QED BY <2>1, <2>2
<1>7. \A i \in DOMAIN s : Index(s[i].key, c) = x
  BY <1>3, <1>4, <1>6
<1>8. \A i, j \in DOMAIN s : s[i].key = s[j].key => i = j
  BY <1>3, <1>4, <1>6
<1>9. Sound(u, c) /\ Entries(u) = Others(t, c, x) \cup Range(s)
  <2>1. Proper(s, c, x)
    BY <1>2, <1>7, <1>8 DEF Proper
  <2>2. QED BY <1>5, <2>1, Rechain
<1>10. Range(s) = (Range(t[x]) \ {t[x][n]}) \cup {e}
  <2>1. \A i \in DOMAIN t[x] : t[x][i] = t[x][n] => i = n
    BY <1>4
  <2>2. \A i \in DOMAIN s : i # n => s[i] \in Range(t[x]) /\ s[i] # t[x][n]
    BY <1>3, <2>1 DEF Range
  <2>3. \A i \in DOMAIN t[x] : i # n => t[x][i] \in Range(s)
    BY <1>3 DEF Range
  <2>4. s[n] = e /\ n \in DOMAIN s
    BY <1>3
  <2>5. QED BY <2>2, <2>3, <2>4 DEF Range
<1>11. t[x][n] \in Range(t[x])
  BY DEF Range
<1>12. /\ Entries(t) = Others(t, c, x) \cup Range(t[x])
       /\ Others(t, c, x) \cap Range(t[x]) = {}
  BY Partition
<1>13. Entries(t) \ {t[x][n]} = Others(t, c, x) \cup (Range(t[x]) \ {t[x][n]})
  BY <1>11, <1>12
<1>14. QED BY <1>9, <1>10, <1>13 DEF u

(* What hashmap_resize takes from a chain, and what hashmap_remove does.    *)
LEMMA CutFirst ==
    ASSUME NEW c \in Nat \ {0}, NEW t, Sound(t, c), NEW x \in DOMAIN t, t[x] # << >>,
           NEW u, u = Replaced(t, x, Tail(t[x]))
    PROVE  /\ Sound(u, c) /\ Entries(u) = Entries(t) \ {Head(t[x])}
           /\ Head(t[x]) \in Entries(t)
<1>1. t[x] \in Seq(Entry) /\ Len(t[x]) \in Nat /\ DOMAIN t[x] = 1..Len(t[x])
  BY Chain DEF Sound
<1>2. 1 \in DOMAIN t[x] /\ Head(t[x]) = t[x][1]
  BY <1>1, EmptySeq
<1>3. /\ Tail(t[x]) \in Seq(Entry) /\ Len(Tail(t[x])) = Len(t[x]) - 1
      /\ \A i \in 1..Len(Tail(t[x])) : Tail(t[x])[i] = IF i < 1 THEN t[x][i] ELSE t[x][i + 1]
  BY <1>1, HeadTailProperties
<1>4. Sound(u, c) /\ Entries(u) = Entries(t) \ {t[x][1]}
  <2>1. Without(Tail(t[x]), t[x], 1)
    BY <1>3 DEF Without
  <2>2. QED BY <1>2, <2>1, Cut
<1>5. QED BY <1>2, <1>4, ChainEntries

LEMMA CutAt ==
    ASSUME NEW c \in Nat \ {0}, NEW t, Sound(t, c), NEW x \in DOMAIN t, NEW n \in DOMAIN t[x],
           NEW u, u = Replaced(t, x, RemoveAt(t[x], n))
    PROVE  Sound(u, c) /\ Entries(u) = Entries(t) \ {t[x][n]}
<1> DEFINE q == t[x]
           p == SubSeq(q, 1, n - 1)
           r == SubSeq(q, n + 1, Len(q))
<1>1. /\ q \in Seq(Entry) /\ Len(q) \in Nat /\ n \in 1..Len(q)
      /\ \A i \in 1..Len(q) : q[i] \in Entry
  BY Chain DEF Sound
<1> HIDE DEF q
<1>2. p \in Seq(Entry) /\ Len(p) = n - 1 /\ \A i \in 1..n - 1 : p[i] = q[i]
  <2>1. \A i \in 1..n - 1 : q[i] \in Entry
    BY <1>1
  <2>2. /\ p \in Seq(Entry) /\ Len(p) = IF 1 <= n - 1 THEN (n - 1) - 1 + 1 ELSE 0
        /\ \A i \in 1..(n - 1) - 1 + 1 : p[i] = q[1 + i - 1]
    BY <1>1, <2>1, SubSeqProperties
  <2>3. QED BY <1>1, <2>2
<1>3. r \in Seq(Entry) /\ Len(r) = Len(q) - n /\ \A i \in 1..Len(q) - n : r[i] = q[n + i]
  <2>1. \A i \in n + 1..Len(q) : q[i] \in Entry
    BY <1>1
  <2>2. /\ r \in Seq(Entry) /\ Len(r) = IF n + 1 <= Len(q) THEN Len(q) - (n + 1) + 1 ELSE 0
        /\ \A i \in 1..Len(q) - (n + 1) + 1 : r[i] = q[(n + 1) + i - 1]
    BY <1>1, <2>1, SubSeqProperties
  <2>3. Len(q) - (n + 1) + 1 = Len(q) - n /\ (n + 1 > Len(q) => Len(q) - n = 0)
    BY <1>1
  <2>4. \A i \in 1..Len(q) - n : (n + 1) + i - 1 = n + i
    BY <1>1
  <2> HIDE DEF r
  <2>5. Len(r) = Len(q) - n
    BY <1>1, <2>2, <2>3
  <2>6. QED BY <2>2, <2>3, <2>4, <2>5
<1> HIDE DEF p, r
<1>4. p \o r \in Seq(Entry) /\ Len(p \o r) = Len(q) - 1
  BY <1>1, <1>2, <1>3, ConcatProperties
<1>5. ASSUME NEW i \in 1..Len(q) - 1 PROVE (p \o r)[i] = IF i < n THEN q[i] ELSE q[i + 1]
  <2>1. (p \o r)[i] = IF i <= n - 1 THEN p[i] ELSE r[i - (n - 1)]
    <3>1. \A j \in 1..Len(p) + Len(r) : (p \o r)[j] = IF j <= Len(p) THEN p[j] ELSE r[j - Len(p)]
      BY <1>2, <1>3, ConcatProperties
    <3>2. Len(p) + Len(r) = Len(q) - 1
      BY <1>1, <1>2, <1>3
    <3>3. QED BY <1>2, <3>1, <3>2
  <2>2. CASE i < n
    BY <1>1, <1>2, <2>1, <2>2
  <2>3. CASE i >= n
    <3>1. i - (n - 1) \in 1..Len(q) - n /\ n + (i - (n - 1)) = i + 1
      BY <1>1, <2>3
    <3>2. QED BY <1>1, <1>3, <2>1, <2>3, <3>1
  <2>4. i < n \/ i >= n
    BY <1>1
  <2>5. QED BY <2>2, <2>3, <2>4
<1>6. u = Replaced(t, x, p \o r)
  BY DEF RemoveAt, p, r, q
<1>7. Without(p \o r, q, n)
  BY <1>4, <1>5 DEF Without
<1>8. QED BY <1>6, <1>7, Cut DEF q
-----------------------------------------------------------------------------
KeysIn(A)     == {e.key : e \in A}
Functional(A) == \A e, f \in A : e.key = f.key => e = f
With(A, e)    == {f \in A : f.key # e.key} \cup {e}
Plus(d, k, v) == [j \in DOMAIN d \cup {k} |-> IF j = k THEN v ELSE d[j]]
Dict(A)       == [k \in KeysIn(A) |-> (CHOOSE e \in A : e.key = k).value]

(* A dictionary, of entries with one key each: what it has, and what it    *)
(* has when an entry comes, with or without one it replaces, or goes.      *)
LEMMA DictOf ==
    ASSUME NEW A, Functional(A)
    PROVE  DOMAIN Dict(A) = KeysIn(A) /\ \A e \in A : Dict(A)[e.key] = e.value
<1> SUFFICES ASSUME NEW e \in A PROVE Dict(A)[e.key] = e.value
  BY DEF Dict
<1>1. (CHOOSE f \in A : f.key = e.key) = e
  BY DEF Functional
<1>2. e.key \in KeysIn(A)
  BY DEF KeysIn
<1>3. QED BY <1>1, <1>2 DEF Dict

LEMMA DictPut ==
    ASSUME NEW A, Functional(A), NEW e
    PROVE  /\ Functional(With(A, e)) /\ KeysIn(With(A, e)) = KeysIn(A) \cup {e.key}
           /\ Dict(With(A, e)) = Plus(Dict(A), e.key, e.value)
<1> DEFINE B == With(A, e)
<1>1. Functional(B) /\ KeysIn(B) = KeysIn(A) \cup {e.key}
  BY DEF Functional, KeysIn, With
<1>2. ASSUME NEW j \in KeysIn(B)
      PROVE  Dict(B)[j] = IF j = e.key THEN e.value ELSE Dict(A)[j]
  <2>1. CASE j = e.key
    <3>1. e \in B
      BY DEF With
    <3>2. QED BY <1>1, <2>1, <3>1, DictOf
  <2>2. CASE j # e.key
    <3>1. PICK f \in A : f.key = j
      BY <1>1, <1>2, <2>2 DEF KeysIn
    <3>2. f \in B
      BY <2>2, <3>1 DEF With
    <3>3. QED BY <1>1, <2>2, <3>1, <3>2, DictOf
  <2>3. QED BY <2>1, <2>2
<1>3. DOMAIN Dict(A) \cup {e.key} = KeysIn(B)
  BY <1>1, DictOf
<1>4. Dict(B) = [j \in KeysIn(B) |-> Dict(B)[j]]
  BY DEF Dict
<1>5. QED BY <1>1, <1>2, <1>3, <1>4 DEF Plus

LEMMA DictDrop ==
    ASSUME NEW A, Functional(A), NEW k, NEW B, B = {f \in A : f.key # k}
    PROVE  /\ Functional(B) /\ KeysIn(B) = KeysIn(A) \ {k}
           /\ Dict(B) = [j \in DOMAIN Dict(A) \ {k} |-> Dict(A)[j]]
<1>1. Functional(B) /\ KeysIn(B) = KeysIn(A) \ {k}
  BY DEF Functional, KeysIn
<1>2. ASSUME NEW j \in KeysIn(B) PROVE Dict(B)[j] = Dict(A)[j]
  <2>1. PICK f \in B : f.key = j
    BY DEF KeysIn
  <2>2. QED BY <1>1, <2>1, DictOf
<1>3. DOMAIN Dict(A) \ {k} = KeysIn(B)
  BY <1>1, DictOf
<1>4. Dict(B) = [j \in KeysIn(B) |-> Dict(B)[j]]
  BY DEF Dict
<1>5. QED BY <1>1, <1>2, <1>3, <1>4

-----------------------------------------------------------------------------
(* The invariant: two sound tables without a common key, the second only   *)
(* while entries move, from chains below at no more.                       *)
Both == KeysIn(All)

MapInv ==
    /\ capacity \in Nat \ {0} /\ arg \in Entry
    /\ Sound(buckets, capacity)
    /\ \/ /\ pc = "rehash" /\ Sound(new_buckets, 2 * capacity)
          /\ at \in 0..capacity /\ \A b \in DOMAIN buckets : b < at => buckets[b] = << >>
       \/ pc # "rehash" /\ new_buckets = Empty(0)
    /\ Functional(All)
    /\ KeysOf(buckets) \cap KeysOf(new_buckets) = {}
    /\ IsFiniteSet(Both) /\ Cardinality(Both) = size

LEMMA KeysOfBoth == Both = KeysOf(buckets) \cup KeysOf(new_buckets)
BY DEF Both, KeysIn, All, KeysOf

(* Outside of a move there is one table.                                   *)
LEMMA OneTable ==
    ASSUME MapInv, pc # "rehash"
    PROVE  All = Entries(buckets) /\ new_buckets = Empty(0)
BY Nothing DEF MapInv, All

(* The search of a chain finds the entry of the key.                       *)
LEMMA FindIsEntry ==
    ASSUME HashAssumption, MapInv, NEW k \in Keys,
           NEW x, x = Index(k, capacity)
    PROVE  /\ x \in DOMAIN buckets
           /\ Find(k) # 0 => /\ Find(k) \in DOMAIN buckets[x]
                                 /\ buckets[x][Find(k)].key = k
                                 /\ buckets[x][Find(k)] \in Entries(buckets)
           /\ Find(k) = 0 => k \notin KeysOf(buckets)
<1> DEFINE q == buckets[x]
           found == {i \in 1..Len(q) : q[i].key = k}
<1>1. x \in DOMAIN buckets /\ Sound(buckets, capacity)
  BY IndexRange DEF MapInv, Sound, Table
<1>2. Len(q) \in Nat /\ DOMAIN q = 1..Len(q)
  BY <1>1, Chain DEF Sound, MapInv
<1>3. Find(k) = IF found = {} THEN 0 ELSE CHOOSE i \in found : \A j \in found : i <= j
  BY DEF Find
<1> HIDE DEF q
<1>4. /\ \A i \in DOMAIN q : q[i] \in Entries(buckets)
      /\ \A e \in Entries(buckets) : Index(e.key, capacity) = x => \E i \in DOMAIN q : e = q[i]
      /\ \A i, j \in DOMAIN q : q[i].key = q[j].key => i = j
  BY <1>1, ChainEntries DEF q
<1>5. CASE found = {}
  <2>1. k \notin KeysOf(buckets)
    BY <1>2, <1>4, <1>5 DEF KeysOf
  <2>2. QED BY <1>1, <1>3, <1>5, <2>1
<1>6. CASE found # {}
  <2>1. PICK i \in found : TRUE
    BY <1>6
  <2>2. found = {i}
    BY <1>2, <1>4, <2>1
  <2>3. i \in 1..Len(q) /\ q[i].key = k
    BY <2>1
  <2> HIDE DEF found
  <2>4. (CHOOSE m \in found : \A j \in found : m <= j) = i
    BY <1>2, <2>2, <2>3
  <2>5. Find(k) = i
    BY <1>3, <1>6, <2>4
  <2>6. Find(k) # 0
    BY <1>2, <2>3, <2>5
  <2>7. QED BY <1>1, <1>2, <1>4, <2>3, <2>5, <2>6 DEF q
<1>7. QED BY <1>5, <1>6

LEMMA MapInit ==
    ASSUME HashAssumption, CapacityAssumption, Init
    PROVE  MapInv /\ All = {}
<1>1. capacity \in Nat \ {0} /\ arg \in Entry /\ pc = "ready" /\ size = 0
  BY DEF Init, CapacityAssumption
<1>2. buckets = Empty(capacity) /\ new_buckets = Empty(0)
  BY DEF Init
<1>3. Sound(buckets, capacity) /\ Entries(buckets) = {} /\ Entries(new_buckets) = {}
  BY <1>1, <1>2, Nothing
<1>4. All = {} /\ KeysOf(buckets) = {} /\ Both = {}
  BY <1>3 DEF All, KeysOf, Both, KeysIn
<1>5. QED BY <1>1, <1>2, <1>3, <1>4, FS_EmptySet DEF MapInv, Functional

(* The calls that leave the entries what they are.                         *)
LEMMA MapCall ==
    ASSUME MapInv, NEW f \in Functions, NEW k \in Keys, NEW v \in Values, Call(f, k, v)
    PROVE  MapInv' /\ All' = All
<1>1. arg' \in Entry /\ pc = "ready" /\ pc' # "rehash"
  BY DEF Call, Functions, Entry
<1>2. /\ buckets' = buckets /\ capacity' = capacity /\ size' = size
      /\ new_buckets' = new_buckets /\ at' = at
  BY DEF Call
<1>3. All' = All
  BY <1>2 DEF All
<1>4. QED BY <1>1, <1>2, <1>3 DEF MapInv, Both

LEMMA MapSet ==
    ASSUME MapInv, Set
    PROVE  MapInv' /\ All' = All
<1>1. arg' = arg /\ pc = "set" /\ pc' # "rehash"
  BY DEF Set
<1>2. /\ buckets' = buckets /\ capacity' = capacity /\ size' = size
      /\ new_buckets' = new_buckets /\ at' = at
  BY DEF Set
<1>3. All' = All
  BY <1>2 DEF All
<1>4. QED BY <1>1, <1>2, <1>3 DEF MapInv, Both

LEMMA MapAnswer ==
    ASSUME MapInv, NEW f, f # "rehash", NEW a, Answer(f, a)
    PROVE  MapInv' /\ All' = All
<1>1. /\ buckets' = buckets /\ capacity' = capacity /\ size' = size
      /\ new_buckets' = new_buckets /\ at' = at /\ arg' = arg
      /\ pc # "rehash" /\ pc' # "rehash"
  BY DEF Answer
<1>2. All' = All
  BY <1>1 DEF All
<1>3. QED BY <1>1, <1>2 DEF MapInv, Both

LEMMA MapResize ==
    ASSUME MapInv, Resize
    PROVE  MapInv' /\ All' = All
<1>1. buckets' = buckets /\ capacity' = capacity /\ size' = size /\ arg' = arg /\ pc = "resize"
  BY DEF Resize
<1>2. capacity \in Nat \ {0} /\ new_buckets = Empty(0) /\ Entries(new_buckets) = {}
  BY <1>1, Nothing DEF MapInv
<1>3. CASE new_buckets' = Empty(2 * capacity) /\ at' = 0 /\ pc' = "rehash"
  <2>1. Sound(new_buckets', 2 * capacity') /\ Entries(new_buckets') = {}
    BY <1>1, <1>2, <1>3, Nothing
  <2>2. All' = All
    BY <1>1, <1>2, <2>1 DEF All
  <2>3. KeysOf(new_buckets') = {}
    BY <2>1 DEF KeysOf
  <2>4. at' \in 0..capacity' /\ \A b \in DOMAIN buckets' : b < at' => buckets'[b] = << >>
    BY <1>1, <1>2, <1>3 DEF MapInv, Sound, Table
  <2>5. QED BY <1>1, <1>3, <2>1, <2>2, <2>3, <2>4 DEF MapInv, Both
<1>4. CASE pc' = "put" /\ new_buckets' = new_buckets
  <2>1. All' = All
    BY <1>1, <1>4 DEF All
  <2>2. QED BY <1>1, <1>4, <2>1 DEF MapInv, Both
<1>5. QED BY <1>3, <1>4 DEF Resize

LEMMA MapNextChain ==
    ASSUME MapInv, NextChain
    PROVE  MapInv' /\ All' = All
<1>1. /\ buckets' = buckets /\ capacity' = capacity /\ size' = size
      /\ new_buckets' = new_buckets /\ pc' = pc /\ arg' = arg /\ pc = "rehash"
      /\ at' = at + 1 /\ at < capacity /\ buckets[at] = << >>
  BY DEF NextChain
<1>2. All' = All
  BY <1>1 DEF All
<1>3. capacity \in Nat \ {0} /\ at \in 0..capacity /\ DOMAIN buckets = 0..capacity-1
  BY <1>1 DEF MapInv, Sound, Table
<1>4. at' \in 0..capacity'
  BY <1>1, <1>3
<1>5. ASSUME NEW b \in DOMAIN buckets', b < at' PROVE buckets'[b] = << >>
  <2>1. b < at \/ b = at
    BY <1>1, <1>3, <1>5
  <2>2. QED BY <1>1, <2>1 DEF MapInv
<1>6. QED BY <1>1, <1>2, <1>4, <1>5 DEF MapInv, Both

LEMMA MapMove ==
    ASSUME HashAssumption, MapInv, Move
    PROVE  MapInv' /\ All' = All
<1> DEFINE e == Head(buckets[at])
           x == Index(e.key, 2 * capacity)
<1>1. /\ pc = "rehash" /\ pc' = pc /\ at < capacity /\ at' = at /\ buckets[at] # << >>
      /\ capacity' = capacity /\ size' = size /\ arg' = arg
      /\ buckets' = [buckets EXCEPT ![at] = Tail(@)]
      /\ new_buckets' = [new_buckets EXCEPT ![x] = <<e>> \o @]
  BY DEF Move
<1>2. /\ capacity \in Nat \ {0} /\ 2 * capacity \in Nat \ {0}
      /\ Sound(buckets, capacity) /\ Sound(new_buckets, 2 * capacity)
      /\ at \in DOMAIN buckets /\ DOMAIN buckets = 0..capacity-1
  BY <1>1 DEF MapInv, Sound, Table
<1>3. /\ buckets' = Replaced(buckets, at, Tail(buckets[at]))
      /\ new_buckets' = Ahead(new_buckets, 2 * capacity, e)
  BY <1>1 DEF Replaced, Ahead
<1>4. /\ Sound(buckets', capacity) /\ Entries(buckets') = Entries(buckets) \ {e}
      /\ e \in Entries(buckets)
  BY <1>1, <1>2, <1>3, CutFirst
<1> HIDE DEF e
<1>5. e \in Entry
  BY <1>2, <1>4, EntriesTyped DEF Sound
<1>6. e.key \notin KeysOf(new_buckets)
  BY <1>4 DEF MapInv, KeysOf
<1>7. Sound(new_buckets', 2 * capacity) /\ Entries(new_buckets') = Entries(new_buckets) \cup {e}
  BY <1>2, <1>3, <1>5, <1>6, Prepend
<1>8. All' = All
  BY <1>4, <1>7 DEF All
<1>9. KeysOf(buckets') \cap KeysOf(new_buckets') = {}
  <2>1. \A f \in Entries(buckets') : f.key # e.key
    BY <1>2, <1>4, OnceInTable
  <2>2. QED BY <1>4, <1>7, <2>1 DEF MapInv, KeysOf
<1>10. ASSUME NEW b \in DOMAIN buckets', b < at' PROVE buckets'[b] = << >>
  BY <1>1, <1>2, <1>10 DEF MapInv
<1>11. at \in 0..capacity
  BY <1>1 DEF MapInv
<1>12. QED BY <1>1, <1>2, <1>4, <1>7, <1>8, <1>9, <1>10, <1>11 DEF MapInv, Both

LEMMA MapSwap ==
    ASSUME MapInv, Swap
    PROVE  MapInv' /\ All' = All
<1>1. /\ pc = "rehash" /\ pc' = "put" /\ at = capacity /\ arg' = arg /\ size' = size
      /\ buckets' = new_buckets /\ capacity' = 2 * capacity /\ new_buckets' = Empty(0)
  BY DEF Swap
<1>2. capacity \in Nat \ {0} /\ capacity' \in Nat \ {0} /\ Sound(buckets', capacity')
  BY <1>1 DEF MapInv
<1>3. \A b \in DOMAIN buckets : buckets[b] = << >>
  BY <1>1, <1>2 DEF MapInv, Sound, Table
<1>4. Entries(buckets) = {}
  BY <1>3, InTable
<1>5. Entries(new_buckets') = {}
  BY <1>1, Nothing
<1>6. All' = All
  BY <1>1, <1>4, <1>5 DEF All
<1>7. KeysOf(new_buckets') = {}
  BY <1>5 DEF KeysOf
<1>8. QED BY <1>1, <1>2, <1>6, <1>7 DEF MapInv, Both

(* The calls that change them.  An entry replaces those of its key.        *)
LEMMA MapPut ==
    ASSUME HashAssumption, MapInv, Put
    PROVE  /\ MapInv'
           /\ \/ All' = With(All, arg)
              \/ All' = All /\ Find(arg.key) = 0
<1> DEFINE x == Index(arg.key, capacity)
           n == Find(arg.key)
<1>1. /\ pc = "put" /\ pc' = "ready" /\ capacity' = capacity /\ arg' = arg
      /\ new_buckets' = new_buckets
  BY DEF Put
<1>2. /\ capacity \in Nat \ {0} /\ arg \in Entry /\ arg.key \in Keys
      /\ Sound(buckets, capacity) /\ All = Entries(buckets) /\ new_buckets = Empty(0)
  BY <1>1, OneTable DEF MapInv, Entry
<1>3. Entries(new_buckets) = {} /\ KeysOf(new_buckets) = {}
  BY <1>2, Nothing DEF KeysOf
<1>4. /\ x \in DOMAIN buckets
      /\ n # 0 => /\ n \in DOMAIN buckets[x] /\ buckets[x][n].key = arg.key
                  /\ buckets[x][n] \in Entries(buckets)
      /\ n = 0 => arg.key \notin KeysOf(buckets)
  BY <1>2, FindIsEntry
<1>5. Functional(All) /\ IsFiniteSet(Both) /\ Cardinality(Both) = size
  BY DEF MapInv
<1> HIDE DEF x, n
<1>6. CASE n # 0 /\ buckets' = [buckets EXCEPT ![x][n].value = arg.value] /\ size' = size
  <2>1. [buckets[x][n] EXCEPT !.value = arg.value] = arg
    <3>1. buckets[x][n] \in Entry
      BY <1>2, <1>4, <1>6, EntriesTyped DEF Sound
    <3>2. QED BY <1>2, <1>4, <1>6, <3>1 DEF Entry
  <2>2. buckets' = Replaced(buckets, x, Updated(buckets[x], n, arg))
    BY <1>6, <2>1 DEF Replaced, Updated
  <2>3. /\ Sound(buckets', capacity)
        /\ Entries(buckets') = (Entries(buckets) \ {buckets[x][n]}) \cup {arg}
    <3>1. n \in DOMAIN buckets[x] /\ arg.key = buckets[x][n].key
      BY <1>4, <1>6
    <3>2. /\ Sound(Replaced(buckets, x, Updated(buckets[x], n, arg)), capacity)
          /\ Entries(Replaced(buckets, x, Updated(buckets[x], n, arg)))
                = (Entries(buckets) \ {buckets[x][n]}) \cup {arg}
      BY <1>2, <1>4, <3>1, Rewrite
    <3>3. QED BY <2>2, <3>2
  <2>4. (Entries(buckets) \ {buckets[x][n]}) \cup {arg} = With(All, arg)
    <3>1. Entries(buckets) \ {buckets[x][n]} = {f \in All : f.key # arg.key}
      BY <1>2, <1>4, <1>5, <1>6 DEF Functional
    <3>2. QED BY <3>1 DEF With
  <2>5. All' = With(All, arg)
    BY <1>1, <1>3, <2>3, <2>4 DEF All
  <2>6. Functional(All') /\ Both' = Both \cup {arg.key}
    BY <1>5, <2>5, DictPut DEF Both
  <2>7. arg.key \in Both
    BY <1>2, <1>4, <1>6 DEF Both, KeysIn
  <2>8. Both' = Both
    BY <2>6, <2>7
  <2>9. MapInv'
    BY <1>1, <1>2, <1>3, <1>5, <1>6, <2>3, <2>6, <2>8 DEF MapInv
  <2>10. QED BY <2>5, <2>9
<1>7. CASE n = 0 /\ buckets' = [buckets EXCEPT ![x] = <<arg>> \o @] /\ size' = size + 1
  <2>1. buckets' = Ahead(buckets, capacity, arg)
    BY <1>7 DEF Replaced, Ahead, x
  <2>2. Sound(buckets', capacity) /\ Entries(buckets') = Entries(buckets) \cup {arg}
    <3>1. arg.key \notin KeysOf(buckets)
      BY <1>4, <1>7
    <3>2. QED BY <1>2, <2>1, <3>1, Prepend
  <2>3. {f \in All : f.key # arg.key} = All
    BY <1>2, <1>4, <1>7 DEF KeysOf
  <2>4. All' = With(All, arg)
    BY <1>1, <1>2, <1>3, <2>2, <2>3 DEF All, With
  <2>5. Functional(All') /\ Both' = Both \cup {arg.key}
    BY <1>5, <2>4, DictPut DEF Both
  <2>6. arg.key \notin Both
    BY <1>3, <1>4, <1>7, KeysOfBoth
  <2>7. IsFiniteSet(Both') /\ Cardinality(Both') = size'
    BY <1>5, <1>7, <2>5, <2>6, FS_AddElement
  <2>8. MapInv'
    BY <1>1, <1>2, <1>3, <2>2, <2>5, <2>7 DEF MapInv
  <2>9. QED BY <2>4, <2>8
<1>8. CASE n = 0 /\ UNCHANGED <<buckets, size>>
  <2>1. All' = All
    BY <1>1, <1>8 DEF All
  <2>2. MapInv'
    BY <1>1, <1>2, <1>3, <1>5, <1>8, <2>1 DEF MapInv, Both
  <2>3. QED BY <1>8, <2>1, <2>2 DEF n
<1>9. QED BY <1>6, <1>7, <1>8 DEF Put, Update, Insert, x, n

LEMMA MapRemove ==
    ASSUME HashAssumption, MapInv, NEW k, k = arg.key,
           RemoveKey, Find(k) # 0
    PROVE  MapInv' /\ All' = {f \in All : f.key # k}
<1> DEFINE x == Index(k, capacity)
           n == Find(k)
<1>1. /\ pc = "remove" /\ n # 0 /\ size' = size - 1
      /\ buckets' = [buckets EXCEPT ![x] = RemoveAt(@, n)]
      /\ pc' = "ready" /\ capacity' = capacity /\ arg' = arg /\ new_buckets' = new_buckets
  BY DEF RemoveKey
<1>2. /\ capacity \in Nat \ {0} /\ arg \in Entry /\ k \in Keys
      /\ Sound(buckets, capacity) /\ All = Entries(buckets) /\ new_buckets = Empty(0)
  BY <1>1, OneTable DEF MapInv, Entry
<1>3. Entries(new_buckets) = {} /\ KeysOf(new_buckets) = {}
  BY <1>2, Nothing DEF KeysOf
<1>4. /\ x \in DOMAIN buckets /\ n \in DOMAIN buckets[x] /\ buckets[x][n].key = k
      /\ buckets[x][n] \in Entries(buckets)
  BY <1>1, <1>2, FindIsEntry
<1>5. Functional(All) /\ IsFiniteSet(Both) /\ Cardinality(Both) = size
  BY DEF MapInv
<1> HIDE DEF x, n
<1>6. buckets' = Replaced(buckets, x, RemoveAt(buckets[x], n))
  BY <1>1 DEF Replaced
<1>7. Sound(buckets', capacity) /\ Entries(buckets') = Entries(buckets) \ {buckets[x][n]}
  BY <1>2, <1>4, <1>6, CutAt
<1>8. Entries(buckets) \ {buckets[x][n]} = {f \in All : f.key # k}
  BY <1>2, <1>4, <1>5 DEF Functional
<1>9. All' = {f \in All : f.key # k}
  BY <1>1, <1>3, <1>7, <1>8 DEF All
<1>10. Functional(All') /\ Both' = Both \ {k}
  BY <1>5, <1>9, DictDrop DEF Both, KeysIn, Functional
<1>11. k \in Both
  BY <1>2, <1>4 DEF Both, KeysIn
<1>12. IsFiniteSet(Both') /\ Cardinality(Both') = size'
  BY <1>1, <1>5, <1>10, <1>11, FS_RemoveElement
<1>13. QED BY <1>1, <1>2, <1>3, <1>7, <1>9, <1>10, <1>12 DEF MapInv

(* The key that is not there is not.                                       *)
LEMMA MapRemoveNone ==
    ASSUME HashAssumption, MapInv, RemoveKey, Find(arg.key) = 0
    PROVE  MapInv' /\ All' = All /\ All = {f \in All : f.key # arg.key}
<1>1. /\ pc = "remove" /\ pc' = "ready" /\ capacity' = capacity /\ arg' = arg
      /\ new_buckets' = new_buckets /\ buckets' = buckets /\ size' = size
  BY DEF RemoveKey
<1>2. All' = All
  BY <1>1 DEF All
<1>3. arg.key \in Keys /\ All = Entries(buckets)
  BY <1>1, OneTable DEF MapInv, Entry
<1>4. arg.key \notin KeysOf(buckets)
  BY <1>3, FindIsEntry
<1>5. All = {f \in All : f.key # arg.key}
  BY <1>3, <1>4 DEF KeysOf
<1>6. MapInv'
  BY <1>1, <1>2 DEF MapInv, Both
<1>7. QED BY <1>2, <1>5, <1>6

LEMMA MapClear ==
    ASSUME MapInv, Clear
    PROVE  MapInv' /\ All' = {}
<1>1. /\ pc = "clear" /\ buckets' = Empty(capacity) /\ size' = 0
      /\ pc' = "ready" /\ capacity' = capacity /\ arg' = arg /\ new_buckets' = new_buckets
  BY DEF Clear
<1>2. capacity \in Nat \ {0} /\ arg \in Entry /\ new_buckets = Empty(0)
  BY <1>1 DEF MapInv
<1>3. Sound(buckets', capacity) /\ Entries(buckets') = {} /\ Entries(new_buckets) = {}
  BY <1>1, <1>2, Nothing
<1>4. All' = {} /\ KeysOf(buckets') = {} /\ Both' = {}
  BY <1>1, <1>3 DEF All, KeysOf, Both, KeysIn
<1>5. QED BY <1>1, <1>2, <1>3, <1>4, FS_EmptySet DEF MapInv, Functional

LEMMA MapStep ==
    ASSUME HashAssumption, MapInv, [Next]_(vars)
    PROVE  MapInv'
<1>1. CASE Get
  <2>1. PICK f : f = "get"
    OBVIOUS
  <2>2. QED BY <1>1, <2>1, MapAnswer DEF Get
<1>2. CASE HasKey
  <2>1. PICK f : f = "has"
    OBVIOUS
  <2>2. QED BY <1>2, <2>1, MapAnswer DEF HasKey
<1>3. CASE Size
  <2>1. PICK f : f = "size"
    OBVIOUS
  <2>2. QED BY <1>3, <2>1, MapAnswer DEF Size
<1>4. CASE UNCHANGED vars
  BY <1>4 DEF vars, MapInv, Both, All
<1>5. CASE RemoveKey
  <2>1. PICK k : k = arg.key
    OBVIOUS
  <2>2. CASE Find(k) # 0
    BY <1>5, <2>1, <2>2, MapRemove
  <2>3. CASE Find(arg.key) = 0
    BY <1>5, <2>3, MapRemoveNone
  <2>4. QED BY <2>1, <2>2, <2>3
<1>6. QED BY <1>1, <1>2, <1>3, <1>4, <1>5, MapCall, MapSet, MapResize, MapMove, MapNextChain, MapSwap,
             MapPut, MapClear DEF Next

LEMMA MapInductive ==
    ASSUME HashAssumption, CapacityAssumption
    PROVE  Spec => []MapInv
<1>1. Init => MapInv
  BY MapInit
<1>2. MapInv /\ [Next]_(vars) => MapInv'
  BY MapStep
<1>3. QED BY <1>1, <1>2, PTL DEF Spec

(* Every entry is where its key is looked for, no key is there twice, and  *)
(* size counts the keys, also while a resize moves the entries.            *)
THEOREM MapReachable ==
    ASSUME HashAssumption, CapacityAssumption
    PROVE  Spec => []Reachable
<1>1. MapInv => Reachable
  <2> SUFFICES ASSUME MapInv PROVE Reachable
    OBVIOUS
  <2>1. Placed(buckets, capacity) /\ Once(buckets)
    BY DEF MapInv, Sound
  <2>2. Placed(new_buckets, 2 * capacity) /\ Once(new_buckets)
    <3>1. CASE Sound(new_buckets, 2 * capacity)
      BY <3>1 DEF Sound
    <3>2. CASE new_buckets = Empty(0)
      <4>1. DOMAIN new_buckets = {}
        BY <3>2 DEF Empty
      <4>2. QED BY <4>1 DEF Placed, Once
    <3>3. QED BY <3>1, <3>2 DEF MapInv
  <2>3. Cardinality(Both) = Cardinality(Both)
    BY DEF Cardinality, Cardinality
  <2>4. QED BY <2>1, <2>2, <2>3, KeysOfBoth DEF MapInv, Reachable
<1>2. QED BY <1>1, MapInductive, PTL

LEMMA ContentsIsDict == Contents = Dict(All)
BY DEF Contents, Dict, KeysIn

(* A question is answered from the contents.                               *)
LEMMA MapAsk ==
    ASSUME HashAssumption, MapInv, pc # "rehash", NEW k \in Keys
    PROVE  /\ Find(k) # 0 <=> Abstract!Has(k)
           /\ Find(k) # 0 => Found(k).value = Contents[k]
<1> DEFINE x == Index(k, capacity)
           n == Find(k)
<1>1. All = Entries(buckets) /\ Functional(All)
  BY OneTable DEF MapInv
<1>2. DOMAIN Contents = KeysIn(All) /\ \A e \in All : Contents[e.key] = e.value
  BY <1>1, ContentsIsDict, DictOf
<1>3. /\ n # 0 => buckets[x][n] \in Entries(buckets) /\ buckets[x][n].key = k
      /\ n = 0 => k \notin KeysOf(buckets)
  BY FindIsEntry
<1>4. Found(k) = buckets[x][n]
  BY DEF Found
<1> HIDE DEF x, n
<1>5. n = 0 => k \notin KeysIn(All)
  BY <1>1, <1>3 DEF KeysIn, KeysOf
<1>6. n # 0 => k \in KeysIn(All)
  BY <1>1, <1>3 DEF KeysIn
<1>7. n # 0 => Found(k).value = Contents[k]
  BY <1>1, <1>2, <1>3, <1>4
<1>8. QED BY <1>2, <1>5, <1>6, <1>7 DEF Abstract!Has, n

(* A step of the table and the step of the dictionary it is.               *)
LEMMA MapRefines ==
    ASSUME HashAssumption, MapInv, [Next]_(vars)
    PROVE  [Abstract!Next]_<<Contents, Doing, arg, ans>>
<1> DEFINE Goal == [Abstract!Next]_<<Contents, Doing, arg, ans>>
<1>1. ASSUME All' = All PROVE Contents' = Contents
  BY <1>1 DEF Contents
<1>2. Functional(All) /\ arg.key \in Keys /\ arg.value \in Values
  BY DEF MapInv, Entry
<1>3. ASSUME All' = All, ans' = ans, arg' = arg, Doing' = Doing PROVE Goal
  BY <1>1, <1>3
<1>4. ASSUME NEW f \in Functions, NEW k \in Keys, NEW v \in Values, Call(f, k, v) PROVE Goal
  <2>1. Contents' = Contents
    BY <1>1, <1>4, MapCall
  <2>2. Doing = "ready" /\ Doing' \in Functions /\ arg' \in Entry /\ ans' = ans
    BY <1>4 DEF Call, Doing, Functions, Entry
  <2>3. Abstract!Begin
    BY <2>1, <2>2 DEF Abstract!Begin, Abstract!Operations, Functions, Entry
  <2>4. QED BY <2>3 DEF Abstract!Next
<1>5. ASSUME Get PROVE Goal
  <2>1. PICK f : f = "get"
    OBVIOUS
  <2>2. Answer(f, IF Find(arg.key) # 0 THEN Found(arg.key).value ELSE arg.value)
    BY <1>5, <2>1 DEF Get
  <2>3. All' = All
    BY <2>1, <2>2, MapAnswer
  <2>4. /\ pc = "get" /\ pc' = "ready" /\ arg' = arg
        /\ ans' = IF Find(arg.key) # 0 THEN Found(arg.key).value ELSE arg.value
    BY <1>5 DEF Get, Answer
  <2>5. Contents' = Contents
    BY <1>1, <2>3
  <2>6. ans' = IF Abstract!Has(arg.key) THEN Contents[arg.key] ELSE arg.value
    BY <1>2, <2>4, MapAsk
  <2>7. Doing = "get" /\ Doing' = "ready"
    BY <2>4 DEF Doing
  <2>8. Abstract!Get
    BY <2>4, <2>5, <2>6, <2>7 DEF Abstract!Get, Abstract!End
  <2>9. QED BY <2>8 DEF Abstract!Next
<1>6. ASSUME HasKey PROVE Goal
  <2>1. PICK f : f = "has"
    OBVIOUS
  <2>2. Answer(f, IF Find(arg.key) # 0 THEN 1 ELSE 0)
    BY <1>6, <2>1 DEF HasKey
  <2>3. All' = All
    BY <2>1, <2>2, MapAnswer
  <2>4. /\ pc = "has" /\ pc' = "ready" /\ arg' = arg
        /\ ans' = IF Find(arg.key) # 0 THEN 1 ELSE 0
    BY <1>6 DEF HasKey, Answer
  <2>5. Contents' = Contents
    BY <1>1, <2>3
  <2>6. ans' = IF Abstract!Has(arg.key) THEN 1 ELSE 0
    BY <1>2, <2>4, MapAsk
  <2>7. Doing = "has" /\ Doing' = "ready"
    BY <2>4 DEF Doing
  <2>8. Abstract!HasKey
    BY <2>4, <2>5, <2>6, <2>7 DEF Abstract!HasKey, Abstract!End
  <2>9. QED BY <2>8 DEF Abstract!Next
<1>7. ASSUME Size PROVE Goal
  <2>1. PICK f : f = "size"
    OBVIOUS
  <2>2. Answer(f, size)
    BY <1>7, <2>1 DEF Size
  <2>3. All' = All
    BY <2>1, <2>2, MapAnswer
  <2>4. pc = "size" /\ pc' = "ready" /\ arg' = arg /\ ans' = size
    BY <1>7 DEF Size, Answer
  <2>5. Contents' = Contents
    BY <1>1, <2>3
  <2>6. DOMAIN Contents = Both
    BY <1>2, ContentsIsDict, DictOf DEF Both
  <2>7. Abstract!Cardinality(Both) = Cardinality(Both)
    BY DEF Abstract!Cardinality, Cardinality
  <2>8. Doing = "size" /\ Doing' = "ready"
    BY <2>4 DEF Doing
  <2>9. Abstract!Measure
    BY <2>4, <2>5, <2>6, <2>7, <2>8 DEF Abstract!Measure, Abstract!End, MapInv
  <2>10. QED BY <2>9 DEF Abstract!Next
<1>8. ASSUME Put PROVE Goal
  <2>1. ans' = ans /\ arg' = arg /\ Doing = "set" /\ Doing' = "ready"
    BY <1>8 DEF Put, Doing
  <2>2. CASE All' = With(All, arg)
    <3>1. Dict(All') = Plus(Dict(All), arg.key, arg.value)
      BY <1>2, <2>2, DictPut
    <3>2. Contents' = Dict(All')
      BY DEF Contents, Dict, KeysIn
    <3>3. Abstract!Put
      BY <2>1, <3>1, <3>2, ContentsIsDict DEF Abstract!Put, Abstract!End, Plus
    <3>4. QED BY <3>3 DEF Abstract!Next
  <2>3. CASE All' = All /\ Find(arg.key) = 0
    <3>1. Contents' = Contents
      BY <1>1, <2>3
    <3>2. pc # "rehash"
      BY <1>8 DEF Put
    <3>3. ~Abstract!Has(arg.key)
      BY <1>2, <2>3, <3>2, MapAsk
    <3>4. Abstract!Refuse
      BY <2>1, <3>1, <3>3 DEF Abstract!Refuse, Abstract!End
    <3>5. QED BY <3>4 DEF Abstract!Next
  <2>4. QED BY <1>8, <2>2, <2>3, MapPut
<1>9. ASSUME RemoveKey PROVE Goal
  <2>1. PICK k : k = arg.key
    OBVIOUS
  <2>2. All' = {f \in All : f.key # k}
    <3>1. CASE Find(k) # 0
      BY <1>9, <2>1, <3>1, MapRemove
    <3>2. CASE Find(arg.key) = 0
      BY <1>9, <2>1, <3>2, MapRemoveNone
    <3>3. QED BY <2>1, <3>1, <3>2
  <2>3. ans' = ans /\ arg' = arg /\ Doing = "remove" /\ Doing' = "ready"
    BY <1>9 DEF RemoveKey, Doing
  <2>4. Dict(All') = [j \in DOMAIN Dict(All) \ {k} |-> Dict(All)[j]]
    BY <1>2, <2>2, DictDrop
  <2>5. Contents' = Dict(All')
    BY DEF Contents, Dict, KeysIn
  <2>6. Abstract!Drop
    BY <2>1, <2>3, <2>4, <2>5, ContentsIsDict DEF Abstract!Drop, Abstract!End
  <2>7. QED BY <2>6 DEF Abstract!Next
<1>10. ASSUME Clear PROVE Goal
  <2>1. All' = {}
    BY <1>10, MapClear
  <2>2. DOMAIN Contents' = {}
    BY <2>1 DEF Contents
  <2>3. ans' = ans /\ arg' = arg /\ Doing = "clear" /\ Doing' = "ready"
    BY <1>10 DEF Clear, Doing
  <2>4. Abstract!Clear
    BY <2>2, <2>3 DEF Abstract!Clear, Abstract!End
  <2>5. QED BY <2>4 DEF Abstract!Next
<1>11. ASSUME Set \/ Resize \/ Move \/ NextChain \/ Swap PROVE Goal
  <2>1. All' = All
    BY <1>11, MapSet, MapResize, MapMove, MapNextChain, MapSwap
  <2>2. ans' = ans /\ arg' = arg
    BY <1>11 DEF Set, Resize, Move, NextChain, Swap
  <2>3. Doing' = Doing
    BY <1>11 DEF Set, Resize, Move, NextChain, Swap, Doing
  <2>4. QED BY <1>3, <2>1, <2>2, <2>3
<1>12. ASSUME UNCHANGED vars PROVE Goal
  BY <1>3, <1>12 DEF vars, All, Doing
<1> HIDE DEF Goal
<1>13. Goal
  BY <1>4, <1>5, <1>6, <1>7, <1>8, <1>9, <1>10, <1>11, <1>12 DEF Next
<1>14. QED BY <1>13 DEF Goal

(* The table is the dictionary its calls describe: a call of hashmap_set,   *)
(* hashmap_remove or of a query has its effect on the key it was given and  *)
(* on no other before it returns; only hashmap_set of a key that is not     *)
(* there may, without memory, return without one; growing changes nothing.  *)
THEOREM MapRefinesDictionary ==
    ASSUME HashAssumption, CapacityAssumption
    PROVE  Spec => IsDictionary
<1>1. Init => Abstract!Init
  <2> SUFFICES ASSUME Init PROVE Abstract!Init
    OBVIOUS
  <2>1. All = {} /\ ans = 0 /\ Doing = "ready" /\ arg \in Entry
    BY MapInit DEF Init, Doing
  <2>2. DOMAIN Contents = {}
    BY <2>1 DEF Contents
  <2>3. QED BY <2>1, <2>2 DEF Abstract!Init, Entry
<1>2. MapInv /\ [Next]_(vars) => [Abstract!Next]_<<Contents, Doing, arg, ans>>
  BY MapRefines
<1>3. QED BY <1>1, <1>2, MapInductive, PTL DEF Spec, IsDictionary, Abstract!Spec
=============================================================================

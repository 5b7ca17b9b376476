---------------------------- MODULE DefersProofs ----------------------------
(***************************************************************************)
(* Theorems of Defers, for every set of functions: the deferred blocks of  *)
(* a block run once each and last first, nothing but them and the value of *)
(* a `ret` is evaluated once one has run, and the containers of the body   *)
(* are destroyed once each.                                                *)
(***************************************************************************)
EXTENDS Defers, SequenceTheorems, WellFoundedInduction, TLAPS

-----------------------------------------------------------------------------
(* The C of this statement has clean-up before it.                         *)
Owes(f) == Ends(f.b, f.pc) \/ f.pc \in Of(f.b, "ret")

(* One block being executed: a defer it owes is still due or has run, and  *)
(* the due ones are before those that have run in the text.                *)
Sound(f) ==
    /\ f \in Frame
    /\ f.pc \in 1..End(f.b)
    /\ \A i \in Of(f.b, "ret") : f.pc <= i
    /\ Falling(f.ran)
    /\ \A d \in f.due : \A i \in DOMAIN f.ran : d < f.ran[i]
    /\ Owes(f) => In(f.ran) \cup f.due = Of(f.b, "defer")
    /\ ~Owes(f) => f.ran = <<>> /\ f.due = {}
    /\ f.free # {} => f.ran = <<>> /\ Ends(f.b, f.pc)

(* A frame and the one above it: unless it is a deferred block, control is *)
(* at the statement that has the block.                                    *)
AtNested(f)  == f.pc \in DOMAIN text[f.b] /\ text[f.b][f.pc].k \in Nested
Nests(p, c) == c.b # 1 /\ c.via # "fn" /\ (c.via # "run" => AtNested(p))

Chain(s) ==
    /\ s \in Seq(Frame) /\ s # <<>>
    /\ \A n \in DOMAIN s : Sound(s[n])
    /\ \A n \in DOMAIN s : n > 1 => Nests(s[n - 1], s[n])
    /\ s[1].b = 1 /\ s[1].via = "fn"

(* The containers of the body that are destroyed come before the others.   *)
Clean(f, r) ==
    /\ r \in Seq(Nat) /\ Rising(r)
    /\ \A i \in DOMAIN r : \A v \in f.free : r[i] < v
    /\ In(r) \cup f.free = Ending(1, f.pc)

IInv == /\ Function(text)
        /\ IF how = "runs" THEN Chain(stack) /\ Clean(stack[1], released)
           ELSE stack = <<>>
        /\ Rising(released)
        /\ how = "end" => In(released) = Of(1, "var")
        /\ Guaranteed

-----------------------------------------------------------------------------
\* The first and the last of some statements exist.
LEMMA LeastExists ==
    ASSUME NEW T, T \subseteq Nat, T # {}
    PROVE  \E x \in T : \A y \in T : x <= y
<1>1. PICK x \in T : \A y \in T : <<y, x>> \notin OpToRel(<, Nat)
  BY WFMin, NatLessThanWellFounded
<1>2. \A y \in T : ~ (y < x)
  BY <1>1 DEF OpToRel
<1>3. \A y \in T : x <= y
  BY <1>2
<1>4. QED BY <1>3

LEMMA MinIsFirst ==
    ASSUME NEW T, T \subseteq Nat, T # {}
    PROVE  Min(T) \in T /\ \A y \in T : Min(T) <= y
BY LeastExists DEF Min

LEMMA MaxIsLast ==
    ASSUME NEW m \in Nat, NEW T, T \subseteq 1..m, T # {}
    PROVE  Max(T) \in T /\ \A y \in T : y <= Max(T)
<1> DEFINE U == {m - y : y \in T}
<1>1. U \subseteq Nat /\ U # {}
  <2>1. \A y \in T : m - y \in Nat
    OBVIOUS
  <2>2. QED BY <2>1
<1>2. PICK u \in U : \A v \in U : u <= v
  BY <1>1, LeastExists
<1>3. PICK x \in T : u = m - x
  BY <1>2
<1>4. \A y \in T : x >= y
  <2> SUFFICES ASSUME NEW y \in T PROVE x >= y
    OBVIOUS
  <2>1. u <= m - y
    BY <1>2
  <2>2. QED BY <2>1, <1>3
<1>5. Max(T) \in T /\ \A y \in T : Max(T) >= y
  BY <1>4 DEF Max
<1>6. QED BY <1>5

-----------------------------------------------------------------------------
\* What a function has at its statements.
LEMMA Text ==
    ASSUME Function(text), NEW b \in Blocks
    PROVE  /\ text[b] \in Seq(Stmt)
           /\ Len(text[b]) \in Nat /\ DOMAIN text[b] = 1..Len(text[b])
           /\ \A i \in DOMAIN text[b] : text[b][i] \in Stmt
           /\ \A k : Of(b, k) \subseteq 1..Len(text[b])
BY DEF Function, Of

LEMMA OfSubset ==
    ASSUME Function(text), NEW b \in Blocks, NEW i \in Nat
    PROVE  /\ Defers(b, i) \subseteq Nat /\ Ending(b, i) \subseteq Nat
           /\ End(b) \in Nat \ {0} /\ End(b) = Len(text[b]) + 1
BY Text DEF Defers, Ending, End

\* What a step does to the fields of a frame.
LEMMA MovedFields ==
    ASSUME Function(text), NEW f \in Frame, NEW i \in Nat
    PROVE  LET g == Moved(f, i)
           IN  /\ g \in Frame /\ g.b = f.b /\ g.pc = i /\ g.via = f.via /\ g.ran = f.ran
               /\ g.free = Ending(f.b, i) /\ g.due = Defers(f.b, i)
<1> DEFINE x == Ending(f.b, i)
           y == Defers(f.b, i)
           g1 == [f EXCEPT !.pc = i]
           g2 == [g1 EXCEPT !.free = x]
           g3 == [g2 EXCEPT !.due = y]
<1>0. f.b \in Blocks
  BY DEF Frame
<1>1. x \in SUBSET Nat /\ y \in SUBSET Nat
  BY <1>0, OfSubset
<1>2. Moved(f, i) = g3
  BY DEF Moved
<1> HIDE DEF x, y
<1>3. g1 \in Frame /\ g1.b = f.b /\ g1.pc = i /\ g1.via = f.via /\ g1.ran = f.ran
  BY DEF Frame
<1> HIDE DEF g1
<1>4. g2 \in Frame /\ g2.b = g1.b /\ g2.pc = g1.pc /\ g2.via = g1.via /\ g2.ran = g1.ran /\ g2.free = x
  BY <1>1, <1>3 DEF Frame
<1> HIDE DEF g2
<1>5. /\ g3 \in Frame /\ g3.b = g2.b /\ g3.pc = g2.pc /\ g3.via = g2.via /\ g3.ran = g2.ran
      /\ g3.free = g2.free /\ g3.due = y
  BY <1>1, <1>4 DEF Frame
<1> HIDE DEF g3
<1>6. QED BY <1>2, <1>3, <1>4, <1>5 DEF x, y

LEMMA SpentFields ==
    ASSUME NEW f \in Frame, NEW d \in Nat
    PROVE  LET g == Spent(f, d)
           IN  /\ g \in Frame /\ g.b = f.b /\ g.pc = f.pc /\ g.via = f.via /\ g.free = f.free
               /\ g.due = f.due \ {d} /\ g.ran = Append(f.ran, d)
<1> DEFINE x == f.due \ {d}
           y == Append(f.ran, d)
           g1 == [f EXCEPT !.due = x]
           g2 == [g1 EXCEPT !.ran = y]
<1>1. x \in SUBSET Nat /\ y \in Seq(Nat)
  BY DEF Frame
<1>2. Spent(f, d) = g2
  <2>1. g1.ran = f.ran
    BY DEF Frame
  <2>2. QED BY <2>1 DEF Spent
<1> HIDE DEF x, y
<1>3. g1 \in Frame /\ g1.b = f.b /\ g1.pc = f.pc /\ g1.via = f.via /\ g1.free = f.free /\ g1.due = x
  BY <1>1 DEF Frame
<1> HIDE DEF g1
<1>4. /\ g2 \in Frame /\ g2.b = g1.b /\ g2.pc = g1.pc /\ g2.via = g1.via /\ g2.free = g1.free
      /\ g2.due = g1.due /\ g2.ran = y
  BY <1>1, <1>3 DEF Frame
<1> HIDE DEF g2
<1>5. QED BY <1>2, <1>3, <1>4 DEF x, y

\* A block that is entered, and a block that goes to its next statement,
\* owe what is written there.
LEMMA EnterSound ==
    ASSUME Function(text), NEW b \in Blocks, NEW w \in Ways
    PROVE  /\ Sound(Enter(b, w)) /\ Enter(b, w).b = b /\ Enter(b, w).via = w
           /\ Enter(b, w).pc = 1 /\ Enter(b, w).free = Ending(b, 1)
<1> DEFINE f == Enter(b, w)
<1>1. /\ f.b = b /\ f.via = w /\ f.pc = 1 /\ f.ran = <<>>
      /\ f.free = Ending(b, 1) /\ f.due = Defers(b, 1)
      /\ f \in Frame
  <2> DEFINE e == [b |-> b, pc |-> 1, free |-> {}, due |-> {}, via |-> w, ran |-> <<>>]
  <2>1. e \in Frame /\ e.b = b /\ e.via = w /\ e.ran = <<>>
    BY DEF Frame
  <2>2. f = Moved(e, 1)
    BY DEF Enter
  <2> HIDE DEF e, f
  <2>3. QED BY <2>1, <2>2, MovedFields
<1>2. f \in Frame
  BY <1>1
<1>3. f.pc \in 1..End(f.b)
  BY <1>1, OfSubset
<1>4. \A i \in Of(b, "ret") : 1 <= i
  BY Text
<1>5. QED BY <1>1, <1>2, <1>3, <1>4 DEF Sound, Owes, Falling, In, Defers, Ending

LEMMA MovedSound ==
    ASSUME Function(text), NEW f, Sound(f),
           f.pc \in DOMAIN text[f.b], text[f.b][f.pc].k # "ret"
    PROVE  /\ Sound(Moved(f, f.pc + 1)) /\ Moved(f, f.pc + 1).b = f.b /\ Moved(f, f.pc + 1).via = f.via
           /\ Moved(f, f.pc + 1).pc = f.pc + 1 /\ Moved(f, f.pc + 1).free = Ending(f.b, f.pc + 1)
<1> DEFINE n == f.pc + 1
           g == Moved(f, n)
<1>0. f \in Frame /\ f.b \in Blocks /\ f.pc \in Nat
  BY DEF Sound, Frame
<1>1. /\ g.b = f.b /\ g.via = f.via /\ g.pc = f.pc + 1 /\ g.ran = f.ran
      /\ g.free = Ending(f.b, f.pc + 1) /\ g.due = Defers(f.b, f.pc + 1) /\ g \in Frame
  <2>1. n \in Nat
    BY <1>0
  <2>2. n = f.pc + 1
    OBVIOUS
  <2> HIDE DEF n
  <2>3. QED BY <1>0, <2>1, <2>2, MovedFields
<1>2. g \in Frame
  BY <1>1
<1>3. f.pc \in 1..Len(text[f.b])
  BY <1>0, Text
<1>4. g.pc \in 1..End(g.b)
  BY <1>0, <1>1, <1>3, OfSubset
<1>5. f.pc \notin Of(f.b, "ret") /\ ~Owes(f)
  BY <1>0, <1>3, OfSubset DEF Of, Owes, Ends
<1>6. f.ran = <<>>
  BY <1>5 DEF Sound
<1>7. \A i \in Of(f.b, "ret") : f.pc + 1 <= i
  <2> SUFFICES ASSUME NEW i \in Of(f.b, "ret") PROVE f.pc + 1 <= i
    OBVIOUS
  <2>1. i \in Nat /\ f.pc <= i /\ i # f.pc
    BY <1>0, <1>5, Text DEF Sound
  <2>2. QED BY <2>1, <1>0
<1>8. QED BY <1>1, <1>2, <1>4, <1>6, <1>7 DEF Sound, Owes, Falling, In, Defers, Ending

\* A container is destroyed.
LEMMA FreedSound ==
    ASSUME Function(text), NEW f, Sound(f), NEW v
    PROVE  /\ Sound(Freed(f, v)) /\ Freed(f, v).b = f.b /\ Freed(f, v).via = f.via
           /\ Freed(f, v).pc = f.pc /\ Freed(f, v).free = f.free \ {v}
<1> DEFINE g == Freed(f, v)
<1>0. f \in Frame
  BY DEF Sound
<1>1. /\ g.b = f.b /\ g.via = f.via /\ g.pc = f.pc /\ g.ran = f.ran
      /\ g.free = f.free \ {v} /\ g.due = f.due /\ g \in Frame
  BY <1>0 DEF Freed, Frame
<1>2. QED BY <1>1 DEF Sound, Owes

\* The deferred block that is started was the last of those that were due.
LEMMA SpentSound ==
    ASSUME Function(text), NEW f, Sound(f), f.free = {}, f.due # {}
    PROVE  /\ Latest(f.due) \in Of(f.b, "defer")
           /\ Sound(Spent(f, Latest(f.due))) /\ Spent(f, Latest(f.due)).b = f.b
           /\ Spent(f, Latest(f.due)).via = f.via
           /\ Spent(f, Latest(f.due)).pc = f.pc /\ Spent(f, Latest(f.due)).free = f.free
<1> DEFINE d == Latest(f.due)
           g == Spent(f, d)
<1>0. f \in Frame /\ f.b \in Blocks /\ f.ran \in Seq(Nat) /\ f.due \in SUBSET Nat
  BY DEF Sound, Frame
<1>1. Owes(f) /\ In(f.ran) \cup f.due = Of(f.b, "defer")
  BY DEF Sound
<1>2. f.due \subseteq 1..Len(text[f.b]) /\ Len(text[f.b]) \in Nat
  BY <1>0, <1>1, Text
<1>3. d \in f.due /\ \A e \in f.due : e <= d
  BY <1>2, MaxIsLast DEF Latest
<1>4. d \in Nat /\ d \in Of(f.b, "defer")
  BY <1>0, <1>1, <1>3
<1> HIDE DEF d
<1>5. /\ g.b = f.b /\ g.via = f.via /\ g.pc = f.pc /\ g.ran = Append(f.ran, d)
      /\ g.free = f.free /\ g.due = f.due \ {d} /\ g \in Frame
  BY <1>0, <1>4, SpentFields
<1>6. /\ DOMAIN f.ran = 1..Len(f.ran) /\ Len(f.ran) \in Nat
      /\ DOMAIN Append(f.ran, d) = 1..Len(f.ran) + 1
      /\ \A i \in DOMAIN f.ran : Append(f.ran, d)[i] = f.ran[i] /\ f.ran[i] \in Nat
      /\ Append(f.ran, d)[Len(f.ran) + 1] = d
  BY <1>0, <1>4
<1>7. \A e \in f.due : \A i \in DOMAIN f.ran : e < f.ran[i]
  BY DEF Sound
<1>8. Falling(g.ran)
  <2> SUFFICES ASSUME NEW i \in DOMAIN g.ran, NEW j \in DOMAIN g.ran, i < j PROVE g.ran[j] < g.ran[i]
    BY DEF Falling
  <2>1. CASE j \in DOMAIN f.ran
    <3>1. i \in DOMAIN f.ran
      BY <2>1, <1>5, <1>6
    <3>2. f.ran[j] < f.ran[i]
      BY <2>1, <3>1 DEF Sound, Falling
    <3>3. QED BY <3>1, <3>2, <2>1, <1>5, <1>6
  <2>2. CASE j = Len(f.ran) + 1
    <3>1. i \in DOMAIN f.ran
      BY <2>2, <1>5, <1>6
    <3>2. QED BY <3>1, <2>2, <1>3, <1>5, <1>6, <1>7
  <2>3. QED BY <2>1, <2>2, <1>5, <1>6
<1>9. \A e \in g.due : \A i \in DOMAIN g.ran : e < g.ran[i]
  <2> SUFFICES ASSUME NEW e \in g.due, NEW i \in DOMAIN g.ran PROVE e < g.ran[i]
    OBVIOUS
  <2>1. e \in f.due /\ e # d /\ e \in Nat /\ e <= d
    BY <1>0, <1>3, <1>5
  <2>2. CASE i \in DOMAIN f.ran
    BY <2>1, <2>2, <1>5, <1>6, <1>7
  <2>3. CASE i = Len(f.ran) + 1
    BY <2>1, <2>3, <1>4, <1>5, <1>6
  <2>4. QED BY <2>2, <2>3, <1>5, <1>6
<1>10. In(g.ran) = In(f.ran) \cup {d}
  BY <1>5, <1>6 DEF In
<1>11. In(g.ran) \cup g.due = In(f.ran) \cup f.due
  BY <1>3, <1>5, <1>10
<1>12. Owes(g)
  BY <1>1, <1>5 DEF Owes
<1>13. g.pc \in 1..End(g.b) /\ \A i \in Of(g.b, "ret") : g.pc <= i
  BY <1>5 DEF Sound
<1>14. Sound(g)
  BY <1>1, <1>5, <1>8, <1>9, <1>11, <1>12, <1>13 DEF Sound
<1>15. QED BY <1>4, <1>5, <1>14 DEF d

-----------------------------------------------------------------------------
\* The first blocks of a chain, another last frame, and another block on top.
LEMMA ChainSeq ==
    ASSUME NEW s, Chain(s)
    PROVE  /\ s \in Seq(Frame) /\ Len(s) \in Nat \ {0} /\ DOMAIN s = 1..Len(s)
           /\ s[Len(s)] \in Frame /\ Sound(s[Len(s)]) /\ s[Len(s)].b \in Blocks
           /\ Len(s) \in DOMAIN s /\ 1 \in DOMAIN s
<1>1. s \in Seq(Frame) /\ Len(s) \in Nat \ {0} /\ DOMAIN s = 1..Len(s)
  BY EmptySeq, LenProperties DEF Chain
<1>2. Len(s) \in DOMAIN s /\ 1 \in DOMAIN s
  BY <1>1
<1>3. Sound(s[Len(s)])
  BY <1>2 DEF Chain
<1>4. QED BY <1>1, <1>2, <1>3 DEF Sound, Frame

LEMMA CutChain ==
    ASSUME NEW s, Chain(s), NEW n \in 2..Len(s)
    PROVE  LET t == SubSeq(s, 1, n - 1)
           IN  /\ Chain(t) /\ Len(t) = n - 1 /\ t[1] = s[1] /\ t[Len(t)] = s[n - 1]
               /\ Nests(t[Len(t)], s[n])
<1> DEFINE t == SubSeq(s, 1, n - 1)
<1>1. s \in Seq(Frame) /\ Len(s) \in Nat /\ DOMAIN s = 1..Len(s)
  BY ChainSeq
<1>2. t \in Seq(Frame) /\ Len(t) = n - 1 /\ \A i \in 1..n-1 : t[i] = s[i]
  <2>1. \A i \in 1..n-1 : s[i] \in Frame
    BY <1>1
  <2>2. 1 \in Int /\ n - 1 \in Int /\ 1 <= n - 1
    OBVIOUS
  <2>3. /\ t \in Seq(Frame) /\ Len(t) = n - 1 - 1 + 1
        /\ \A i \in 1..n-1-1+1 : t[i] = s[1 + i - 1]
    BY <2>1, <2>2, SubSeqProperties
  <2>4. QED BY <2>3
<1> HIDE DEF t
<1>3. DOMAIN t = 1..n-1 /\ t # <<>>
  BY <1>2
<1>4. \A i \in DOMAIN t : i \in DOMAIN s /\ t[i] = s[i]
  BY <1>1, <1>2, <1>3
<1>5. \A i \in DOMAIN t : Sound(t[i])
  BY <1>4 DEF Chain
<1>6. \A i \in DOMAIN t : i > 1 => Nests(t[i - 1], t[i])
  <2> SUFFICES ASSUME NEW i \in DOMAIN t, i > 1 PROVE Nests(t[i - 1], t[i])
    OBVIOUS
  <2>1. i - 1 \in DOMAIN t /\ i \in DOMAIN s
    BY <1>3, <1>4
  <2>2. QED BY <1>4, <2>1 DEF Chain
<1>7. t[1] = s[1] /\ t[1].b = 1 /\ t[1].via = "fn"
  BY <1>2 DEF Chain
<1>8. Chain(t)
  BY <1>2, <1>3, <1>5, <1>6, <1>7 DEF Chain
<1>9. t[Len(t)] = s[n - 1] /\ Nests(s[n - 1], s[n])
  <2>1. n \in DOMAIN s /\ n > 1
    BY <1>1
  <2>2. QED BY <1>2, <2>1 DEF Chain
<1>10. QED BY <1>2, <1>7, <1>8, <1>9 DEF t

LEMMA ReplaceChain ==
    ASSUME NEW s, Chain(s), NEW u, Sound(u), u.b = s[Len(s)].b, u.via = s[Len(s)].via
    PROVE  LET t == WithTop(s, u)
           IN  /\ Chain(t) /\ Len(t) = Len(s) /\ t[Len(t)] = u
               /\ t[1] = IF Len(s) = 1 THEN u ELSE s[1]
<1> DEFINE t == WithTop(s, u)
<1>1. s \in Seq(Frame) /\ Len(s) \in Nat \ {0} /\ DOMAIN s = 1..Len(s) /\ u \in Frame
  BY ChainSeq DEF Sound
<1>2. /\ t \in Seq(Frame) /\ Len(t) = Len(s) /\ DOMAIN t = 1..Len(s)
      /\ \A i \in DOMAIN s : t[i] = IF i = Len(s) THEN u ELSE s[i]
  BY <1>1 DEF WithTop
<1> HIDE DEF t
<1>3. \A i \in DOMAIN t : Sound(t[i])
  BY <1>1, <1>2 DEF Chain
<1>4. \A i \in DOMAIN t : i > 1 => Nests(t[i - 1], t[i])
  <2> SUFFICES ASSUME NEW i \in DOMAIN t, i > 1 PROVE Nests(t[i - 1], t[i])
    OBVIOUS
  <2>1. i \in DOMAIN s /\ i - 1 \in DOMAIN s /\ i - 1 # Len(s)
    BY <1>1, <1>2
  <2>2. t[i - 1] = s[i - 1] /\ t[i].b = s[i].b /\ t[i].via = s[i].via
    BY <1>2, <2>1
  <2>3. Nests(s[i - 1], s[i])
    BY <2>1 DEF Chain
  <2>4. QED BY <2>2, <2>3 DEF Nests
<1>5. t[Len(t)] = u /\ t[1] = (IF Len(s) = 1 THEN u ELSE s[1])
  BY <1>1, <1>2
<1>6. t[1].b = 1 /\ t[1].via = "fn"
  BY <1>5 DEF Chain
<1>7. t # <<>>
  BY <1>1, <1>2
<1>8. Chain(t)
  BY <1>2, <1>3, <1>4, <1>6, <1>7 DEF Chain
<1>9. QED BY <1>2, <1>5, <1>8 DEF t

LEMMA PushChain ==
    ASSUME NEW s, Chain(s), NEW u, Sound(u), Nests(s[Len(s)], u)
    PROVE  /\ Chain(Append(s, u)) /\ Append(s, u)[1] = s[1]
<1> DEFINE t == Append(s, u)
<1>1. s \in Seq(Frame) /\ Len(s) \in Nat \ {0} /\ DOMAIN s = 1..Len(s) /\ u \in Frame
  BY ChainSeq DEF Sound
<1>2. /\ t \in Seq(Frame) /\ Len(t) = Len(s) + 1 /\ DOMAIN t = 1..Len(s) + 1
      /\ \A i \in DOMAIN s : t[i] = s[i]
      /\ t[Len(s) + 1] = u
  BY <1>1
<1> HIDE DEF t
<1>3. \A i \in DOMAIN t : Sound(t[i])
  <2> SUFFICES ASSUME NEW i \in DOMAIN t PROVE Sound(t[i])
    OBVIOUS
  <2>1. i \in DOMAIN s \/ i = Len(s) + 1
    BY <1>1, <1>2
  <2>2. QED BY <1>2, <2>1 DEF Chain
<1>4. \A i \in DOMAIN t : i > 1 => Nests(t[i - 1], t[i])
  <2> SUFFICES ASSUME NEW i \in DOMAIN t, i > 1 PROVE Nests(t[i - 1], t[i])
    OBVIOUS
  <2>1. i - 1 \in DOMAIN s /\ t[i - 1] = s[i - 1]
    BY <1>1, <1>2
  <2>2. CASE i \in DOMAIN s
    BY <1>2, <2>1, <2>2 DEF Chain
  <2>3. CASE i = Len(s) + 1
    <3>1. i - 1 = Len(s)
      BY <1>1, <2>3
    <3>2. QED BY <1>2, <2>1, <2>3, <3>1
  <2>4. QED BY <1>1, <1>2, <2>2, <2>3
<1>5. t[1] = s[1] /\ t # <<>>
  BY <1>1, <1>2
<1>6. Chain(t)
  BY <1>2, <1>3, <1>4, <1>5 DEF Chain
<1>7. QED BY <1>5, <1>6 DEF t

-----------------------------------------------------------------------------
(* What holds while the function runs, of any chain of blocks.             *)
Running(s, r) == Chain(s) /\ Clean(s[1], r)

\* Control goes to the next statement of the innermost block.
LEMMA PastRunning ==
    ASSUME Function(text), NEW s, NEW r, Running(s, r),
           s[Len(s)].pc \in DOMAIN text[s[Len(s)].b],
           text[s[Len(s)].b][s[Len(s)].pc].k # "ret"
    PROVE  Running(Past(s), r)
<1> DEFINE f == s[Len(s)]
           g == Moved(f, f.pc + 1)
<1>1. Chain(s) /\ Sound(f) /\ Len(s) \in DOMAIN s /\ f.b \in Blocks /\ f.pc \in Nat
  BY ChainSeq DEF Running, Frame
<1>2. Past(s) = WithTop(s, g)
  BY DEF Past
<1>3. /\ Sound(g) /\ g.b = f.b /\ g.via = f.via /\ g.pc = f.pc + 1 /\ g.free = Ending(f.b, f.pc + 1)
  BY <1>1, MovedSound
<1> HIDE DEF g
<1>4. Chain(Past(s)) /\ Past(s)[1] = IF Len(s) = 1 THEN g ELSE s[1]
  BY <1>1, <1>2, <1>3, ReplaceChain
<1>5. CASE Len(s) = 1
  <2>1. f.b = 1 /\ Clean(f, r)
    BY <1>5 DEF Running, Chain
  <2>2. ~Ends(1, f.pc)
    <3>1. f.pc \in 1..Len(text[1])
      BY <1>1, <2>1, Text
    <3>2. QED BY <1>1, <2>1, <3>1, OfSubset DEF Ends
  <2>3. r = <<>> /\ r \in Seq(Nat)
    <3>1. In(r) = {} /\ r \in Seq(Nat)
      BY <2>1, <2>2 DEF Clean, Ending
    <3>2. DOMAIN r = 1..Len(r) /\ Len(r) \in Nat
      BY <3>1
    <3>3. DOMAIN r = {}
      BY <3>1 DEF In
    <3>3a. Len(r) = 0
      BY <3>2, <3>3
    <3>4. QED BY <3>1, <3>3a
  <2>4. Clean(g, r)
    BY <1>3, <2>1, <2>3 DEF Clean, Rising, In
  <2>5. QED BY <1>4, <1>5, <2>4 DEF Running
<1>6. CASE Len(s) # 1
  BY <1>4, <1>6 DEF Running
<1>7. QED BY <1>5, <1>6

\* Control enters a block that the innermost block has, or a deferred block.
LEMMA EnterRunning ==
    ASSUME Function(text), NEW s, NEW r, Running(s, r), NEW b \in Blocks \ {1}, NEW w \in Ways \ {"fn"},
           w = "run" \/ AtNested(s[Len(s)])
    PROVE  Running(Append(s, Enter(b, w)), r)
<1> DEFINE u == Enter(b, w)
<1>1. Sound(u) /\ u.b = b /\ u.via = w
  BY EnterSound
<1> HIDE DEF u
<1>2. Nests(s[Len(s)], u)
  BY <1>1 DEF Nests
<1>3. Chain(Append(s, u)) /\ Append(s, u)[1] = s[1]
  BY <1>1, <1>2, PushChain DEF Running
<1>4. QED BY <1>3 DEF Running, u

\* Control leaves the blocks from the nth on.
LEMMA CutRunning ==
    ASSUME NEW s, NEW r, Running(s, r), NEW n \in 2..Len(s)
    PROVE  LET t == SubSeq(s, 1, n - 1)
           IN  Running(t, r) /\ t[Len(t)] = s[n - 1] /\ (s[n].via # "run" => AtNested(t[Len(t)]))
BY CutChain DEF Running, Nests

-----------------------------------------------------------------------------
(* The inductive invariant, and the actions one by one.                    *)
LEMMA InitInv == Init => IInv
<1> SUFFICES ASSUME Init PROVE IInv
  OBVIOUS
<1> DEFINE f == Enter(1, "fn")
<1>1. Function(text) /\ stack = <<f>> /\ how = "runs" /\ released = <<>>
  BY FunctionsAssumption DEF Init
<1>2. Sound(f) /\ f.b = 1 /\ f.via = "fn" /\ f.pc = 1 /\ f.free = Ending(1, 1)
  BY <1>1, EnterSound, BlocksAssumption DEF Ways
<1> HIDE DEF f
<1>3. Chain(<<f>>)
  <2>1. f \in Frame
    BY <1>2 DEF Sound
  <2>2. <<f>> \in Seq(Frame) /\ <<f>> # <<>> /\ DOMAIN <<f>> = {1} /\ <<f>>[1] = f
    BY <2>1
  <2>3. QED BY <1>2, <2>2 DEF Chain
<1>4. Clean(f, <<>>)
  BY <1>2 DEF Clean, Rising, In
<1>5. <<f>>[1] = f
  OBVIOUS
<1>6. QED BY <1>1, <1>3, <1>4, <1>5 DEF IInv, Guaranteed, Clean

\* The function goes on.
LEMMA GoesOn ==
    ASSUME IInv, text' = text, how' = "runs", Running(stack', released')
    PROVE  IInv'
<1>1. Running(stack, released)'
  BY DEF Running, Chain, Clean, Sound, Nests, AtNested, Owes, Ends, Ending, Of, End
<1>2. Function(text)'
  BY DEF IInv, Function
<1>3. Rising(released)'
  BY <1>1 DEF Running, Clean
<1>4. QED BY <1>1, <1>2, <1>3 DEF IInv, Running, Guaranteed

\* The function ends.
LEMMA Ended ==
    ASSUME IInv, NEW f, NEW way, way # "runs", Leave(f, way),
           way = "end" => In(released) = Of(1, "var"),
           way \in {"ret", "end"} => {d \in Of(f.b, "defer") : d < f.pc} \subseteq In(f.ran) /\ Falling(f.ran)
    PROVE  IInv'
<1>1. text' = text /\ released' = released /\ stack' = <<>> /\ how' = way /\ left' = f
  BY DEF Leave
<1>2. Function(text)'
  BY <1>1 DEF IInv, Function
<1>3. Guaranteed'
  BY <1>1 DEF Guaranteed, Of, In, Falling
<1>4. (how = "end" => In(released) = Of(1, "var"))'
  BY <1>1 DEF In, Of
<1>5. Rising(released)'
  BY <1>1 DEF IInv, Rising
<1>6. QED BY <1>1, <1>2, <1>3, <1>4, <1>5 DEF IInv

\* What holds where control is.
LEMMA Here ==
    ASSUME IInv, how = "runs"
    PROVE  /\ Function(text) /\ Running(stack, released) /\ Chain(stack)
           /\ stack \in Seq(Frame) /\ Len(stack) \in Nat \ {0} /\ DOMAIN stack = 1..Len(stack)
           /\ Top = stack[Len(stack)] /\ Sound(Top) /\ Top \in Frame /\ Top.b \in Blocks
           /\ Top.pc \in 1..End(Top.b) /\ End(Top.b) = Len(text[Top.b]) + 1 /\ Len(text[Top.b]) \in Nat
           /\ DOMAIN text[Top.b] = 1..Len(text[Top.b])
<1>1. Function(text) /\ Chain(stack) /\ Running(stack, released)
  BY DEF IInv, Running
<1>2. Top \in Frame /\ Sound(Top) /\ Top.b \in Blocks
  BY <1>1, ChainSeq DEF Top
<1>3. QED BY <1>1, <1>2, ChainSeq, Text DEF Top, Sound, End

\* Control is at a statement.
LEMMA AtStatement ==
    ASSUME IInv, NEW k, At(k)
    PROVE  /\ how = "runs" /\ Top.free = {} /\ Top.due = {}
           /\ Top.pc \in DOMAIN text[Top.b] /\ Cur = text[Top.b][Top.pc]
           /\ Cur \in Stmt /\ Cur.k \in k
           /\ Cur.to # 1 /\ Cur.alt # 1
           /\ Cur.k \in Nested => Cur.to \in Blocks
           /\ Cur.k # "try" => Cur.alt # ArmRet
<1>1. how = "runs" /\ Top.free = {} /\ Top.due = {} /\ ~AtEnd /\ Cur.k \in k
  BY DEF At, Ready
<1>2. Top.pc \in DOMAIN text[Top.b] /\ Cur = text[Top.b][Top.pc]
  BY <1>1, Here DEF AtEnd, Cur
<1>3. QED BY <1>1, <1>2, Here, Text DEF Function

LEMMA DestroyInv == ASSUME IInv, Destroy PROVE IInv'
<1>1. how = "runs" /\ Top.free # {}
  BY DEF Destroy
<1>2. Ends(Top.b, Top.pc) /\ Top.free \in SUBSET Nat
  BY <1>1, Here DEF Sound, Frame
<1>3. Len(stack) = 1
  <2>1. Top.b = 1
    BY <1>2 DEF Ends
  <2>2. ASSUME Len(stack) > 1 PROVE FALSE
    <3>1. Nests(stack[Len(stack) - 1], stack[Len(stack)])
      BY <1>1, <2>2, Here DEF Chain
    <3>2. QED BY <1>1, <2>1, <3>1, Here DEF Nests
  <2>3. QED BY <1>1, <2>2, Here
<1> DEFINE v == Min(Top.free)
           g == Freed(Top, v)
<1>4. v \in Top.free /\ v \in Nat /\ \A w \in Top.free : v <= w
  BY <1>1, <1>2, MinIsFirst
<1>5. /\ stack' = WithTop(stack, g) /\ released' = Append(released, v)
      /\ text' = text /\ how' = "runs"
  BY <1>1 DEF Destroy
<1>6. /\ Sound(g) /\ g.b = Top.b /\ g.via = Top.via /\ g.pc = Top.pc /\ g.free = Top.free \ {v}
  BY <1>1, Here, FreedSound
<1> HIDE DEF v, g
<1>7. Chain(stack') /\ stack'[1] = g
  <2>1. Top = stack[Len(stack)] /\ Chain(stack)
    BY <1>1, Here
  <2>2. Chain(WithTop(stack, g)) /\ WithTop(stack, g)[1] = g
    BY <1>3, <1>6, <2>1, ReplaceChain
  <2>3. QED BY <1>5, <2>2
<1>8. Clean(Top, released)
  BY <1>1, <1>3, Here DEF Running
<1>9. Clean(g, Append(released, v))
  <2>1. /\ released \in Seq(Nat) /\ Rising(released) /\ \A i \in DOMAIN released : released[i] < v
        /\ In(released) \cup Top.free = Ending(1, Top.pc)
    BY <1>4, <1>8 DEF Clean
  <2> DEFINE r == Append(released, v)
  <2>2. /\ r \in Seq(Nat) /\ Len(released) \in Nat /\ DOMAIN released = 1..Len(released)
        /\ DOMAIN r = 1..Len(released) + 1 /\ r[Len(released) + 1] = v
        /\ \A i \in DOMAIN released : r[i] = released[i] /\ r[i] \in Nat
    BY <1>4, <2>1
  <2> HIDE DEF r
  <2>3. Rising(r)
    <3> SUFFICES ASSUME NEW i \in DOMAIN r, NEW j \in DOMAIN r, i < j PROVE r[i] < r[j]
      BY DEF Rising
    <3>1. i \in DOMAIN released
      BY <2>2
    <3>2. CASE j \in DOMAIN released
      BY <3>1, <3>2, <2>1, <2>2 DEF Rising
    <3>3. CASE j = Len(released) + 1
      BY <3>1, <3>3, <2>1, <2>2
    <3>4. QED BY <2>2, <3>2, <3>3
  <2>4. \A i \in DOMAIN r : \A w \in g.free : r[i] < w
    <3> SUFFICES ASSUME NEW i \in DOMAIN r, NEW w \in g.free PROVE r[i] < w
      OBVIOUS
    <3>1. w \in Top.free /\ w # v /\ v <= w /\ w \in Nat
      BY <1>2, <1>4, <1>6
    <3>2. CASE i \in DOMAIN released
      BY <3>1, <3>2, <2>2, <1>8 DEF Clean
    <3>3. CASE i = Len(released) + 1
      BY <3>1, <3>3, <2>2, <1>4
    <3>4. QED BY <2>2, <3>2, <3>3
  <2>5. In(r) = In(released) \cup {v}
    BY <2>2 DEF In
  <2>6. In(r) \cup g.free = Ending(1, g.pc)
    BY <2>1, <2>5, <1>4, <1>6
  <2>7. QED BY <2>2, <2>3, <2>4, <2>6 DEF Clean, r
<1>10. QED BY <1>5, <1>7, <1>9, GoesOn DEF Running

LEMMA RunInv == ASSUME IInv, Run PROVE IInv'
<1>1. how = "runs" /\ Top.free = {} /\ Top.due # {}
  BY DEF Run
<1> DEFINE d == Latest(Top.due)
           g == Spent(Top, d)
           t == WithTop(stack, g)
           b == text[Top.b][d].to
<1>2. /\ stack' = Append(t, Enter(b, "run"))
      /\ released' = released /\ text' = text /\ how' = "runs"
  BY <1>1 DEF Run
<1>3. /\ d \in Of(Top.b, "defer") /\ Sound(g) /\ g.b = Top.b /\ g.via = Top.via /\ g.pc = Top.pc /\ g.free = Top.free
  BY <1>1, Here, SpentSound
<1>4. b \in Blocks \ {1}
  BY <1>1, <1>3, Here DEF Of, Function
<1> HIDE DEF d, g, b
<1>5. Chain(t) /\ t[1] = IF Len(stack) = 1 THEN g ELSE stack[1]
  <2>1. Top = stack[Len(stack)] /\ Chain(stack)
    BY <1>1, Here
  <2>2. QED BY <1>3, <2>1, ReplaceChain
<1> HIDE DEF t
<1>6. Clean(t[1], released)
  BY <1>1, <1>3, <1>5, Here DEF Running, Clean
<1>7. Running(Append(t, Enter(b, "run")), released)
  BY <1>1, <1>4, <1>5, <1>6, Here, EnterRunning DEF Running, Ways
<1>8. QED BY <1>2, <1>7, GoesOn

\* A statement that is passed.
LEMMA PastInv ==
    ASSUME IInv, NEW k, At(k), "ret" \notin k, stack' = Past(stack), UNCHANGED <<text, how, released>>
    PROVE  IInv'
<1>1. Running(Past(stack), released)
  BY AtStatement, Here, PastRunning
<1>2. QED BY <1>1, AtStatement, GoesOn

\* A block that is entered.
LEMMA EnterInv ==
    ASSUME IInv, NEW k, At(k), k \subseteq Nested, NEW b \in Blocks \ {1}, NEW w \in Ways \ {"fn"},
           stack' = Append(stack, Enter(b, w)), UNCHANGED <<text, how, released>>
    PROVE  IInv'
<1>1. AtNested(stack[Len(stack)])
  BY AtStatement, Here DEF AtNested
<1>2. Running(Append(stack, Enter(b, w)), released)
  BY <1>1, AtStatement, Here, EnterRunning
<1>3. QED BY <1>2, AtStatement, GoesOn

LEMMA ActInv == ASSUME IInv, Act PROVE IInv'
BY PastInv DEF Act

LEMMA BranchInv == ASSUME IInv, Branch PROVE IInv'
<1> DEFINE k == {"if", "block", "match"}
<1>1. At(k) /\ UNCHANGED <<text, how, released>> /\ k \subseteq Nested /\ "ret" \notin k
  BY DEF Branch, Nested
<1>2. Cur.k \in Nested /\ Cur.k \in Ways \ {"fn"} /\ Cur.k # "try" /\ Cur.to \in Blocks \ {1}
  BY <1>1, AtStatement DEF Ways, Nested
<1> HIDE DEF k
<1>3. CASE stack' = Append(stack, Enter(Cur.to, Cur.k))
  BY <1>1, <1>2, <1>3, EnterInv
<1>4. CASE Cur.alt # Nowhere /\ stack' = Append(stack, Enter(Cur.alt, Cur.k))
  <2>1. Cur.alt \in Blocks \ {1}
    BY <1>1, <1>2, <1>4, AtStatement DEF Stmt
  <2>2. QED BY <1>1, <1>2, <1>4, <2>1, EnterInv
<1>5. CASE stack' = Past(stack)
  BY <1>1, <1>5, PastInv
<1>6. QED BY <1>3, <1>4, <1>5 DEF Branch

LEMMA LoopInv == ASSUME IInv, Loop PROVE IInv'
<1>1. At({"loop"}) /\ UNCHANGED <<text, how, released>> /\ {"loop"} \subseteq Nested
  BY DEF Loop, Nested
<1>2. Cur.to \in Blocks \ {1} /\ "loop" \in Ways \ {"fn"}
  BY <1>1, AtStatement DEF Ways, Nested
<1>3. CASE stack' = Append(stack, Enter(Cur.to, "loop"))
  BY <1>1, <1>2, <1>3, EnterInv
<1>4. CASE stack' = Past(stack)
  BY <1>1, <1>4, PastInv
<1>5. QED BY <1>3, <1>4 DEF Loop

LEMMA TryInv == ASSUME IInv, Try PROVE IInv'
<1>1. /\ At({"try"}) /\ UNCHANGED <<text, how, released>> /\ {"try"} \subseteq Nested
      /\ stack' = Append(stack, Enter(Cur.to, "try"))
  BY DEF Try, Nested
<1>2. Cur.to \in Blocks \ {1} /\ "try" \in Ways \ {"fn"}
  BY <1>1, AtStatement DEF Ways, Nested
<1>3. QED BY <1>1, <1>2, EnterInv

LEMMA RetInv == ASSUME IInv, Ret PROVE IInv'
<1>1. At({"ret"}) /\ Leave(Top, "ret")
  BY DEF Ret
<1>2. Top.pc \in Of(Top.b, "ret") /\ Top.due = {} /\ Sound(Top)
  BY <1>1, AtStatement, Here DEF Of
<1>3. In(Top.ran) = Of(Top.b, "defer") /\ Falling(Top.ran)
  BY <1>2 DEF Sound, Owes
<1>4. QED BY <1>1, <1>3, Ended

\* The blocks from the nth on, one of a statement, are left.
LEMMA BackInv ==
    ASSUME IInv, how = "runs", NEW n \in 1..Len(stack), stack[n].via \notin {"fn", "run"}
    PROVE  /\ n \in 2..Len(stack) /\ AtNested(stack[n - 1]) /\ stack[n - 1] \in Frame
           /\ Running(Below(n), released) /\ Below(n)[Len(Below(n))] = stack[n - 1]
           /\ Running(Past(Below(n)), released)
<1>1. n \in 2..Len(stack)
  BY Here DEF Running, Chain
<1>2. Running(Below(n), released) /\ Below(n)[Len(Below(n))] = stack[n - 1] /\ AtNested(stack[n - 1])
  <2> DEFINE t == SubSeq(stack, 1, n - 1)
  <2>1. Running(t, released) /\ t[Len(t)] = stack[n - 1] /\ AtNested(t[Len(t)])
    BY <1>1, Here, CutRunning
  <2>2. QED BY <2>1 DEF Below
<1>3. Running(Past(Below(n)), released)
  BY <1>2, Here, PastRunning DEF AtNested, Nested
<1>4. n - 1 \in 1..Len(stack)
  BY <1>1, Here
<1>5. QED BY <1>1, <1>2, <1>3, <1>4, Here

LEMMA BreakInv == ASSUME IInv, Break PROVE IInv'
<1>1. At({"break"}) /\ UNCHANGED <<text, how, released>>
  BY DEF Break
<1>2. PICK n \in 1..Len(stack) : stack[n].via \in {"loop", "match"} /\ stack' = Past(Below(n))
  BY DEF Break, Innermost
<1>3. Running(Past(Below(n)), released)
  BY <1>1, <1>2, AtStatement, BackInv
<1>4. QED BY <1>1, <1>2, <1>3, AtStatement, GoesOn

LEMMA ThrowInv == ASSUME IInv, Throw PROVE IInv'
<1>1. At({"throw"}) /\ how = "runs"
  BY AtStatement DEF Throw
<1>2. ASSUME NEW n \in 1..Len(stack), Innermost(n, Arms), Caught(n) PROVE IInv'
  <2> DEFINE f == stack[n - 1]
             arm == text[f.b][f.pc].alt
  <2>1. /\ AtNested(f) /\ f \in Frame /\ Running(Below(n), released) /\ Below(n)[Len(Below(n))] = f
        /\ Running(Past(Below(n)), released)
    BY <1>1, <1>2, BackInv DEF Innermost, Arms
  <2>2. CASE stack' = Past(Below(n)) /\ UNCHANGED <<text, how, left, released>>
    BY <1>1, <2>1, <2>2, GoesOn
  <2>3. CASE arm \in Blocks /\ stack' = Append(Below(n), Enter(arm, "arm")) /\ UNCHANGED <<text, how, left, released>>
    <3>1. arm # 1
      BY <2>1, <1>1, Here DEF AtNested, Function, Frame
    <3>2. Running(Append(Below(n), Enter(arm, "arm")), released)
      BY <2>1, <2>3, <3>1, <1>1, Here, EnterRunning DEF Ways
    <3>3. QED BY <1>1, <2>3, <3>2, GoesOn
  <2>4. CASE Leave(f, "arm ret")
    BY <2>4, Ended
  <2>5. QED BY <1>2, <2>2, <2>3, <2>4 DEF Caught
<1>3. CASE Leave(Top, "throw")
  BY <1>3, Ended
<1>4. QED BY <1>2, <1>3 DEF Throw

LEMMA EndBlockInv == ASSUME IInv, EndBlock PROVE IInv'
<1>1. how = "runs" /\ Top.free = {} /\ Top.due = {} /\ Top.pc = End(Top.b)
  BY DEF EndBlock, Ready, AtEnd
<1>2. CASE Len(stack) = 1 /\ Leave(Top, "end")
  <2>1. Top.b = 1 /\ Sound(Top) /\ Clean(Top, released)
    BY <1>1, <1>2, Here DEF Running, Chain
  <2>2. Of(1, "ret") = {}
    <3> SUFFICES ASSUME NEW i \in Of(1, "ret") PROVE FALSE
      OBVIOUS
    <3>1. i \in 1..Len(text[1]) /\ End(1) <= i
      BY <1>1, <2>1, Here, Text DEF Sound
    <3>2. QED BY <1>1, <2>1, <3>1, Here
  <2>3. Ends(Top.b, Top.pc)
    BY <1>1, <2>1, <2>2 DEF Ends
  <2>4. In(Top.ran) = Of(Top.b, "defer") /\ Falling(Top.ran)
    BY <1>1, <2>1, <2>3 DEF Sound, Owes
  <2>5. In(released) = Of(1, "var")
    BY <1>1, <2>1, <2>3 DEF Clean, Ending
  <2>6. QED BY <1>2, <2>4, <2>5, Ended
<1>3. CASE /\ Len(stack) # 1
           /\ stack' = IF Top.via \in {"loop", "run"} THEN Below(Len(stack)) ELSE Past(Below(Len(stack)))
           /\ UNCHANGED <<text, how, left, released>>
  <2> DEFINE n == Len(stack)
  <2>1. n \in 2..Len(stack) /\ n \in DOMAIN stack /\ n > 1 /\ Top = stack[n]
    BY <1>1, <1>3, Here
  <2>2. Running(Below(n), released)
    BY <1>1, <2>1, Here, CutRunning DEF Below
  <2>3. Top.via # "fn"
    BY <1>1, <2>1, Here DEF Chain, Nests
  <2>4. Top.via \notin {"loop", "run"} => Running(Past(Below(n)), released)
    BY <1>1, <2>1, <2>3, BackInv
  <2>5. Running(stack', released')
    BY <1>3, <2>2, <2>4
  <2>6. QED BY <1>1, <1>3, <2>5, GoesOn
<1>4. QED BY <1>2, <1>3 DEF EndBlock

LEMMA StepInv == IInv /\ [Next]_vars => IInv'
<1> SUFFICES ASSUME IInv, [Next]_vars PROVE IInv'
  OBVIOUS
<1>1. CASE UNCHANGED vars
  <2>1. UNCHANGED <<text, stack, how, left, released, late>>
    BY <1>1 DEF vars
  <2>2. CASE how = "runs"
    <3>1. Running(stack', released')
      BY <2>1, <2>2, Here
    <3>2. QED BY <2>1, <2>2, <3>1, GoesOn
  <2>3. CASE how # "runs"
    <3>1. Function(text)'
      BY <2>1 DEF IInv, Function
    <3>2. Guaranteed'
      BY <2>1 DEF IInv, Guaranteed, Of, In, Falling
    <3>3. Rising(released)' /\ (how = "end" => In(released) = Of(1, "var"))'
      BY <2>1 DEF IInv, Rising, In, Of
    <3>4. QED BY <2>1, <2>3, <3>1, <3>2, <3>3 DEF IInv
  <2>4. QED BY <2>2, <2>3
<1>2. CASE Next
  BY <1>2, DestroyInv, RunInv, ActInv, BranchInv, LoopInv, TryInv, RetInv, BreakInv, ThrowInv, EndBlockInv DEF Next
<1>3. QED BY <1>1, <1>2

\* IInv holds in every state of every run.
THEOREM BlocksCorrect == Spec => []IInv
<1>1. QED BY InitInv, StepInv, PTL DEF Spec

-----------------------------------------------------------------------------
\* A call that ends at a `ret` or at its last `}` has run every defer it
\* passed in that block once, the last first: what emit_defers writes before
\* each return and emit_stmt_vec_with_defers before the last `}`.
THEOREM CleanupGuaranteed == Spec => []Guaranteed
<1>1. IInv => Guaranteed
  BY DEF IInv
<1>2. QED BY <1>1, BlocksCorrect, PTL

\* A block of which a nested one runs owes nothing, and so none has been
\* cleaned up around a statement before which nothing is written.
LEMMA NestedOwesNothing ==
    ASSUME Function(text), NEW f, Sound(f), AtNested(f)
    PROVE  ~Owes(f)
<1>1. f.b \in Blocks
  BY DEF Sound, Frame
<1>2. f.pc \in 1..Len(text[f.b]) /\ Len(text[f.b]) \in Nat
  BY <1>1, Text DEF AtNested
<1>3. ~Ends(f.b, f.pc)
  BY <1>2 DEF Ends, End
<1>4. f.pc \notin Of(f.b, "ret")
  BY DEF AtNested, Of, Nested
<1>5. QED BY <1>3, <1>4 DEF Owes

LEMMA NotCleaned ==
    ASSUME Function(text), NEW s, Chain(s), ~Owes(s[Len(s)])
    PROVE  ~Cleaned(s)
<1> SUFFICES ASSUME NEW n \in DOMAIN s, s[n].ran # <<>>,
                    \A m \in n + 1..Len(s) : s[m].via # "run"
             PROVE  FALSE
  BY DEF Cleaned
<1>1. Sound(s[n]) /\ Owes(s[n]) /\ n \in 1..Len(s) /\ Len(s) \in Nat /\ DOMAIN s = 1..Len(s)
  BY ChainSeq DEF Chain, Sound
<1>2. n + 1 \in n + 1..Len(s) /\ n + 1 \in DOMAIN s /\ n + 1 > 1 /\ (n + 1) - 1 = n
  BY <1>1
<1>3. AtNested(s[n])
  BY <1>2 DEF Chain, Nests
<1>4. QED BY <1>1, <1>3, NestedOwesNothing

\* An expression evaluated after a deferred block is that of a `ret`.
LateOnes == \A u \in late : text[u[1]][u[2]].k = "ret"

LEMMA OnTime ==
    ASSUME IInv, NEW k, At(k), "ret" \notin k
    PROVE  ~Cleaned(stack)
<1>1. /\ how = "runs" /\ Top.pc \in DOMAIN text[Top.b] /\ text[Top.b][Top.pc].k # "ret"
  BY AtStatement
<1>2. ~Ends(Top.b, Top.pc)
  BY <1>1, Here DEF Ends
<1>3. ~Owes(Top)
  BY <1>1, <1>2 DEF Owes, Of
<1>4. QED BY <1>1, <1>3, Here, NotCleaned

LEMMA NothingLate ==
    ASSUME IInv, LateOnes, UNCHANGED text, NEW ss, Evaluate(ss), \A s \in ss : ~Cleaned(s)
    PROVE  LateOnes'
<1>1. late' = late
  BY DEF Evaluate
<1>2. QED BY <1>1 DEF LateOnes

LEMMA LateStep == IInv /\ LateOnes /\ [Next]_vars => LateOnes'
<1> SUFFICES ASSUME IInv, LateOnes, [Next]_vars PROVE LateOnes'
  OBVIOUS
<1>1. ASSUME UNCHANGED <<text, late>> PROVE LateOnes'
  BY <1>1 DEF LateOnes
<1>2. ASSUME NEW k, At(k), "ret" \notin k, UNCHANGED text, Evaluate(Value) PROVE LateOnes'
  <2>1. \A s \in Value : ~Cleaned(s)
    BY <1>2, OnTime DEF Value
  <2> HIDE DEF Value
  <2>2. QED BY <1>2, <2>1, NothingLate
<1>3. CASE Act
  BY <1>2, <1>3 DEF Act
<1>4. CASE Branch
  BY <1>2, <1>4 DEF Branch
<1>5. CASE Loop
  BY <1>2, <1>5 DEF Loop
<1>6. CASE Ret
  <2>1. At({"ret"}) /\ UNCHANGED text /\ Evaluate(Value)
    BY <1>6 DEF Ret, Leave
  <2>2. text[Top.b][Top.pc].k = "ret" /\ Top = stack[Len(stack)]
    BY <2>1, AtStatement DEF Top
  <2>3. \A s \in Value : s = stack
    BY DEF Value
  <2> HIDE DEF Value
  <2>4. \A u \in late' : u \in late \/ u = <<Top.b, Top.pc>>
    BY <2>1, <2>2, <2>3 DEF Evaluate
  <2>5. \A u \in late' : text[u[1]][u[2]].k = "ret"
    BY <2>2, <2>4 DEF LateOnes
  <2>6. QED BY <2>1, <2>5 DEF LateOnes
<1>7. CASE Throw
  <2>1. At({"throw"}) /\ how = "runs"
    BY <1>7, AtStatement DEF Throw
  <2>2. ASSUME NEW n \in 1..Len(stack), Innermost(n, Arms), Caught(n) PROVE LateOnes'
    <3>1. UNCHANGED text
      BY <2>2 DEF Caught, Leave
    <3>2. CASE Evaluate(Value)
      BY <1>2, <2>1, <3>1, <3>2
    <3>3. CASE Evaluate(Value \cup {Below(n)})
      <4>1. /\ Running(Below(n), released) /\ Below(n)[Len(Below(n))] = stack[n - 1]
            /\ AtNested(stack[n - 1])
        BY <2>1, <2>2, BackInv DEF Innermost, Arms
      <4>2. Sound(stack[n - 1]) /\ Chain(Below(n))
        BY <4>1, ChainSeq DEF Running
      <4>3. ~Owes(stack[n - 1])
        BY <2>1, <4>1, <4>2, Here, NestedOwesNothing
      <4>4. ~Cleaned(Below(n))
        BY <2>1, <4>1, <4>2, <4>3, Here, NotCleaned
      <4>5. ~Cleaned(stack)
        BY <2>1, OnTime
      <4>6. \A s \in Value : s = stack
        BY DEF Value
      <4> HIDE DEF Value
      <4>7. \A s \in Value \cup {Below(n)} : ~Cleaned(s)
        BY <4>4, <4>5, <4>6
      <4>8. QED BY <3>1, <3>3, <4>7, NothingLate
    <3>4. QED BY <2>2, <3>2, <3>3 DEF Caught
  <2>3. CASE Leave(Top, "throw") /\ Evaluate(Value)
    BY <1>2, <2>1, <2>3 DEF Leave
  <2>4. QED BY <1>7, <2>2, <2>3 DEF Throw
<1>8. CASE Destroy \/ Run \/ Try \/ Break \/ EndBlock
  BY <1>1, <1>8 DEF Destroy, Run, Try, Break, EndBlock, Leave
<1>9. CASE UNCHANGED vars
  BY <1>1, <1>9 DEF vars
<1>10. QED BY <1>3, <1>4, <1>5, <1>6, <1>7, <1>8, <1>9 DEF Next

\* Once a deferred block has run, nothing of its block runs but the others
\* and the return, whose value emitter.c:1216 has evaluated after them; no
\* other expression is, that of an arm `=> ret e` included.
THEOREM NothingAfterCleanup == Spec => []CleanupIsLast
<1>1. IInv /\ LateOnes => CleanupIsLast
  <2> SUFFICES ASSUME IInv, NEW n \in DOMAIN stack, stack[n].ran # <<>>
               PROVE  IF n < Len(stack) THEN stack[n + 1].via = "run"
                      ELSE Top.free = {} /\ (Top.due # {} \/ AtEnd \/ Cur.k = "ret")
    BY DEF CleanupIsLast, LateOnes
  <2>0. how = "runs"
    BY DEF IInv
  <2>1. Sound(stack[n]) /\ Owes(stack[n]) /\ n \in 1..Len(stack) /\ stack[n].free = {}
    BY <2>0, Here DEF Chain, Sound
  <2>2. CASE n < Len(stack)
    <3>1. n + 1 \in DOMAIN stack /\ n + 1 > 1 /\ (n + 1) - 1 = n
      BY <2>0, <2>1, <2>2, Here
    <3>2. stack[n + 1].via # "run" => AtNested(stack[n])
      BY <2>0, <3>1, Here DEF Chain, Nests
    <3>3. QED BY <2>0, <2>1, <2>2, <3>2, Here, NestedOwesNothing
  <2>3. CASE n = Len(stack)
    <3>1. Top = stack[n] /\ Owes(Top) /\ Top.free = {}
      BY <2>0, <2>1, <2>3, Here
    <3>2. AtEnd \/ Cur.k = "ret"
      BY <3>1 DEF Owes, Ends, AtEnd, Cur, Of
    <3>3. QED BY <2>3, <3>1, <3>2
  <2>4. QED BY <2>0, <2>1, <2>2, <2>3, Here
<1>2. Init => LateOnes
  BY DEF Init, LateOnes
<1>3. QED BY <1>1, <1>2, LateStep, BlocksCorrect, PTL DEF Spec

\* The queues and stacks of the body are destroyed at most once, in the order
\* of the text, and all of them at the last `}`; after the first only deferred
\* blocks and a `return` run.
THEOREM ContainersReleasedOnce == Spec => []ReleasedOnce
<1>1. IInv => ReleasedOnce
  <2> SUFFICES ASSUME IInv PROVE ReleasedOnce
    OBVIOUS
  <2>1. ASSUME released # <<>>, stack # <<>> PROVE stack[1].pc = End(1)
    <3>1. how = "runs" /\ Clean(stack[1], released)
      BY <2>1 DEF IInv
    <3>2. released \in Seq(Nat) /\ In(released) \subseteq Ending(1, stack[1].pc)
      BY <3>1 DEF Clean
    <3>3. 1 \in DOMAIN released
      BY <2>1, <3>2
    <3>4. Ending(1, stack[1].pc) # {}
      BY <3>2, <3>3 DEF In
    <3>5. QED BY <3>4 DEF Ending, Ends
  <2>2. QED BY <2>1 DEF IInv, ReleasedOnce
<1>2. QED BY <1>1, BlocksCorrect, PTL
=============================================================================

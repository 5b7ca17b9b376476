--------------------------- MODULE EmissionProofs ---------------------------
(***************************************************************************)
(* Theorems of Emission, for every set of well-formed programs.            *)
(*                                                                         *)
(* Arguments and storage (WellWritten) are properties of a single piece:   *)
(* each loop over the declarations writes well-formed pieces only.  That   *)
(* names are declared before their use (InOrder) is a property of the      *)
(* order: for each loop, what the earlier ones left declared (Kept) meets  *)
(* what its pieces need, and what it leaves declared is known to the       *)
(* later ones.  The local recursive functions of Emission are named here,  *)
(* and shown to exist by induction up to their bound.                      *)
(***************************************************************************)
EXTENDS Emission, FiniteSetTheorems, SequenceTheorems, WellFoundedInduction, TLAPS
-----------------------------------------------------------------------------
(* Recursion over 0..n.                                                    *)
LEMMA Least ==
  ASSUME NEW S, S \subseteq Nat, S # {} PROVE \E x \in S : \A y \in S : x <= y
<1>1. PICK x \in S : \A y \in S : <<y, x>> \notin OpToRel(<, Nat)
  BY WFMin, NatLessThanWellFounded
<1>2. \A y \in S : ~ (y < x)  BY <1>1 DEF OpToRel
<1> QED  BY <1>2

\* Induction from 0 to n.
LEMMA UpTo ==
  ASSUME NEW n \in Nat, NEW A, 0 \in A, \A i \in 1..n : i - 1 \in A => i \in A
  PROVE  0..n \subseteq A
<1> SUFFICES ASSUME (0..n) \ A # {} PROVE FALSE  OBVIOUS
<1>0. (0..n) \ A \subseteq Nat  OBVIOUS
<1>1. PICK x \in (0..n) \ A : \A y \in (0..n) \ A : x <= y  BY <1>0, Least
<1>2. x # 0 /\ x \in 1..n /\ x - 1 \in 0..n /\ ~(x <= x - 1)  OBVIOUS
<1>3. x - 1 \in A  BY <1>1, <1>2
<1> QED  BY <1>2, <1>3

\* Induction over the naturals.
LEMMA AllOf ==
  ASSUME NEW A, 0 \in A, \A i \in Nat : i \in A => i + 1 \in A
  PROVE  Nat \subseteq A
<1> SUFFICES ASSUME NEW n \in Nat PROVE n \in A  OBVIOUS
<1>1. \A i \in 1..n : i - 1 \in A => i \in A
  <2> SUFFICES ASSUME NEW i \in 1..n, i - 1 \in A PROVE i \in A  OBVIOUS
  <2>1. i - 1 \in Nat /\ (i - 1) + 1 = i  OBVIOUS
  <2> QED  BY <2>1
<1>2. 0..n \subseteq A  BY <1>1, UpTo
<1>3. n \in 0..n  OBVIOUS
<1> QED  BY <1>2, <1>3

Iterates(S, n, w, F, f) == f \in [0..n -> S] /\ f[0] = w /\ \A i \in 1..n : f[i] = F[i][f[i - 1]]
Steps(S, n, F) == \A i \in 1..n : \A x \in S : F[i][x] \in S

\* A recursive function over 0..n that stays in S exists.
LEMMA Iterated ==
  ASSUME NEW S, NEW n \in Nat, NEW w \in S, NEW F, Steps(S, n, F)
  PROVE  \E f : Iterates(S, n, w, F, f)
<1> DEFINE A == {m \in 0..n : \E f : Iterates(S, m, w, F, f)}
<1>1. 0 \in A
  <2> DEFINE f == [i \in 0..0 |-> w]
  <2>1. f \in [0..0 -> S] /\ f[0] = w /\ \A i \in 1..0 : FALSE  OBVIOUS
  <2> HIDE DEF f
  <2>2. Iterates(S, 0, w, F, f)  BY <2>1 DEF Iterates
  <2> QED  BY <2>2
<1>2. ASSUME NEW m \in 1..n, m - 1 \in A PROVE m \in A
  <2>1. PICK f : Iterates(S, m - 1, w, F, f)  BY <1>2
  <2>2. m - 1 \in 0..(m - 1)  OBVIOUS
  <2>3. f[m - 1] \in S  BY <2>1, <2>2 DEF Iterates
  <2>4. F[m][f[m - 1]] \in S  BY <2>3 DEF Steps
  <2> DEFINE g == [i \in 0..m |-> IF i = m THEN F[m][f[m - 1]] ELSE f[i]]
  <2>5. g \in [0..m -> S]
    <3>1. \A i \in 0..m : i # m => i \in 0..(m - 1)  OBVIOUS
    <3>2. \A i \in 0..(m - 1) : f[i] \in S  BY <2>1 DEF Iterates
    <3> QED  BY <2>4, <3>1, <3>2
  <2>6. g[0] = w /\ 0 \in 0..m /\ 0 # m  BY <2>1 DEF Iterates
  <2>7. ASSUME NEW i \in 1..m PROVE g[i] = F[i][g[i - 1]]
    <3>1. i \in 0..m /\ i - 1 \in 0..m /\ i - 1 # m /\ (i = m \/ i \in 1..(m - 1))  OBVIOUS
    <3>2. g[i - 1] = f[i - 1]  BY <3>1
    <3>3. i \in 1..(m - 1) => f[i] = F[i][f[i - 1]]  BY <2>1 DEF Iterates
    <3>4. i # m => g[i] = f[i]  BY <3>1
    <3>5. i = m => g[i] = F[m][f[m - 1]]  BY <3>1
    <3> HIDE DEF g
    <3> QED  BY <3>1, <3>2, <3>3, <3>4, <3>5
  <2> HIDE DEF g
  <2>8. Iterates(S, m, w, F, g)  BY <2>5, <2>6, <2>7 DEF Iterates
  <2> QED  BY <2>8
<1>3. n \in 0..n  OBVIOUS
<1> HIDE DEF A
<1>4. 0..n \subseteq A  BY <1>1, <1>2, UpTo
<1> QED  BY <1>3, <1>4 DEF A

-----------------------------------------------------------------------------
(* Sequences of sequences, put together in their order.                    *)
IsSeq(s) == s \in Seq(Range(s))

\* A sequence of anything is a sequence of its own items.
LEMMA IsSeqIs ==
  ASSUME NEW s PROVE IsSeq(s) <=> \E S : s \in Seq(S)
<1>1. IsSeq(s) => \E S : s \in Seq(S)  BY DEF IsSeq
<1>2. ASSUME NEW S, s \in Seq(S) PROVE IsSeq(s)
  <2>1. \A i \in 1..Len(s) : s[i] \in Range(s)  BY <1>2 DEF Range
  <2>2. Len(s) \in Nat /\ s = [i \in 1..Len(s) |-> s[i]]  BY <1>2
  <2> QED  BY <2>1, <2>2 DEF IsSeq
<1> QED  BY <1>1, <1>2

Flattening(s) == CHOOSE f : f = [i \in 1..Len(s) |-> IF i = 1 THEN s[i] ELSE f[i - 1] \o s[i]]
FlatUpto(g, k) == FlattenSeq([i \in 1..k |-> g[i]])

\* FlattenSeq, with its local function named.
LEMMA FlattenIs ==
  ASSUME NEW s PROVE FlattenSeq(s) = IF Len(s) = 0 THEN s ELSE Flattening(s)[Len(s)]
  BY DEF FlattenSeq, Flattening

\* Two sequences, one behind the other.
LEMMA Joined ==
  ASSUME NEW S, NEW q \in Seq(S), NEW r \in Seq(S)
  PROVE  /\ q \o r \in Seq(S) /\ Len(q \o r) = Len(q) + Len(r) /\ <<>> \o q = q
         /\ \A i \in 1..Len(q) : (q \o r)[i] = q[i]
         /\ \A i \in 1..Len(r) : (q \o r)[Len(q) + i] = r[i]
  OBVIOUS

(* A name for \o that the provers do not look into.                        *)
Cat(q, r) == q \o r
CatStep(h, g, i) == h[i] = Cat(h[i - 1], g[i])

Flattens(S, n, g, h) == /\ h \in [0..n -> Seq(S)] /\ h[0] = <<>>
                        /\ \A i \in 1..n : CatStep(h, g, i)
                        /\ FlatUpto(g, n) = h[n]

\* The partial results of FlattenSeq exist.
LEMMA Flatten ==
  ASSUME NEW S, NEW n \in Nat, NEW g, \A i \in 1..n : g[i] \in Seq(S)
  PROVE  \E h : Flattens(S, n, g, h)
<1> DEFINE F == [i \in 1..n |-> [x \in Seq(S) |-> Cat(x, g[i])]]
           s == [i \in 1..n |-> g[i]]
<1>1. Steps(Seq(S), n, F)
  <2> SUFFICES ASSUME NEW i \in 1..n, NEW x \in Seq(S) PROVE Cat(x, g[i]) \in Seq(S)  BY DEF Steps
  <2> QED  BY DEF Cat
<1>2. <<>> \in Seq(S)  OBVIOUS
<1> HIDE DEF F
<1>3. PICK h : Iterates(Seq(S), n, <<>>, F, h)  BY <1>1, <1>2, Iterated
<1>4. h \in [0..n -> Seq(S)] /\ h[0] = <<>>  BY <1>3 DEF Iterates
<1>5. ASSUME NEW i \in 1..n PROVE CatStep(h, g, i) /\ h[i - 1] \in Seq(S)
  <2>1. h[i] = F[i][h[i - 1]] /\ i - 1 \in 0..n  BY <1>3 DEF Iterates
  <2>2. h[i - 1] \in Seq(S)  BY <1>4, <2>1
  <2> QED  BY <2>1, <2>2 DEF F, CatStep
<1>6. Len(s) = n  OBVIOUS
<1>7. CASE n = 0
  <2>1. s = <<>>  BY <1>7
  <2> HIDE DEF s
  <2>2. FlattenSeq(s) = h[n]  BY <1>4, <1>6, <1>7, <2>1, FlattenIs
  <2> QED  BY <1>4, <1>5, <2>2 DEF s, FlatUpto, Flattens
<1>8. CASE n # 0
  <2> DEFINE f == Flattening(s)
             c == [i \in 1..n |-> h[i]]
  <2>1. ASSUME NEW i \in 1..n PROVE h[i] = IF i = 1 THEN s[i] ELSE Cat(c[i - 1], s[i])
    <3>1. h[i] = Cat(h[i - 1], g[i]) /\ s[i] = g[i] /\ g[i] \in Seq(S)  BY <1>5 DEF CatStep
    <3>2. i # 1 => i - 1 \in 1..n  OBVIOUS
    <3>3. i # 1 => c[i - 1] = h[i - 1]  BY <3>2
    <3>4. Cat(<<>>, g[i]) = g[i]  BY <3>1, Joined DEF Cat
    <3> HIDE DEF c, s
    <3>5. i = 1 => h[i - 1] = <<>>  BY <1>4
    <3> QED  BY <3>1, <3>3, <3>4, <3>5
  <2>2. c = [i \in 1..Len(s) |-> IF i = 1 THEN s[i] ELSE Cat(c[i - 1], s[i])]
    <3>1. c = [i \in 1..n |-> IF i = 1 THEN s[i] ELSE Cat(c[i - 1], s[i])]  BY <2>1
    <3> QED  BY <1>6, <3>1
  <2>3. f = [i \in 1..Len(s) |-> IF i = 1 THEN s[i] ELSE Cat(f[i - 1], s[i])]
    <3> HIDE DEF s, c
    <3> QED  BY <2>2 DEF Flattening, Cat
  <2>4. \A i \in 1..n : f[i] = IF i = 1 THEN s[i] ELSE Cat(f[i - 1], s[i])  BY <1>6, <2>3
  <2> HIDE DEF f
  <2> DEFINE A == {i \in 0..n : i # 0 => f[i] = h[i]}
  <2>5. 0 \in A  OBVIOUS
  <2>6. ASSUME NEW i \in 1..n, i - 1 \in A PROVE i \in A
    <3>1. i # 1 => f[i - 1] = h[i - 1] /\ c[i - 1] = h[i - 1]  BY <2>6
    <3> HIDE DEF c, s
    <3> QED  BY <2>1, <2>4, <3>1
  <2>7. 0..n \subseteq A
    <3> HIDE DEF A
    <3> QED  BY <2>5, <2>6, UpTo
  <2>8. f[n] = h[n]  BY <1>8, <2>7
  <2>9. FlattenSeq(s) = f[n]
    <3> HIDE DEF s
    <3> QED  BY <1>6, <1>8, FlattenIs DEF f
  <2> HIDE DEF f, A, c
  <2>10. FlattenSeq(s) = h[n]  BY <2>8, <2>9
  <2> HIDE DEF s
  <2> QED  BY <1>4, <1>5, <2>10 DEF s, FlatUpto, Flattens
<1> QED  BY <1>7, <1>8

(* Item k of F is item m of g[i]; the items before it in g are before it.  *)
Follows(g, F, k, i, m) ==
    /\ F[k] = g[i][m]
    /\ \A j \in 1..i - 1 : \A l \in 1..Len(g[j]) : \E e \in 1..k - 1 : F[e] = g[j][l]
    /\ \A l \in 1..m - 1 : \E e \in 1..k - 1 : F[e] = g[i][l]
Joins(g, n, F) ==
    /\ \A k \in 1..Len(F) : \E i \in 1..n : \E m \in 1..Len(g[i]) : Follows(g, F, k, i, m)
    /\ \A i \in 1..n : \A m \in 1..Len(g[i]) : \E k \in 1..Len(F) : F[k] = g[i][m]

\* One more sequence is joined at the end.
LEMMA JoinsOn ==
  ASSUME NEW S, NEW n \in Nat, NEW g, \A i \in 1..(n + 1) : g[i] \in Seq(S),
         NEW F \in Seq(S), Joins(g, n, F)
  PROVE  Joins(g, n + 1, Cat(F, g[n + 1]))
<1> DEFINE q == g[n + 1]
           G == Cat(F, q)
<1>1. n + 1 \in 1..(n + 1) /\ q \in Seq(S)  OBVIOUS
<1>2. /\ Len(G) = Len(F) + Len(q) /\ Len(F) \in Nat /\ Len(q) \in Nat
      /\ \A k \in 1..Len(F) : G[k] = F[k]
      /\ \A m \in 1..Len(q) : G[Len(F) + m] = q[m]
  <2> HIDE DEF q
  <2> QED  BY <1>1, Joined DEF Cat
<1> HIDE DEF G
<1>3. ASSUME NEW i \in 1..(n + 1), NEW m \in 1..Len(g[i]) PROVE \E k \in 1..Len(G) : G[k] = g[i][m]
  <2>1. CASE i \in 1..n
    <3>1. PICK k \in 1..Len(F) : F[k] = g[i][m]  BY <2>1 DEF Joins
    <3>2. k \in 1..Len(G)  BY <1>2
    <3> QED  BY <1>2, <3>1, <3>2
  <2>2. CASE i = n + 1
    <3>1. m \in 1..Len(q) /\ Len(F) + m \in 1..Len(G)  BY <1>2, <2>2
    <3> QED  BY <1>2, <2>2, <3>1
  <2> QED  BY <2>1, <2>2
<1>4. ASSUME NEW k \in 1..Len(G) PROVE \E i \in 1..(n + 1) : \E m \in 1..Len(g[i]) : Follows(g, G, k, i, m)
  <2>1. CASE k \in 1..Len(F)
    <3>0. PICK i \in 1..n : \E m \in 1..Len(g[i]) : Follows(g, F, k, i, m)  BY <2>1 DEF Joins
    <3>1. PICK m \in 1..Len(g[i]) : Follows(g, F, k, i, m)  BY <3>0
    <3>2. \A e \in 1..k - 1 : G[e] = F[e]  BY <1>2, <2>1
    <3>3. Follows(g, G, k, i, m)  BY <1>2, <2>1, <3>1, <3>2 DEF Follows
    <3>4. i \in 1..(n + 1)  OBVIOUS
    <3> QED  BY <3>3, <3>4
  <2>2. CASE k > Len(F)
    <3>1. PICK m \in 1..Len(q) : k = Len(F) + m
      <4>1. k - Len(F) \in 1..Len(q) /\ k = Len(F) + (k - Len(F))  BY <1>2, <2>2
      <4> QED  BY <4>1
    <3>2. G[k] = q[m]  BY <1>2, <3>1
    <3>3. ASSUME NEW j \in 1..n, NEW l \in 1..Len(g[j]) PROVE \E e \in 1..k - 1 : G[e] = g[j][l]
      <4>1. PICK e \in 1..Len(F) : F[e] = g[j][l]  BY DEF Joins
      <4>2. e \in 1..k - 1  BY <1>2, <2>2
      <4> QED  BY <1>2, <4>1, <4>2
    <3>4. ASSUME NEW l \in 1..m - 1 PROVE \E e \in 1..k - 1 : G[e] = q[l]
      <4>1. l \in 1..Len(q) /\ Len(F) + l \in 1..k - 1  BY <1>2, <3>1
      <4> QED  BY <1>2, <4>1
    <3>5. (n + 1) - 1 = n  OBVIOUS
    <3>6. Follows(g, G, k, n + 1, m)  BY <3>2, <3>3, <3>4, <3>5 DEF Follows
    <3> QED  BY <1>1, <3>6
  <2>3. k \in 1..Len(F) \/ k > Len(F)  BY <1>2
  <2> QED  BY <2>1, <2>2, <2>3
<1> QED  BY <1>3, <1>4 DEF Joins, G

\* The first n sequences are joined in their order.
LEMMA Joining ==
  ASSUME NEW n \in Nat, NEW g, \A i \in 1..n : IsSeq(g[i])
  PROVE  IsSeq(FlatUpto(g, n)) /\ Joins(g, n, FlatUpto(g, n))
<1> DEFINE S == UNION {Range(g[i]) : i \in 1..n}
<1>1. \A i \in 1..n : g[i] \in Seq(S)
  <2> SUFFICES ASSUME NEW i \in 1..n PROVE g[i] \in Seq(S)  OBVIOUS
  <2>1. g[i] \in Seq(Range(g[i])) /\ Range(g[i]) \subseteq S  BY DEF IsSeq
  <2> HIDE DEF S
  <2> QED  BY <2>1
<1> HIDE DEF S
<1>11. PICK h : Flattens(S, n, g, h)  BY <1>1, Flatten
<1>2. /\ h \in [0..n -> Seq(S)] /\ h[0] = <<>>
      /\ \A i \in 1..n : CatStep(h, g, i)
      /\ FlatUpto(g, n) = h[n]
  BY <1>11 DEF Flattens
<1> DEFINE A == {i \in 0..n : Joins(g, i, h[i])}
<1>3. 0 \in A
  <2>1. Len(<<>>) = 0  OBVIOUS
  <2>2. Joins(g, 0, <<>>)  BY <2>1 DEF Joins
  <2> QED  BY <1>2, <2>2
<1>4. ASSUME NEW i \in 1..n, i - 1 \in A PROVE i \in A
  <2>1. PICK m \in Nat : m = i - 1  OBVIOUS
  <2>2. m \in 0..n /\ i = m + 1 /\ \A j \in 1..(m + 1) : g[j] \in Seq(S)  BY <1>1, <2>1
  <2>3. h[m] \in Seq(S) /\ Joins(g, m, h[m])  BY <1>2, <1>4, <2>1, <2>2
  <2>4. Joins(g, m + 1, Cat(h[m], g[m + 1]))  BY <2>2, <2>3, JoinsOn
  <2>5. h[i] = Cat(h[m], g[i])  BY <1>2, <2>1 DEF CatStep
  <2> QED  BY <2>2, <2>4, <2>5
<1>5. 0..n \subseteq A
  <2> HIDE DEF A
  <2> QED  BY <1>3, <1>4, UpTo
<1>6. n \in 0..n  OBVIOUS
<1>7. Joins(g, n, h[n]) /\ h[n] \in Seq(S)  BY <1>2, <1>5, <1>6
<1>8. IsSeq(h[n])  BY <1>7, IsSeqIs
<1> QED  BY <1>2, <1>7, <1>8

\* A flattened sequence holds the items of each part, in their order.
LEMMA Flattened ==
  ASSUME NEW g, IsSeq(g), \A i \in 1..Len(g) : IsSeq(g[i])
  PROVE  IsSeq(FlattenSeq(g)) /\ Joins(g, Len(g), FlattenSeq(g))
<1>1. Len(g) \in Nat /\ g = [i \in 1..Len(g) |-> g[i]]  BY DEF IsSeq
<1>2. FlatUpto(g, Len(g)) = FlattenSeq(g)  BY <1>1 DEF FlatUpto
<1> QED  BY <1>1, <1>2, Joining

-----------------------------------------------------------------------------
(* The pieces: the fields of each form.                                    *)
Holds(p, what, of, needs, gives) ==
    /\ p.what = what /\ p.of = of /\ p.needs = needs /\ p.gives = gives
Plain(p) == p.calls = {} /\ p.slots = <<>>

\* The fields of a plain piece.
LEMMA PieceFields ==
  ASSUME NEW what, NEW of, NEW needs, NEW gives
  PROVE  /\ Holds(Piece(what, of, needs, gives), what, of, needs, gives)
         /\ Plain(Piece(what, of, needs, gives))
  BY DEF Piece, Holds, Plain

\* The fields of a piece at the top of the file.
LEMMA TopFields ==
  ASSUME NEW what, NEW of, NEW mentions, NEW needs, NEW gives
  PROVE  /\ Holds(Top(what, of, mentions, needs, gives), what, of, mentions \cup needs, gives \cup Tags(mentions))
         /\ Plain(Top(what, of, mentions, needs, gives))
  BY PieceFields DEF Top

Slotted(what, of, mentions, needs, gives, slots) ==
    [Top(what, of, mentions, needs, gives) EXCEPT !.slots = slots]
Coded(what, of, needs, gives, calls, texts) ==
    [Piece(what, of, needs, gives) EXCEPT !.calls = calls, !.texts = texts]

IsSlotted(p, what, of, mentions, needs, gives, slots) ==
    /\ Holds(p, what, of, mentions \cup needs, gives \cup Tags(mentions))
    /\ p.calls = {} /\ p.slots = slots

\* The fields of a piece with storage.
LEMMA SlottedFields ==
  ASSUME NEW what, NEW of, NEW mentions, NEW needs, NEW gives, NEW slots
  PROVE  IsSlotted(Slotted(what, of, mentions, needs, gives, slots), what, of, mentions, needs, gives, slots)
  BY DEF IsSlotted, Slotted, Top, Piece, Holds

\* The fields of a piece with code.
LEMMA CodedFields ==
  ASSUME NEW what, NEW of, NEW needs, NEW gives, NEW calls, NEW texts
  PROVE  /\ Holds(Coded(what, of, needs, gives, calls, texts), what, of, needs, gives)
         /\ Coded(what, of, needs, gives, calls, texts).calls = calls
         /\ Coded(what, of, needs, gives, calls, texts).slots = <<>>
  BY DEF Coded, Piece, Holds

\* The fields of a struct's piece.
LEMMA StructFields ==
  ASSUME NEW i
  PROVE  /\ Holds(Struct(i), "struct", i, TypesNeed(Types(program[i])),
                  (IF output = "program" THEN {<<"tag", program[i].name>>, <<"struct", program[i].name>>}
                                         ELSE {<<"name", program[i].name>>}) \cup Tags(TypesNeed(Types(program[i]))))
         /\ Struct(i).calls = {}
         /\ Struct(i).slots = IF output = "program" THEN Slots(program[i].fields) ELSE HotSlots(program[i].fields)
<1>0. PICK mentions : mentions = TypesNeed(Types(program[i]))  OBVIOUS
<1>00. mentions \cup {} = mentions  OBVIOUS
<1>1. CASE output = "program"
  <2>0. PICK w, none, gives, slots : /\ w = "struct" /\ none = {} /\ slots = Slots(program[i].fields)
                                    /\ gives = {<<"tag", program[i].name>>, <<"struct", program[i].name>>}
    OBVIOUS
  <2>1. Struct(i) = Slotted(w, i, mentions, none, gives, slots)
    BY <1>0, <1>1, <2>0 DEF Struct, Slotted
  <2>2. IsSlotted(Struct(i), w, i, mentions, none, gives, slots)
    <3>1. IsSlotted(Slotted(w, i, mentions, none, gives, slots), w, i, mentions, none, gives, slots)
      BY SlottedFields
    <3> QED  BY <2>1, <3>1
  <2>3. /\ Holds(Struct(i), w, i, mentions \cup none, gives \cup Tags(mentions))
        /\ Struct(i).calls = {} /\ Struct(i).slots = slots
    BY <2>2 DEF IsSlotted
  <2> QED  BY <2>3, <1>0, <1>00, <1>1, <2>0, <2>2
<1>2. CASE output # "program"
  <2>0. PICK w, none, gives, slots : /\ w = "struct" /\ none = {} /\ slots = HotSlots(program[i].fields)
                                    /\ gives = {<<"name", program[i].name>>}
    OBVIOUS
  <2>1. Struct(i) = Slotted(w, i, mentions, none, gives, slots)
    BY <1>0, <1>2, <2>0 DEF Struct, Slotted
  <2>2. IsSlotted(Struct(i), w, i, mentions, none, gives, slots)
    <3>1. IsSlotted(Slotted(w, i, mentions, none, gives, slots), w, i, mentions, none, gives, slots)
      BY SlottedFields
    <3> QED  BY <2>1, <3>1
  <2>3. /\ Holds(Struct(i), w, i, mentions \cup none, gives \cup Tags(mentions))
        /\ Struct(i).calls = {} /\ Struct(i).slots = slots
    BY <2>2 DEF IsSlotted
  <2> QED  BY <2>3, <1>0, <1>00, <1>2, <2>0, <2>2
<1> QED  BY <1>1, <1>2

ErrorNeeds(i) == TypesNeed(Types(program[i])) \cup BodyNeeds(program[i].body)

\* The fields of an error's piece.
LEMMA ErrorFields ==
  ASSUME NEW i
  PROVE  /\ Holds(Error(i), "error", i, ErrorNeeds(i), {<<"error", program[i].name>>})
         /\ Error(i).calls = CallsOf(program[i].body) /\ Error(i).slots = <<>>
<1>0. PICK w, gives, texts : w = "error" /\ gives = {<<"error", program[i].name>>}
                            /\ texts = ExpressionsOf(program[i].body, FALSE)
  OBVIOUS
<1>1. Error(i) = Coded(w, i, ErrorNeeds(i), gives, CallsOf(program[i].body), texts)
  BY <1>0 DEF Error, ErrorNeeds, Coded
<1>2. /\ Holds(Error(i), w, i, ErrorNeeds(i), gives)
      /\ Error(i).calls = CallsOf(program[i].body) /\ Error(i).slots = <<>>
  BY <1>1, CodedFields
<1> QED  BY <1>0, <1>2

(* What a definition needs besides its own type.                           *)
CodeNeeds(d, body) == BodyNeeds(body) \cup (IF HasArgs(d) THEN ArgsType ELSE TypesNeed(Types(d)))
OwnName(what, d) == IF what = "methods" THEN {} ELSE {<<"name", d.name>>}

\* The fields of a definition.
LEMMA DefinitionFields ==
  ASSUME NEW what, NEW i, NEW d, NEW body
  PROVE  /\ Holds(Definition(what, i, d, body), what, i, TypeNeeds(d.type) \cup CodeNeeds(d, body),
                  OwnName(what, d) \cup Tags(TypeNeeds(d.type)))
         /\ Definition(what, i, d, body).calls = CallsOf(body)
         /\ Definition(what, i, d, body).slots = <<>>
<1>1. Definition(what, i, d, body) =
         Coded(what, i, TypeNeeds(d.type) \cup CodeNeeds(d, body), OwnName(what, d) \cup Tags(TypeNeeds(d.type)),
               CallsOf(body), ExpressionsOf(body, what = "body"))
  BY DEF Definition, Top, CodeNeeds, OwnName, Coded
<1> QED  BY <1>1, CodedFields

-----------------------------------------------------------------------------
(* One piece for each declaration of T.                                    *)
Lists(F, T, f) ==
    /\ IsSeq(F)
    /\ \A k \in 1..Len(F) : \E i \in T : F[k] = f[i] /\ \A j \in T : j < i => \E e \in 1..k - 1 : F[e] = f[j]
    /\ \A i \in T : \E k \in 1..Len(F) : F[k] = f[i]

Sources == DOMAIN program
ProgramIsSeq == IsSeq(program) /\ Sources = 1..Len(program) /\ Len(program) \in Nat

\* The empty sequence, and one of one item.
LEMMA ShortSeqs == IsSeq(<<>>) /\ Len(<<>>) = 0 /\ \A x : IsSeq(<<x>>) /\ Len(<<x>>) = 1 /\ <<x>>[1] = x
<1>1. <<>> \in Seq({}) /\ Len(<<>>) = 0  OBVIOUS
<1>2. ASSUME NEW x PROVE <<x>> \in Seq({x}) /\ Len(<<x>>) = 1 /\ <<x>>[1] = x  OBVIOUS
<1> QED  BY <1>1, <1>2, IsSeqIs

\* A loop that writes one piece for each declaration of T.
LEMMA ListsOne ==
  ASSUME ProgramIsSeq, NEW T, T \subseteq Sources, NEW f
  PROVE  Lists(FlattenSeq([i \in Sources |-> IF i \in T THEN <<f[i]>> ELSE <<>>]), T, f)
<1> DEFINE g == [i \in Sources |-> IF i \in T THEN <<f[i]>> ELSE <<>>]
           n == Len(program)
           F == FlattenSeq(g)
<1>1. IsSeq(g) /\ Len(g) = n /\ n \in Nat /\ Sources = 1..n
  <2>1. n \in Nat /\ Sources = 1..n  BY DEF ProgramIsSeq
  <2>2. g \in Seq(Range(g)) /\ Len(g) = n
    <3>1. \A i \in Sources : g[i] \in Range(g)  BY DEF Range
    <3>2. g = [i \in 1..n |-> g[i]]  BY <2>1
    <3> HIDE DEF g
    <3> QED  BY <2>1, <3>1, <3>2
  <2> QED  BY <2>1, <2>2 DEF IsSeq
<1>2. ASSUME NEW i \in Sources
      PROVE  IsSeq(g[i]) /\ (i \in T => Len(g[i]) = 1 /\ g[i][1] = f[i]) /\ (i \notin T => Len(g[i]) = 0)
  BY ShortSeqs
<1> HIDE DEF g
<1>3. IsSeq(F) /\ Joins(g, n, F)  BY <1>1, <1>2, Flattened
<1> HIDE DEF F
<1>4. ASSUME NEW k \in 1..Len(F)
      PROVE  \E i \in T : F[k] = f[i] /\ \A j \in T : j < i => \E e \in 1..k - 1 : F[e] = f[j]
  <2>1. PICK i \in 1..n : \E m \in 1..Len(g[i]) : Follows(g, F, k, i, m)  BY <1>3 DEF Joins
  <2>2. PICK m \in 1..Len(g[i]) : Follows(g, F, k, i, m)  BY <2>1
  <2>3. i \in T /\ m = 1 /\ F[k] = f[i]
    <3>1. i \in Sources /\ (i \notin T => 1..Len(g[i]) = {})  BY <1>1, <1>2
    <3>2. i \in T  BY <2>2, <3>1
    <3>3. Len(g[i]) = 1 /\ g[i][1] = f[i]  BY <1>2, <3>1, <3>2
    <3> QED  BY <2>2, <3>2, <3>3 DEF Follows
  <2>4. ASSUME NEW j \in T, j < i PROVE \E e \in 1..k - 1 : F[e] = f[j]
    <3>1. j \in 1..i - 1 /\ j \in Sources  BY <1>1, <2>4
    <3>2. Len(g[j]) = 1 /\ g[j][1] = f[j] /\ 1 \in 1..1  BY <1>2, <3>1
    <3>3. \A l \in 1..Len(g[j]) : \E e \in 1..k - 1 : F[e] = g[j][l]  BY <2>2, <3>1 DEF Follows
    <3> QED  BY <3>2, <3>3
  <2> QED  BY <2>3, <2>4
<1>5. ASSUME NEW i \in T PROVE \E k \in 1..Len(F) : F[k] = f[i]
  <2>1. i \in 1..n /\ Len(g[i]) = 1 /\ g[i][1] = f[i] /\ 1 \in 1..1  BY <1>1, <1>2
  <2> QED  BY <1>3, <2>1 DEF Joins
<1>6. Lists(F, T, f)  BY <1>3, <1>4, <1>5 DEF Lists
<1> QED  BY <1>6 DEF F, g

-----------------------------------------------------------------------------
(* What each loop writes.                                                  *)
LEMMA EachOne ==
  ASSUME ProgramIsSeq, NEW kind, NEW pieces, NEW T, T \subseteq Sources, NEW f,
         \A i \in Sources : (IF program[i].kind = kind THEN pieces[i] ELSE <<>>) = (IF i \in T THEN <<f[i]>> ELSE <<>>)
  PROVE  Lists(Each(kind, pieces), T, f)
<1>1. [i \in DOMAIN program |-> IF program[i].kind = kind THEN pieces[i] ELSE <<>>]
       = [i \in Sources |-> IF i \in T THEN <<f[i]>> ELSE <<>>]
  BY DEF Sources
<1>2. Lists(FlattenSeq([i \in Sources |-> IF i \in T THEN <<f[i]>> ELSE <<>>]), T, f)  BY ListsOne
<1> QED  BY <1>1, <1>2 DEF Each

Wrapped   == {i \in Decls("fn") : program[i].async /\ HasWrapper(Types(program[i]))}
Defined   == {i \in Decls("fn") : ~(output = "library" /\ program[i].name = "main")}
Pointed   == {i \in Decls("fn") : program[i].name # "main"}
StubOf(i) == IF program[i].name = "main" THEN Function(i) ELSE Definition("stub", i, program[i], <<>>)

\* The declarations of a kind.
LEMMA DeclsIs ==
  ASSUME NEW kind, NEW i \in Sources PROVE (program[i].kind = kind <=> i \in Decls(kind)) /\ Decls(kind) \subseteq Sources
  BY DEF Decls, Sources

\* One piece for each inline declaration.
LEMMA InlineCLists ==
  ASSUME ProgramIsSeq PROVE Lists(InlineC, Decls("inline"), [i \in Sources |-> Provides("inline", i)])
<1> DEFINE f == [i \in Sources |-> Provides("inline", i)]
           pieces == [i \in Sources |-> <<Provides("inline", i)>>]
<1>1. ASSUME NEW i \in Sources
      PROVE  (IF program[i].kind = "inline" THEN pieces[i] ELSE <<>>) = (IF i \in Decls("inline") THEN <<f[i]>> ELSE <<>>)
  BY DEF Decls, Sources
<1>2. Decls("inline") \subseteq Sources  BY DEF Decls, Sources
<1>3. InlineC = Each("inline", pieces)  BY DEF InlineC, Sources
<1> HIDE DEF f, pieces
<1>4. Lists(Each("inline", pieces), Decls("inline"), f)  BY <1>1, <1>2, EachOne
<1> QED  BY <1>3, <1>4 DEF f

\* One piece for each include.
LEMMA UseIncludesLists ==
  ASSUME ProgramIsSeq PROVE Lists(UseIncludes, Decls("use"), [i \in Sources |-> Provides("use", i)])
<1> DEFINE f == [i \in Sources |-> Provides("use", i)]
           pieces == [i \in Sources |-> <<Provides("use", i)>>]
<1>1. ASSUME NEW i \in Sources
      PROVE  (IF program[i].kind = "use" THEN pieces[i] ELSE <<>>) = (IF i \in Decls("use") THEN <<f[i]>> ELSE <<>>)
  BY DEF Decls, Sources
<1>2. Decls("use") \subseteq Sources  BY DEF Decls, Sources
<1>3. UseIncludes = Each("use", pieces)  BY DEF UseIncludes, Sources
<1> HIDE DEF f, pieces
<1>4. Lists(Each("use", pieces), Decls("use"), f)  BY <1>1, <1>2, EachOne
<1> QED  BY <1>3, <1>4 DEF f

\* One piece for each function.
LEMMA PrototypesLists ==
  ASSUME ProgramIsSeq PROVE Lists(Prototypes, Decls("fn"), [i \in Sources |-> Prototype(i)])
<1> DEFINE f == [i \in Sources |-> Prototype(i)]
           pieces == [i \in Sources |-> <<Prototype(i)>>]
<1>1. ASSUME NEW i \in Sources
      PROVE  (IF program[i].kind = "fn" THEN pieces[i] ELSE <<>>) = (IF i \in Decls("fn") THEN <<f[i]>> ELSE <<>>)
  BY DEF Decls, Sources
<1>2. Decls("fn") \subseteq Sources  BY DEF Decls, Sources
<1>3. Prototypes = Each("fn", pieces)  BY DEF Prototypes, Sources
<1> HIDE DEF f, pieces
<1>4. Lists(Each("fn", pieces), Decls("fn"), f)  BY <1>1, <1>2, EachOne
<1> QED  BY <1>3, <1>4 DEF f

\* One piece for each async function that has a wrapper.
LEMMA WrappersLists ==
  ASSUME ProgramIsSeq PROVE Lists(Wrappers, Wrapped, [i \in Sources |-> Wrapper(i)])
<1> DEFINE f == [i \in Sources |-> Wrapper(i)]
           pieces == [i \in Sources |-> IF program[i].async /\ HasWrapper(Types(program[i])) THEN <<Wrapper(i)>> ELSE <<>>]
<1>1. ASSUME NEW i \in Sources
      PROVE  (IF program[i].kind = "fn" THEN pieces[i] ELSE <<>>) = (IF i \in Wrapped THEN <<f[i]>> ELSE <<>>)
  BY DEF Decls, Sources, Wrapped
<1>2. Wrapped \subseteq Sources  BY DEF Decls, Sources, Wrapped
<1>3. Wrappers = Each("fn", pieces)  BY DEF Wrappers, Sources
<1> HIDE DEF f, pieces
<1>4. Lists(Each("fn", pieces), Wrapped, f)  BY <1>1, <1>2, EachOne
<1> QED  BY <1>3, <1>4 DEF f

\* One piece for each global.
LEMMA GlobalsLists ==
  ASSUME ProgramIsSeq PROVE Lists(Globals, Decls("var"), [i \in Sources |-> Global(i)])
<1> DEFINE f == [i \in Sources |-> Global(i)]
           pieces == [i \in Sources |-> <<Global(i)>>]
<1>1. ASSUME NEW i \in Sources
      PROVE  (IF program[i].kind = "var" THEN pieces[i] ELSE <<>>) = (IF i \in Decls("var") THEN <<f[i]>> ELSE <<>>)
  BY DEF Decls, Sources
<1>2. Decls("var") \subseteq Sources  BY DEF Decls, Sources
<1>3. Globals = Each("var", pieces)  BY DEF Globals, Sources
<1> HIDE DEF f, pieces
<1>4. Lists(Each("var", pieces), Decls("var"), f)  BY <1>1, <1>2, EachOne
<1> QED  BY <1>3, <1>4 DEF f

\* One piece for each function that is defined.
LEMMA BodiesLists ==
  ASSUME ProgramIsSeq PROVE Lists(Bodies, Defined, [i \in Sources |-> Function(i)])
<1> DEFINE f == [i \in Sources |-> Function(i)]
           pieces == [i \in Sources |-> IF output = "library" /\ program[i].name = "main" THEN <<>> ELSE <<Function(i)>>]
<1>1. ASSUME NEW i \in Sources
      PROVE  (IF program[i].kind = "fn" THEN pieces[i] ELSE <<>>) = (IF i \in Defined THEN <<f[i]>> ELSE <<>>)
  BY DEF Decls, Sources, Defined
<1>2. Defined \subseteq Sources  BY DEF Decls, Sources, Defined
<1>3. Bodies = Each("fn", pieces)  BY DEF Bodies, Sources
<1> HIDE DEF f, pieces
<1>4. Lists(Each("fn", pieces), Defined, f)  BY <1>1, <1>2, EachOne
<1> QED  BY <1>3, <1>4 DEF f

\* One piece for each function but main.
LEMMA TableLists ==
  ASSUME ProgramIsSeq PROVE Lists(Table, Pointed, [i \in Sources |-> Pointer(i)])
<1> DEFINE f == [i \in Sources |-> Pointer(i)]
           pieces == [i \in Sources |-> IF program[i].name = "main" THEN <<>> ELSE <<Pointer(i)>>]
<1>1. ASSUME NEW i \in Sources
      PROVE  (IF program[i].kind = "fn" THEN pieces[i] ELSE <<>>) = (IF i \in Pointed THEN <<f[i]>> ELSE <<>>)
  BY DEF Decls, Sources, Pointed
<1>2. Pointed \subseteq Sources  BY DEF Decls, Sources, Pointed
<1>3. Table = Each("fn", pieces)  BY DEF Table, Sources
<1> HIDE DEF f, pieces
<1>4. Lists(Each("fn", pieces), Pointed, f)  BY <1>1, <1>2, EachOne
<1> QED  BY <1>3, <1>4 DEF f

\* One piece for each function.
LEMMA StubsLists ==
  ASSUME ProgramIsSeq PROVE Lists(Stubs, Decls("fn"), [i \in Sources |-> StubOf(i)])
<1> DEFINE f == [i \in Sources |-> StubOf(i)]
           pieces == [i \in Sources |-> <<IF program[i].name = "main" THEN Function(i)
                                      ELSE Definition("stub", i, program[i], <<>>)>>]
<1>1. ASSUME NEW i \in Sources
      PROVE  (IF program[i].kind = "fn" THEN pieces[i] ELSE <<>>) = (IF i \in Decls("fn") THEN <<f[i]>> ELSE <<>>)
  BY DEF Decls, Sources, StubOf
<1>2. Decls("fn") \subseteq Sources  BY DEF Decls, Sources, StubOf
<1>3. Stubs = Each("fn", pieces)  BY DEF Stubs, Sources
<1> HIDE DEF f, pieces
<1>4. Lists(Each("fn", pieces), Decls("fn"), f)  BY <1>1, <1>2, EachOne
<1> QED  BY <1>3, <1>4 DEF f

-----------------------------------------------------------------------------
(* The pieces of declaration i in the loop over types, and as methods.     *)
TypePiece(i, p) ==
    \/ program[i].kind = "struct" /\ p = Struct(i)
    \/ /\ program[i].kind = "struct" /\ output = "program"
       /\ \E m \in DOMAIN program[i].methods : p = MethodPrototypes(i)[m]
    \/ program[i].kind = "enum"  /\ output = "program" /\ p = Enum(i)
    \/ program[i].kind = "error" /\ output = "program" /\ p = Error(i)
MethodPiece(i, p) == program[i].kind = "struct" /\ \E m \in DOMAIN program[i].methods : p = MethodsOf(i)[m]
MethodsAreSeqs == \A i \in Sources : IsSeq(program[i].methods)

TypesWritten(F) ==
    /\ IsSeq(F)
    /\ \A k \in 1..Len(F) : \E i \in Sources :
          /\ TypePiece(i, F[k])
          /\ \A j \in 1..i - 1 : \A p : TypePiece(j, p) => \E e \in 1..k - 1 : F[e] = p
    /\ \A i \in Sources : \A p : TypePiece(i, p) => \E k \in 1..Len(F) : F[k] = p
MethodsWritten(F) ==
    /\ IsSeq(F)
    /\ \A k \in 1..Len(F) : \E i \in Sources : MethodPiece(i, F[k])

TypePieces(i) ==
    CASE program[i].kind = "struct" -> <<Struct(i)>> \o
             (IF output = "program" THEN MethodPrototypes(i) ELSE <<>>)
      [] program[i].kind = "enum"  /\ output = "program" -> <<Enum(i)>>
      [] program[i].kind = "error" /\ output = "program" -> <<Error(i)>>
      [] OTHER -> <<>>

Elements(s, i) == IsSeq(s) /\ \A p : (\E m \in 1..Len(s) : p = s[m]) <=> TypePiece(i, p)

\* A struct has one prototype and one definition for each method.
LEMMA PrototypesAreSeqs ==
  ASSUME MethodsAreSeqs, NEW i \in Sources
  PROVE  /\ IsSeq(MethodPrototypes(i)) /\ 1..Len(MethodPrototypes(i)) = DOMAIN program[i].methods
         /\ IsSeq(MethodsOf(i)) /\ 1..Len(MethodsOf(i)) = DOMAIN program[i].methods
<1>1. PICK n \in Nat : DOMAIN program[i].methods = 1..n  BY DEF MethodsAreSeqs, IsSeq
<1>2. PICK f : MethodPrototypes(i) = [m \in 1..n |-> f[m]]
  <2>1. PICK f : f = MethodPrototypes(i)  OBVIOUS
  <2>2. f = [m \in DOMAIN program[i].methods |-> f[m]]  BY <2>1 DEF MethodPrototypes
  <2> QED  BY <1>1, <2>1, <2>2
<1>3. PICK e : MethodsOf(i) = [m \in 1..n |-> e[m]]
  <2>1. PICK e : e = MethodsOf(i)  OBVIOUS
  <2>2. e = [m \in DOMAIN program[i].methods |-> e[m]]  BY <2>1 DEF MethodsOf
  <2> QED  BY <1>1, <2>1, <2>2
<1>4. \A g, s : s = [m \in 1..n |-> g[m]] => IsSeq(s) /\ 1..Len(s) = 1..n
  <2> SUFFICES ASSUME NEW g, NEW s, s = [m \in 1..n |-> g[m]] PROVE IsSeq(s) /\ 1..Len(s) = 1..n  OBVIOUS
  <2>1. s \in Seq({g[m] : m \in 1..n}) /\ Len(s) = n  OBVIOUS
  <2> QED  BY <2>1, IsSeqIs
<1> QED  BY <1>1, <1>2, <1>3, <1>4

\* The one item of a sequence of one.
LEMMA SeqOfOne == ASSUME NEW x, NEW y, NEW m \in 1..Len(<<x>>), y = <<x>>[m] PROVE y = x
  OBVIOUS

(* q is x and then s.                                                      *)
Leads(q, x, s) == /\ IsSeq(q)
                  /\ \A p : (\E m \in 1..Len(q) : p = q[m]) <=> (p = x \/ \E m \in 1..Len(s) : p = s[m])

\* A piece, then the pieces of a sequence.
LEMMA OneAndRest ==
  ASSUME NEW x, NEW s, IsSeq(s) PROVE Leads(<<x>> \o s, x, s)
<1> DEFINE S == {x} \cup Range(s)
           q == <<x>> \o s
<1>1. s \in Seq(S) /\ <<x>> \in Seq(S)
  <2>1. s \in Seq(Range(s)) /\ Range(s) \subseteq S  BY DEF IsSeq
  <2> HIDE DEF S
  <2>2. s \in Seq(S)  BY <2>1
  <2>3. x \in S  BY DEF S
  <2> QED  BY <2>2, <2>3
<1>2. q \in Seq(S) /\ Len(q) = 1 + Len(s) /\ Len(s) \in Nat /\ q[1] = x /\ \A m \in 1..Len(s) : q[1 + m] = s[m]
  <2> HIDE DEF S
  <2>1. Len(<<x>>) = 1 /\ <<x>>[1] = x  OBVIOUS
  <2> QED  BY <1>1, <2>1, Joined
<1>3. IsSeq(q)  BY <1>2, IsSeqIs
<1> HIDE DEF q, S
<1>4. ASSUME NEW p, NEW m \in 1..Len(q), p = q[m] PROVE p = x \/ \E l \in 1..Len(s) : p = s[l]
  <2>1. m = 1 \/ (m - 1 \in 1..Len(s) /\ m = 1 + (m - 1))  BY <1>2
  <2> QED  BY <1>2, <1>4, <2>1
<1>5. ASSUME NEW p, p = x \/ \E l \in 1..Len(s) : p = s[l] PROVE \E m \in 1..Len(q) : p = q[m]
  <2>1. 1 \in 1..Len(q) /\ \A l \in 1..Len(s) : 1 + l \in 1..Len(q)  BY <1>2
  <2> QED  BY <1>2, <1>5, <2>1
<1>6. Leads(q, x, s)  BY <1>3, <1>4, <1>5 DEF Leads
<1> QED  BY <1>6 DEF q

\* What the loop over types writes for declaration i.
LEMMA TypePiecesAre ==
  ASSUME MethodsAreSeqs, NEW i \in Sources PROVE Elements(TypePieces(i), i)
<1>1. ASSUME NEW p PROVE /\ TypePiece(i, p) <=> \/ program[i].kind = "struct" /\ p = Struct(i)
                                                \/ program[i].kind = "struct" /\ output = "program"
                                                   /\ \E m \in 1..Len(MethodPrototypes(i)) : p = MethodPrototypes(i)[m]
                                                \/ program[i].kind = "enum"  /\ output = "program" /\ p = Enum(i)
                                                \/ program[i].kind = "error" /\ output = "program" /\ p = Error(i)
  BY PrototypesAreSeqs DEF TypePiece
<1>2. IsSeq(MethodPrototypes(i))  BY PrototypesAreSeqs
<1>3. CASE program[i].kind = "struct"
  <2>1. CASE output = "program"
    <3>1. TypePieces(i) = <<Struct(i)>> \o MethodPrototypes(i)  BY <1>3, <2>1 DEF TypePieces
    <3>2. PICK x, s : x = Struct(i) /\ s = MethodPrototypes(i)  OBVIOUS
    <3>3. Leads(<<x>> \o s, x, s)  BY <1>2, <3>2, OneAndRest
    <3>4. TypePieces(i) = <<x>> \o s  BY <3>1, <3>2
    <3>5. Leads(TypePieces(i), x, s)  BY <3>3, <3>4
    <3> QED  BY <1>1, <1>3, <2>1, <3>2, <3>5 DEF Elements, Leads
  <2>2. CASE output # "program"
    <3>0. PICK none : none = <<>>  OBVIOUS
    <3>1. TypePieces(i) = <<Struct(i)>> \o none  BY <1>3, <2>2, <3>0 DEF TypePieces
    <3>2. IsSeq(none) /\ 1..Len(none) = {}  BY <3>0, ShortSeqs
    <3>3. PICK x : x = Struct(i)  OBVIOUS
    <3>4. Leads(<<x>> \o none, x, none)  BY <3>2, OneAndRest
    <3>5. TypePieces(i) = <<x>> \o none  BY <3>1, <3>3
    <3>6. Leads(TypePieces(i), x, none)  BY <3>4, <3>5
    <3> QED  BY <1>1, <1>3, <2>2, <3>2, <3>3, <3>6 DEF Elements, Leads
  <2> QED  BY <2>1, <2>2
<1>4. CASE program[i].kind = "enum" /\ output = "program"
  <2>1. TypePieces(i) = <<Enum(i)>>  BY <1>4 DEF TypePieces
  <2>2. IsSeq(<<Enum(i)>>) /\ Len(<<Enum(i)>>) = 1 /\ <<Enum(i)>>[1] = Enum(i)  BY ShortSeqs
  <2>3. \A p : (\E m \in 1..1 : p = <<Enum(i)>>[m]) <=> p = Enum(i)  BY <2>2
  <2> QED  BY <1>1, <1>4, <2>1, <2>2, <2>3 DEF Elements
<1>5. CASE program[i].kind = "error" /\ output = "program"
  <2>1. TypePieces(i) = <<Error(i)>>  BY <1>5 DEF TypePieces
  <2>2. IsSeq(<<Error(i)>>) /\ Len(<<Error(i)>>) = 1 /\ <<Error(i)>>[1] = Error(i)  BY ShortSeqs
  <2>3. \A p : (\E m \in 1..1 : p = <<Error(i)>>[m]) <=> p = Error(i)  BY <2>2
  <2> QED  BY <1>1, <1>5, <2>1, <2>2, <2>3 DEF Elements
<1>6. CASE ~(program[i].kind = "struct") /\ ~(program[i].kind = "enum" /\ output = "program")
           /\ ~(program[i].kind = "error" /\ output = "program")
  <2>1. TypePieces(i) = <<>>  BY <1>6 DEF TypePieces
  <2>2. IsSeq(<<>>) /\ 1..Len(<<>>) = {}  BY ShortSeqs
  <2> QED  BY <1>1, <1>6, <2>1, <2>2 DEF Elements
<1> QED  BY <1>3, <1>4, <1>5, <1>6

\* A function of the declarations is a sequence.
LEMMA SourceSeq ==
  ASSUME ProgramIsSeq, NEW g PROVE /\ IsSeq([i \in Sources |-> g[i]]) /\ Len([i \in Sources |-> g[i]]) = Len(program)
<1>1. Sources = 1..Len(program) /\ Len(program) \in Nat  BY DEF ProgramIsSeq
<1> DEFINE s == [i \in 1..Len(program) |-> g[i]]
<1>2. s \in Seq({g[i] : i \in Sources}) /\ Len(s) = Len(program)  BY <1>1
<1>3. IsSeq(s)  BY <1>2, IsSeqIs
<1> QED  BY <1>1, <1>2, <1>3

\* The loop over types writes these pieces, in the order of the source.
LEMMA TypesLists ==
  ASSUME ProgramIsSeq, MethodsAreSeqs PROVE TypesWritten(TypeDefinitions)
<1> DEFINE g == [i \in Sources |-> TypePieces(i)]
           F == FlattenSeq(g)
           n == Len(program)
<1>1. TypeDefinitions = F  BY DEF TypeDefinitions, TypePieces, Sources
<1>2. IsSeq(g) /\ Len(g) = n
  <2>1. PICK h : h = g  OBVIOUS
  <2>2. g = [i \in Sources |-> h[i]]  BY <2>1
  <2> HIDE DEF g
  <2> QED  BY <2>2, SourceSeq
<1>3. n \in Nat /\ Sources = 1..n  BY DEF ProgramIsSeq
<1>4. \A i \in 1..n : g[i] = TypePieces(i)  BY <1>3
<1> HIDE DEF g
<1>5. \A i \in 1..n : Elements(g[i], i)  BY <1>3, <1>4, TypePiecesAre
<1>6. \A i \in 1..n : IsSeq(g[i])  BY <1>5 DEF Elements
<1>7. IsSeq(F) /\ Joins(g, n, F)  BY <1>2, <1>6, Flattened
<1> HIDE DEF F
<1>8. ASSUME NEW k \in 1..Len(F)
      PROVE  \E i \in Sources : /\ TypePiece(i, F[k])
                                /\ \A j \in 1..i - 1 : \A p : TypePiece(j, p) => \E e \in 1..k - 1 : F[e] = p
  <2>1. PICK i \in 1..n : \E m \in 1..Len(g[i]) : Follows(g, F, k, i, m)  BY <1>7 DEF Joins
  <2>2. PICK m \in 1..Len(g[i]) : Follows(g, F, k, i, m)  BY <2>1
  <2>3. TypePiece(i, F[k])
    <3>1. F[k] = g[i][m]  BY <2>2 DEF Follows
    <3> QED  BY <1>5, <3>1 DEF Elements
  <2>4. ASSUME NEW j \in 1..i - 1, NEW p, TypePiece(j, p) PROVE \E e \in 1..k - 1 : F[e] = p
    <3>1. j \in 1..n  BY <1>3
    <3>2. PICK l \in 1..Len(g[j]) : p = g[j][l]  BY <1>5, <2>4, <3>1 DEF Elements
    <3> QED  BY <2>2, <3>2 DEF Follows
  <2> QED  BY <1>3, <2>3, <2>4
<1>9. ASSUME NEW i \in Sources, NEW p, TypePiece(i, p) PROVE \E k \in 1..Len(F) : F[k] = p
  <2>1. PICK m \in 1..Len(g[i]) : p = g[i][m]  BY <1>3, <1>5, <1>9 DEF Elements
  <2> QED  BY <1>3, <1>7, <2>1 DEF Joins
<1> QED  BY <1>1, <1>7, <1>8, <1>9 DEF TypesWritten

\* The last loop writes the definitions of the methods.
LEMMA MethodsLists ==
  ASSUME ProgramIsSeq, MethodsAreSeqs PROVE MethodsWritten(Methods)
<1> DEFINE g == [i \in Sources |-> IF program[i].kind = "struct" THEN MethodsOf(i) ELSE <<>>]
           F == FlattenSeq(g)
           n == Len(program)
<1>1. Methods = F
  <2>1. [i \in DOMAIN program |-> IF program[i].kind = "struct" THEN [j \in DOMAIN program |-> MethodsOf(j)][i] ELSE <<>>] = g
    BY DEF Sources
  <2> QED  BY <2>1 DEF Methods, Each
<1>2. IsSeq(g) /\ Len(g) = n
  <2>1. PICK h : h = g  OBVIOUS
  <2>2. g = [i \in Sources |-> h[i]]  BY <2>1
  <2> HIDE DEF g
  <2> QED  BY <2>2, SourceSeq
<1>3. n \in Nat /\ Sources = 1..n  BY DEF ProgramIsSeq
<1>4. \A i \in 1..n : g[i] = IF program[i].kind = "struct" THEN MethodsOf(i) ELSE <<>>  BY <1>3
<1> HIDE DEF g
<1>5. ASSUME NEW i \in 1..n PROVE IsSeq(g[i]) /\ \A m \in 1..Len(g[i]) : MethodPiece(i, g[i][m])
  <2>1. IsSeq(<<>>) /\ 1..Len(<<>>) = {}  BY ShortSeqs
  <2>2. IsSeq(MethodsOf(i)) /\ 1..Len(MethodsOf(i)) = DOMAIN program[i].methods  BY <1>3, PrototypesAreSeqs
  <2> QED  BY <1>4, <2>1, <2>2 DEF MethodPiece
<1>7. IsSeq(F) /\ Joins(g, n, F)  BY <1>2, <1>5, Flattened
<1> HIDE DEF F
<1>8. ASSUME NEW k \in 1..Len(F) PROVE \E i \in Sources : MethodPiece(i, F[k])
  <2>1. PICK i \in 1..n : \E m \in 1..Len(g[i]) : Follows(g, F, k, i, m)  BY <1>7 DEF Joins
  <2>2. PICK m \in 1..Len(g[i]) : Follows(g, F, k, i, m)  BY <2>1
  <2> QED  BY <1>3, <1>5, <2>2 DEF Follows
<1> QED  BY <1>1, <1>7, <1>8 DEF MethodsWritten

-----------------------------------------------------------------------------
(* The bytes of a struct: its members do not overlap.                      *)
LEMMA Widths ==
  ASSUME NEW t PROVE Width(t) \in {1, 2, 4, 8, 16, 32} /\ Align(t) \in {1, 2, 4, 8}
<1>1. Width(t) \in {1, 2, 4, 8, 16, 32}  BY DEF Width
<1> QED  BY <1>1 DEF Align

\* Rounding up does not round down.
LEMMA RoundsUp ==
  ASSUME NEW n \in Nat, NEW a \in {1, 2, 4, 8} PROVE RoundUp(n, a) \in Nat /\ RoundUp(n, a) >= n
<1>1. CASE a = 1  BY <1>1 DEF RoundUp
<1>2. CASE a = 2  BY <1>2 DEF RoundUp
<1>3. CASE a = 4  BY <1>3 DEF RoundUp
<1>4. CASE a = 8  BY <1>4 DEF RoundUp
<1> QED  BY <1>1, <1>2, <1>3, <1>4

OffsetStep(types, off, j) ==
    off[j] = IF j = 1 THEN 0 ELSE RoundUp(off[j - 1] + Width(types[j - 1]), Align(types[j]))

\* The recursion of Offset, step by step.
LEMMA OffsetIs ==
  ASSUME NEW types, IsSeq(types)
  PROVE  \A j \in 1..Len(types) : OffsetStep(types, Offset(types), j)
<1> DEFINE n == Len(types)
           F == [j \in 1..n |-> [x \in Nat |-> IF j = 1 THEN 0 ELSE RoundUp(x + Width(types[j - 1]), Align(types[j]))]]
           off == Offset(types)
<1>0. n \in Nat  BY DEF IsSeq
<1>1. Steps(Nat, n, F)
  <2> SUFFICES ASSUME NEW j \in 1..n, NEW x \in Nat
               PROVE  (IF j = 1 THEN 0 ELSE RoundUp(x + Width(types[j - 1]), Align(types[j]))) \in Nat
    BY DEF Steps
  <2>1. x + Width(types[j - 1]) \in Nat /\ Align(types[j]) \in {1, 2, 4, 8}  BY Widths
  <2>2. RoundUp(x + Width(types[j - 1]), Align(types[j])) \in Nat  BY <2>1, RoundsUp
  <2> QED  BY <2>2
<1> HIDE DEF F
<1>2. PICK h : Iterates(Nat, n, 0, F, h)  BY <1>0, <1>1, Iterated
<1> DEFINE c == [j \in 1..n |-> h[j]]
<1>3. ASSUME NEW j \in 1..n PROVE OffsetStep(types, c, j)
  <2>1. h[j] = F[j][h[j - 1]] /\ j - 1 \in 0..n /\ h[j - 1] \in Nat  BY <1>0, <1>2 DEF Iterates
  <2>2. h[j] = IF j = 1 THEN 0 ELSE RoundUp(h[j - 1] + Width(types[j - 1]), Align(types[j]))  BY <2>1 DEF F
  <2>3. c[j] = h[j] /\ (j # 1 => j - 1 \in 1..n)  OBVIOUS
  <2>4. j # 1 => c[j - 1] = h[j - 1]  BY <2>3
  <2> HIDE DEF c
  <2> QED  BY <2>2, <2>3, <2>4 DEF OffsetStep
<1>4. c = [j \in 1..Len(types) |-> IF j = 1 THEN 0 ELSE RoundUp(c[j - 1] + Width(types[j - 1]), Align(types[j]))]
  <2>1. \A j \in 1..n : c[j] = IF j = 1 THEN 0 ELSE RoundUp(c[j - 1] + Width(types[j - 1]), Align(types[j]))
    BY <1>3 DEF OffsetStep
  <2>2. c = [j \in 1..n |-> c[j]]  OBVIOUS
  <2> HIDE DEF c
  <2> QED  BY <2>1, <2>2
<1>5. off = [j \in 1..Len(types) |-> IF j = 1 THEN 0 ELSE RoundUp(off[j - 1] + Width(types[j - 1]), Align(types[j]))]
  <2> HIDE DEF c
  <2> QED  BY <1>4 DEF Offset
<1> HIDE DEF off
<1> QED  BY <1>5 DEF OffsetStep, off

\* Each member begins behind the end of those before it.
LEMMA OffsetsGrow ==
  ASSUME NEW types, IsSeq(types)
  PROVE  /\ \A j \in 1..Len(types) : Offset(types)[j] \in Nat
         /\ \A j \in 1..Len(types) : \A i \in 1..j - 1 : Offset(types)[i] + Width(types[i]) <= Offset(types)[j]
<1> DEFINE n == Len(types)
           off == Offset(types)
<1>0. n \in Nat /\ \A j \in 1..n : OffsetStep(types, off, j)  BY OffsetIs DEF IsSeq
<1> HIDE DEF off, n
<1> DEFINE A == {j \in 0..n : /\ j # 0 => off[j] \in Nat
                              /\ \A i \in 1..j - 1 : off[i] \in Nat /\ off[i] + Width(types[i]) <= off[j]}
<1>1. 0 \in A  BY <1>0
<1>2. ASSUME NEW j \in 1..n, j - 1 \in A PROVE j \in A
  <2>1. CASE j = 1
    <3>1. off[1] = 0  BY <1>0, <2>1 DEF OffsetStep
    <3> QED  BY <2>1, <3>1
  <2>2. CASE j # 1
    <3>1. off[j] = RoundUp(off[j - 1] + Width(types[j - 1]), Align(types[j]))  BY <1>0, <2>2 DEF OffsetStep
    <3>2. off[j - 1] \in Nat /\ \A i \in 1..(j - 1) - 1 : off[i] \in Nat /\ off[i] + Width(types[i]) <= off[j - 1]
      BY <1>2, <2>2
    <3>3. off[j - 1] + Width(types[j - 1]) \in Nat /\ Align(types[j]) \in {1, 2, 4, 8}  BY <3>2, Widths
    <3>4. off[j] \in Nat /\ off[j] >= off[j - 1] + Width(types[j - 1])  BY <3>1, <3>3, RoundsUp
    <3>5. ASSUME NEW i \in 1..j - 1 PROVE off[i] \in Nat /\ off[i] + Width(types[i]) <= off[j]
      <4>1. i = j - 1 \/ i \in 1..(j - 1) - 1  OBVIOUS
      <4>2. Width(types[i]) \in Nat /\ Width(types[j - 1]) \in Nat  BY Widths
      <4>3. CASE i = j - 1  BY <3>2, <3>4, <4>3
      <4>4. CASE i \in 1..(j - 1) - 1
        <5>1. off[i] \in Nat /\ off[i] + Width(types[i]) <= off[j - 1]  BY <3>2, <4>4
        <5> QED  BY <3>2, <3>4, <4>2, <5>1
      <4> QED  BY <4>1, <4>3, <4>4
    <3> QED  BY <3>4, <3>5
  <2> QED  BY <2>1, <2>2
<1> HIDE DEF A
<1>3. 0..n \subseteq A  BY <1>0, <1>1, <1>2, UpTo
<1>4. \A j \in 1..n : j \in A /\ j # 0  BY <1>0, <1>3
<1> QED  BY <1>4 DEF A, n, off

\* What is written to a member is read from it.
LEMMA WrittenIs ==
  ASSUME NEW types, IsSeq(types), NEW values, NEW j \in 1..Len(types), NEW i \in 1..Width(types[j])
  PROVE  Written(types, values, Offset(types)[j] + i) = values[j][i]
<1> DEFINE off == Offset(types)
           b == off[j] + i
           at == {k \in DOMAIN types : b \in off[k] + 1 .. off[k] + Width(types[k])}
<1>1. DOMAIN types = 1..Len(types) /\ Len(types) \in Nat  BY DEF IsSeq
<1>2. \A k \in 1..Len(types) : off[k] \in Nat /\ Width(types[k]) \in Nat
  BY OffsetsGrow, Widths
<1>3. \A k \in 1..Len(types) : \A l \in 1..k - 1 : off[l] + Width(types[l]) <= off[k]  BY OffsetsGrow
<1> HIDE DEF off
<1>4. b \in Nat /\ b \in off[j] + 1 .. off[j] + Width(types[j]) /\ b - off[j] = i  BY <1>2
<1>5. ASSUME NEW k \in at PROVE k = j
  <2>1. k \in 1..Len(types) /\ b >= off[k] + 1 /\ b <= off[k] + Width(types[k])  BY <1>1, <1>2, <1>4
  <2>2. b >= off[j] + 1 /\ b <= off[j] + Width(types[j])  BY <1>2, <1>4
  <2>3. k < j => off[k] + Width(types[k]) <= off[j]  BY <1>1, <1>3, <2>1
  <2>4. j < k => off[j] + Width(types[j]) <= off[k]  BY <1>1, <1>3, <2>1
  <2> HIDE DEF b, at
  <2>5. off[k] \in Nat /\ Width(types[k]) \in Nat /\ off[j] \in Nat /\ Width(types[j]) \in Nat /\ b \in Nat
    BY <1>2, <1>4, <2>1
  <2>6. ~(k < j)  BY <2>1, <2>2, <2>3, <2>5
  <2>7. ~(j < k)  BY <2>1, <2>2, <2>4, <2>5
  <2>8. k \in Nat /\ j \in Nat  BY <1>1, <2>1
  <2> QED  BY <2>6, <2>7, <2>8
<1>6. at = {j}  BY <1>1, <1>4, <1>5
<1>7. Written(types, values, b) = values[j][b - off[j]]
  <2>1. Written(types, values, b) = IF at = {} THEN Garbage ELSE LET x == CHOOSE x \in at : TRUE IN values[x][b - off[x]]
    BY DEF Written, off
  <2>2. (CHOOSE x \in at : TRUE) = j  BY <1>6
  <2> HIDE DEF at, b
  <2> QED  BY <1>6, <2>1, <2>2
<1> QED  BY <1>4, <1>7 DEF off

-----------------------------------------------------------------------------
(* The arguments of one call.                                              *)
Typed(t) == /\ t \in Seq(STRING) \ {<<>>}
            /\ \A i \in 1..Len(t) - 1 : t[i] \in Outer \cup Containers

\* A scalar type is a single name.
LEMMA ScalarIs ==
  ASSUME NEW t, Typed(t), IsScalar(t)
  PROVE  \E x \in Scalars : t = <<x>>
<1>1. Len(t) \in Nat \ {0} /\ Head(t) = t[1] /\ t = [i \in 1..Len(t) |-> t[i]]  BY DEF Typed
<1>2. t[1] \in Scalars  BY <1>1 DEF IsScalar
<1>3. t[1] \notin Outer \cup Containers  BY <1>2 DEF Scalars, Outer, Containers
<1>4. Len(t) = 1  BY <1>1, <1>3 DEF Typed
<1>5. t = <<t[1]>>  BY <1>1, <1>4
<1> QED  BY <1>2, <1>5

CallArrives(args, params, call) ==
    /\ call.args = args /\ call.what = Marshal(args, params).what /\ call.types = Marshal(args, params).types
    /\ IsSeq(args) /\ IsSeq(params) /\ Len(args) = Len(params)
    /\ \A j \in 1..Len(args) : /\ Typed(args[j].type) /\ Typed(params[j])
                               /\ Assignable(args[j].type, params[j])
    /\ Exact(call, params)

\* How Marshal passes the arguments.
LEMMA MarshalIs ==
  ASSUME NEW args, NEW params
  PROVE  /\ Marshal(args, params).types = [j \in DOMAIN args |-> ArgType(args, params, j)]
         /\ Marshal(args, params).what = IF args = <<>> THEN "nothing"
                ELSE IF Len(args) > 1 THEN "struct"
                ELSE IF IsHandle([j \in DOMAIN args |-> ArgType(args, params, j)][1]) THEN "address"
                ELSE IF IsPointer([j \in DOMAIN args |-> ArgType(args, params, j)][1]) THEN "pointer" ELSE "box"
  BY DEF Marshal

(* What a call that is passed like a plain one reads: a member of the      *)
(* struct, of the type of the parameter, holds the argument in full.       *)
LEMMA ConvertIs ==
  ASSUME NEW a, NEW b, Assignable(a, b)
  PROVE  Convert(Bytes(0, a), a, b) = [i \in 1..Width(b) |-> Convert(Bytes(0, a), a, b)[i]]
<1>1. CASE a = b \/ ~IsScalar(a)
  <2>1. a = b  BY <1>1 DEF Assignable
  <2>2. Convert(Bytes(0, a), a, b) = Bytes(0, b)  BY <2>1 DEF Convert
  <2> QED  BY <2>2 DEF Bytes
<1>2. CASE ~(a = b \/ ~IsScalar(a)) /\ a = <<"f64">>
  <2>1. Convert(Bytes(0, a), a, b) = Bytes(20, b)  BY <1>2 DEF Convert
  <2> QED  BY <2>1 DEF Bytes
<1>3. CASE ~(a = b \/ ~IsScalar(a)) /\ a # <<"f64">> /\ b = <<"f64">>
  <2>1. Convert(Bytes(0, a), a, b) = Bytes(30, b)  BY <1>3 DEF Convert
  <2> QED  BY <2>1 DEF Bytes
<1>4. CASE ~(a = b \/ ~IsScalar(a)) /\ a # <<"f64">> /\ b # <<"f64">>
  <2>1. Convert(Bytes(0, a), a, b) = [i \in 1..Width(b) |-> IF i <= Width(a) THEN Bytes(0, a)[i] ELSE 0]
    BY <1>4 DEF Convert
  <2> QED  BY <2>1
<1> QED  BY <1>1, <1>2, <1>3, <1>4

\* A call without arguments.
LEMMA NothingArrives ==
  ASSUME NEW args, NEW params, NEW call, CallArrives(args, params, call), Len(args) = 0
  PROVE  Arrives(call, params)
<1>0. IsSeq(args) /\ IsSeq(params) /\ Len(params) = 0  BY DEF CallArrives
<1>1. args = <<>> /\ DOMAIN params = {} /\ Len(params) = 0  BY <1>0 DEF IsSeq
<1>2. call.what = "nothing"  BY <1>1, MarshalIs DEF CallArrives
<1> QED  BY <1>1, <1>2 DEF Arrives, Packs, Unpacks

\* A call with several arguments.
LEMMA StructArrives ==
  ASSUME NEW args, NEW params, NEW call, CallArrives(args, params, call), Len(args) > 1
  PROVE  Arrives(call, params)
<1> DEFINE n == Len(args)
<1>1. /\ n \in Nat /\ n > 1 /\ DOMAIN args = 1..n /\ DOMAIN params = 1..n /\ Len(params) = n /\ args # <<>>
      /\ params = [j \in 1..n |-> params[j]] /\ call.args = args
  BY DEF CallArrives, IsSeq
<1>2. call.what = "struct"  BY <1>1, MarshalIs DEF CallArrives
<1>3. ASSUME NEW j \in 1..n
      PROVE  /\ ~args[j].give /\ ~IsHandle(params[j]) /\ Assignable(args[j].type, params[j])
             /\ args[j].known => args[j].type = params[j]
  BY <1>1 DEF CallArrives, Exact
<1>4. call.types = params
  <2>1. call.types = [j \in 1..n |-> ArgType(args, params, j)]  BY <1>1, MarshalIs DEF CallArrives
  <2>2. \A j \in 1..n : ArgType(args, params, j) = params[j]  BY <1>1, <1>3 DEF ArgType
  <2> QED  BY <1>1, <2>1, <2>2
<1>5. Packs(call)  BY <1>1, <1>2, <1>3, <1>4 DEF Packs
<1>6. Unpacks(params)  BY <1>1 DEF Unpacks
<1>7. ASSUME NEW j \in 1..n
      PROVE  Received(call, params, j) = Convert(Bytes(0, args[j].type), args[j].type, params[j])
  <2> DEFINE values == Packed(call)
  <2>1. values[j] = Convert(Bytes(0, args[j].type), args[j].type, params[j])
    <3>1. values = [l \in 1..n |-> Convert(Value(args[l]), args[l].type, params[l])]
      BY <1>1, <1>2, <1>4 DEF Packed
    <3>2. Value(args[j]) = Bytes(0, args[j].type)  BY <1>3 DEF Value
    <3> QED  BY <3>1, <3>2
  <2> HIDE DEF values
  <2>2. Received(call, params, j) = [i \in 1..Width(params[j]) |-> Written(params, values, Offset(params)[j] + i)]
    BY <1>2, <1>4 DEF Received, values
  <2>3. \A i \in 1..Width(params[j]) : Written(params, values, Offset(params)[j] + i) = values[j][i]
    <3>1. IsSeq(params)  BY DEF CallArrives
    <3> QED  BY <1>1, <3>1, WrittenIs
  <2>4. Received(call, params, j) = [i \in 1..Width(params[j]) |-> values[j][i]]  BY <2>2, <2>3
  <2>5. values[j] = [i \in 1..Width(params[j]) |-> values[j][i]]
    <3>1. PICK a, b : a = args[j].type /\ b = params[j]  OBVIOUS
    <3>2. Assignable(a, b)  BY <1>3, <3>1
    <3>3. PICK v : v = Convert(Bytes(0, a), a, b)  OBVIOUS
    <3>4. v = [i \in 1..Width(b) |-> v[i]]  BY <3>2, <3>3, ConvertIs
    <3> QED  BY <2>1, <3>1, <3>3, <3>4
  <2> QED  BY <2>1, <2>4, <2>5
<1> QED  BY <1>1, <1>5, <1>6, <1>7 DEF Arrives

\* What is known of a call with one argument.
LEMMA OneArgument ==
  ASSUME NEW args, NEW params, NEW call, CallArrives(args, params, call), Len(args) = 1
  PROVE  /\ DOMAIN args = {1} /\ DOMAIN params = {1} /\ Len(params) = 1 /\ args # <<>> /\ call.args = args
         /\ Typed(args[1].type) /\ Typed(params[1]) /\ Assignable(args[1].type, params[1])
         /\ ~args[1].give /\ ~IsHandle(params[1])
         /\ params[1] \in {<<"i8">>, <<"i16">>, <<"i32">>} \/ Head(params[1]) = "raw"
         /\ LET t == IF args[1].known THEN args[1].type ELSE params[1]
            IN  call.what = IF IsHandle(t) THEN "address" ELSE IF IsPointer(t) THEN "pointer" ELSE "box"
<1>1. IsSeq(args) /\ IsSeq(params) /\ Len(params) = 1 /\ call.args = args
      /\ call.what = Marshal(args, params).what /\ Exact(call, params)
  BY DEF CallArrives
<1>9. DOMAIN args = 1..Len(args) /\ DOMAIN params = 1..Len(params) /\ (args = <<>> => Len(args) = 0)
  <2>1. args \in Seq(Range(args)) /\ params \in Seq(Range(params))  BY <1>1 DEF IsSeq
  <2> QED  BY <2>1
<1>2. DOMAIN args = {1} /\ DOMAIN params = {1} /\ args # <<>> /\ 1 \in 1..Len(args)  BY <1>1, <1>9
<1>3. Typed(args[1].type) /\ Typed(params[1]) /\ Assignable(args[1].type, params[1])
  BY <1>2 DEF CallArrives
<1>4. /\ ~args[1].give /\ ~IsHandle(params[1])
      /\ params[1] \in {<<"i8">>, <<"i16">>, <<"i32">>} \/ Head(params[1]) = "raw"
  BY <1>1, <1>2 DEF Exact
<1>5. PICK t : t = IF args[1].known THEN args[1].type ELSE params[1]  OBVIOUS
<1>6. PICK types : types = [j \in DOMAIN args |-> ArgType(args, params, j)]  OBVIOUS
<1>8. types[1] = t  BY <1>1, <1>2, <1>5, <1>6 DEF ArgType
<1>10. Marshal(args, params).what = IF args = <<>> THEN "nothing" ELSE IF Len(args) > 1 THEN "struct"
                ELSE IF IsHandle(types[1]) THEN "address" ELSE IF IsPointer(types[1]) THEN "pointer" ELSE "box"
  BY <1>6, MarshalIs
<1>7. call.what = IF IsHandle(t) THEN "address" ELSE IF IsPointer(t) THEN "pointer" ELSE "box"
  BY <1>1, <1>2, <1>8, <1>10
<1> QED  BY <1>1, <1>2, <1>3, <1>4, <1>5, <1>7

\* One argument for a pointer.
LEMMA PointerArrives ==
  ASSUME NEW args, NEW params, NEW call, CallArrives(args, params, call), Len(args) = 1,
         Head(params[1]) = "raw"
  PROVE  Arrives(call, params)
<1> DEFINE a == args[1].type
<1>1. /\ DOMAIN params = {1} /\ Len(params) = 1 /\ call.args = args /\ Assignable(a, params[1]) /\ ~args[1].give
      /\ DOMAIN args = {1}
      /\ LET t == IF args[1].known THEN a ELSE params[1]
         IN  call.what = IF IsHandle(t) THEN "address" ELSE IF IsPointer(t) THEN "pointer" ELSE "box"
  BY OneArgument
<1>2. a = params[1]  BY <1>1 DEF Assignable, IsScalar, Scalars
<1>3. call.what = "pointer"  BY <1>1, <1>2 DEF IsHandle, IsPointer, Containers
<1>4. Packs(call) /\ Unpacks(params)  BY <1>1, <1>2, <1>3 DEF Packs, Unpacks
<1>5. Packed(call) = [j \in {1} |-> Value(args[j])]  BY <1>1, <1>3 DEF Packed
<1>6. Received(call, params, 1) = Bytes(0, a)  BY <1>1, <1>3, <1>5 DEF Received, Value
<1>7. Convert(Bytes(0, a), a, params[1]) = Bytes(0, a)  BY <1>2 DEF Convert
<1> QED  BY <1>1, <1>4, <1>6, <1>7 DEF Arrives

\* One argument that is not for a pointer.
LEMMA BoxArrives ==
  ASSUME NEW args, NEW params, NEW call, CallArrives(args, params, call), Len(args) = 1,
         Head(params[1]) # "raw"
  PROVE  Arrives(call, params)
<1> DEFINE a == args[1].type
           p == params[1]
           int == <<"i32">>
<1>1. /\ DOMAIN params = {1} /\ Len(params) = 1 /\ call.args = args /\ Assignable(a, p) /\ ~args[1].give
      /\ p \in {<<"i8">>, <<"i16">>, <<"i32">>} /\ Typed(a) /\ Typed(p)
      /\ LET t == IF args[1].known THEN a ELSE p
         IN  call.what = IF IsHandle(t) THEN "address" ELSE IF IsPointer(t) THEN "pointer" ELSE "box"
  BY OneArgument
<1>2. Head(p) \in {"i8", "i16", "i32"} /\ Head(int) = "i32" /\ int[1] = "i32"  BY <1>1
<1>3. IsScalar(a) /\ IsScalar(p) /\ IsScalar(int)  BY <1>1, <1>2 DEF Assignable, IsScalar, Scalars
<1>4. call.what = "box"
  <2>1. \A t : IsScalar(t) => ~IsHandle(t) /\ ~IsPointer(t)  BY DEF IsScalar, IsHandle, IsPointer, Scalars, Containers
  <2> HIDE DEF a, p
  <2> QED  BY <1>1, <1>3, <2>1
<1>5. Packs(call)  BY <1>1, <1>3, <1>4 DEF Packs, Assignable
<1>6. Unpacks(params)  BY <1>2 DEF Unpacks
<1>7. PICK x \in Scalars : a = <<x>>  BY <1>1, <1>3, ScalarIs
<1> DEFINE v == Convert(Bytes(0, a), a, int)
<1>8. Packed(call) = <<v>>
  <2>1. Value(args[1]) = Bytes(0, a)  BY <1>1 DEF Value
  <2> QED  BY <1>1, <1>4, <2>1 DEF Packed
<1>90. ~IsHandle(int) /\ ~IsHandle(p)  BY <1>2 DEF IsHandle, Containers
<1>9. Width(int) = 4
  <2>1. int[1] = "i32"  OBVIOUS
  <2> HIDE DEF int
  <2> QED  BY <1>90, <2>1 DEF Width
<1>10. Width(p) \in 1..4
  <2>1. p[1] = "i8" \/ p[1] = "i16" \/ p[1] = "i32"  BY <1>1
  <2> HIDE DEF p
  <2> QED  BY <1>90, <2>1 DEF Width
<1>11. ASSUME NEW i \in 1..4 PROVE Written(<<int>>, <<v>>, i) = v[i]
  <2>1. IsSeq(<<int>>) /\ Len(<<int>>) = 1 /\ <<int>>[1] = int  BY ShortSeqs
  <2>2. PICK types : types = <<int>>  OBVIOUS
  <2>3. IsSeq(types) /\ Len(types) = 1 /\ types[1] = int /\ 1 \in 1..Len(types) /\ i \in 1..Width(types[1])
    BY <1>9, <2>1, <2>2
  <2>4. Offset(types)[1] = 0  BY <2>3, OffsetIs DEF OffsetStep
  <2> HIDE DEF v, int
  <2>5. Written(types, <<v>>, Offset(types)[1] + i) = <<v>>[1][i]  BY <2>3, WrittenIs
  <2>6. <<v>>[1] = v /\ 0 + i = i  OBVIOUS
  <2> QED  BY <2>2, <2>4, <2>5, <2>6
<1>12. Received(call, params, 1) = [i \in 1..Width(p) |-> Written(<<int>>, <<v>>, i)]
  BY <1>4, <1>8 DEF Received
<1>13. Received(call, params, 1) = [i \in 1..Width(p) |-> v[i]]
  <2>1. \A i \in 1..Width(p) : i \in 1..4  BY <1>10
  <2> HIDE DEF v, p, int
  <2> QED  BY <1>11, <1>12, <2>1
<1>14. Convert(Bytes(0, a), a, p) = [i \in 1..Width(p) |-> v[i]]
  <2>0. a[1] = x /\ p \in {<<"i8">>, <<"i16">>, <<"i32">>}  BY <1>1, <1>7
  <2>1. CASE x = "f64"
    <3>1. a # p /\ a # int /\ a = <<"f64">>  BY <1>1, <1>7, <2>1
    <3>2. Convert(Bytes(0, a), a, p) = Bytes(20, p) /\ v = Bytes(20, int)  BY <1>3, <3>1 DEF Convert
    <3>3. \A i \in 1..Width(p) : i \in 1..Width(int)  BY <1>9, <1>10
    <3> HIDE DEF v, p, int, a
    <3> QED  BY <3>2, <3>3 DEF Bytes
  <2>2. CASE x # "f64"
    <3>1. a # <<"f64">> /\ p # <<"f64">> /\ int # <<"f64">>  BY <1>1, <1>7, <2>2
    <3>2. ASSUME NEW b, b # <<"f64">>, Width(b) \in Nat
          PROVE  Convert(Bytes(0, a), a, b) = [i \in 1..Width(b) |-> IF i <= Width(a) THEN i ELSE 0]
      <4>1. CASE a = b
        <5>1. Convert(Bytes(0, a), a, b) = Bytes(0, b)  BY <4>1 DEF Convert
        <5> HIDE DEF a
        <5>2. \A i \in 1..Width(b) : 0 + i = i /\ i <= Width(b)  BY <3>2
        <5> QED  BY <4>1, <5>1, <5>2 DEF Bytes
      <4>2. CASE a # b
        <5>1. Convert(Bytes(0, a), a, b) = [i \in 1..Width(b) |-> IF i <= Width(a) THEN Bytes(0, a)[i] ELSE 0]
          BY <1>3, <3>1, <3>2, <4>2 DEF Convert
        <5>2. Width(a) \in Nat  BY Widths
        <5> HIDE DEF a
        <5>3. \A i \in 1..Width(b) : i <= Width(a) => Bytes(0, a)[i] = i  BY <3>2, <5>2 DEF Bytes
        <5> QED  BY <5>1, <5>3
      <4> QED  BY <4>1, <4>2
    <3>3. Width(p) \in Nat /\ Width(int) \in Nat  BY <1>9, <1>10
    <3>4. /\ Convert(Bytes(0, a), a, p) = [i \in 1..Width(p) |-> IF i <= Width(a) THEN i ELSE 0]
          /\ v = [i \in 1..Width(int) |-> IF i <= Width(a) THEN i ELSE 0]
      BY <3>1, <3>2, <3>3
    <3>5. \A i \in 1..Width(p) : i \in 1..Width(int)  BY <1>9, <1>10
    <3> HIDE DEF v, p, int, a
    <3> QED  BY <3>4, <3>5
  <2> QED  BY <2>1, <2>2
<1> HIDE DEF v, p, int, a
<1>15. Received(call, params, 1) = Convert(Bytes(0, a), a, p)  BY <1>13, <1>14
<1> QED  BY <1>1, <1>5, <1>6, <1>15 DEF Arrives, a, p

\* The arguments of every such call arrive.
LEMMA CallsArrive ==
  ASSUME NEW args, NEW params, NEW call, CallArrives(args, params, call)
  PROVE  Arrives(call, params)
<1>1. IsSeq(args)  BY DEF CallArrives
<1>3. PICK n \in Nat : n = Len(args)  BY <1>1 DEF IsSeq
<1>4. n = 0 \/ n = 1 \/ n > 1  OBVIOUS
<1>2. Len(args) = 0 \/ Len(args) = 1 \/ Len(args) > 1  BY <1>3, <1>4
<1> QED  BY <1>2, NothingArrives, StructArrives, PointerArrives, BoxArrives

-----------------------------------------------------------------------------
(* The storage of the fields of a struct.                                  *)
Place(hot, laid, f) == IF hot THEN HotSlot(laid, f) ELSE Slot(laid, f)
Laying(hot, fields) ==
    CHOOSE laid : laid = [n \in 0..Len(fields) |-> IF n = 0 THEN Nothing ELSE Place(hot, laid[n - 1], fields[n])]
Storage == [slots : Seq(Nat), open : BOOLEAN, last : Nat]

\* Slots and HotSlots, with their local function named.
LEMMA Layings ==
  ASSUME NEW fields
  PROVE  /\ Slots(fields) = Laying(FALSE, fields)[Len(fields)].slots
         /\ HotSlots(fields) = Laying(TRUE, fields)[Len(fields)].slots
  BY DEF Slots, HotSlots, Laying, Place

\* A field that is put adds one slot.
LEMMA PutIs ==
  ASSUME NEW laid \in Storage, NEW slot \in Nat, NEW open \in BOOLEAN, NEW last \in Nat
  PROVE  /\ Put(laid, slot, open, last) \in Storage
         /\ Put(laid, slot, open, last).slots = Append(laid.slots, slot)
         /\ Put(laid, slot, open, last).open = open
         /\ Put(laid, slot, open, last).last = last
  BY DEF Put, Storage

\* A field goes on with the open union, or begins storage of its own.
LEMMA PlaceIs ==
  ASSUME NEW hot \in BOOLEAN, NEW laid \in Storage, NEW f \in Field
  PROVE  /\ ~(hot /\ f.anonymous) => Place(hot, laid, f) =
               IF Overlaps(f) /\ laid.open THEN Put(laid, laid.last, TRUE, laid.last)
               ELSE Put(laid, Fresh(laid), Overlaps(f), Fresh(laid))
         /\ Place(hot, laid, f) \in Storage
<1>1. f.union \in BOOLEAN /\ f.anonymous \in BOOLEAN  BY DEF Field
<1>2. laid.last \in Nat /\ laid.open \in BOOLEAN /\ Fresh(laid) \in Nat /\ laid.slots \in Seq(Nat)  BY DEF Storage, Fresh
<1>3. Member(laid, f) \in Storage  BY <1>1, <1>2, PutIs DEF Member
<1>4. CASE ~f.anonymous
  <2>1. Place(hot, laid, f) = Member(laid, f)  BY <1>4 DEF Place, Slot, HotSlot
  <2>2. Overlaps(f) = f.union  BY <1>1, <1>4 DEF Overlaps
  <2>3. Member(laid, f) = IF Overlaps(f) /\ laid.open THEN Put(laid, laid.last, TRUE, laid.last)
                          ELSE Put(laid, Fresh(laid), Overlaps(f), Fresh(laid))
    BY <1>1, <2>2 DEF Member
  <2> QED  BY <1>3, <2>1, <2>3
<1>5. CASE f.anonymous /\ ~hot
  <2>1. ~Overlaps(f)  BY <1>5 DEF Overlaps
  <2>2. Place(hot, laid, f) = Put(laid, Fresh(laid), FALSE, Fresh(laid))  BY <1>5 DEF Place, Slot
  <2>3. Place(hot, laid, f) \in Storage  BY <1>2, <2>2, PutIs
  <2>4. Overlaps(f) = FALSE  BY <2>1 DEF Overlaps
  <2> QED  BY <2>2, <2>3, <2>4
<1>6. CASE f.anonymous /\ hot
  <2>1. Place(hot, laid, f) = [Member(laid, f) EXCEPT !.slots = Append(laid.slots, 0)]
    BY <1>6 DEF Place, HotSlot
  <2>2. Append(laid.slots, 0) \in Seq(Nat)  BY <1>2
  <2>3. Place(hot, laid, f) \in Storage  BY <1>3, <2>1, <2>2 DEF Storage
  <2> QED  BY <1>6, <2>3
<1> QED  BY <1>4, <1>5, <1>6

\* The recursion of Slots, step by step.
LEMMA LayingIs ==
  ASSUME NEW hot \in BOOLEAN, NEW fields \in Seq(Field)
  PROVE  /\ Laying(hot, fields)[0] = Nothing
         /\ \A n \in 0..Len(fields) : Laying(hot, fields)[n] \in Storage
         /\ \A n \in 1..Len(fields) : Laying(hot, fields)[n] = Place(hot, Laying(hot, fields)[n - 1], fields[n])
<1> DEFINE N == Len(fields)
           F == [n \in 1..N |-> [x \in Storage |-> Place(hot, x, fields[n])]]
           laid == Laying(hot, fields)
<1>0. N \in Nat /\ \A n \in 1..N : fields[n] \in Field  OBVIOUS
<1>1. Steps(Storage, N, F)
  <2> SUFFICES ASSUME NEW n \in 1..N, NEW x \in Storage PROVE Place(hot, x, fields[n]) \in Storage  BY DEF Steps
  <2> QED  BY <1>0, PlaceIs
<1>2. Nothing \in Storage  BY DEF Nothing, Storage
<1> HIDE DEF F
<1>3. PICK h : Iterates(Storage, N, Nothing, F, h)  BY <1>0, <1>1, <1>2, Iterated
<1>4. /\ h[0] = Nothing /\ h = [n \in 0..N |-> h[n]]
      /\ \A n \in 1..N : n - 1 \in 0..N /\ h[n - 1] \in Storage /\ h[n] = F[n][h[n - 1]]
  BY <1>0, <1>3 DEF Iterates
<1>5. \A n \in 1..N : h[n] = Place(hot, h[n - 1], fields[n])  BY <1>4 DEF F
<1>6. h = [n \in 0..Len(fields) |-> IF n = 0 THEN Nothing ELSE Place(hot, h[n - 1], fields[n])]
  <2>1. \A n \in 0..N : h[n] = IF n = 0 THEN Nothing ELSE Place(hot, h[n - 1], fields[n])  BY <1>4, <1>5
  <2> QED  BY <1>4, <2>1
<1>7. laid = [n \in 0..Len(fields) |-> IF n = 0 THEN Nothing ELSE Place(hot, laid[n - 1], fields[n])]
  BY <1>6 DEF Laying
<1> HIDE DEF laid
<1>8. laid[0] = Nothing  BY <1>0, <1>7
<1>9. \A n \in 1..N : laid[n] = Place(hot, laid[n - 1], fields[n])  BY <1>0, <1>7
<1> DEFINE A == {n \in 0..N : laid[n] \in Storage}
<1>10. 0 \in A  BY <1>0, <1>2, <1>8
<1>11. ASSUME NEW n \in 1..N, n - 1 \in A PROVE n \in A
  <2>1. PICK x, f : x = laid[n - 1] /\ f = fields[n]  OBVIOUS
  <2>2. x \in Storage /\ f \in Field  BY <1>0, <1>11, <2>1
  <2>3. Place(hot, x, f) \in Storage  BY <2>2, PlaceIs
  <2> QED  BY <1>0, <1>9, <2>1, <2>3
<1> HIDE DEF A
<1>12. 0..N \subseteq A  BY <1>0, <1>10, <1>11, UpTo
<1> QED  BY <1>8, <1>9, <1>12 DEF A, laid

(* The fields up to j that begin storage of their own.                     *)
Begins(fields, j) == {i \in 1..j : ~(i > 1 /\ Overlaps(fields[i]) /\ Overlaps(fields[i - 1]))}

\* One more field begins storage, or overlaps the one before.
LEMMA BeginsStep ==
  ASSUME NEW fields, NEW j \in Nat \ {0}
  PROVE  /\ Cardinality(Begins(fields, j)) \in Nat /\ Cardinality(Begins(fields, j - 1)) \in Nat
         /\ Cardinality(Begins(fields, j)) =
               Cardinality(Begins(fields, j - 1)) +
               (IF j > 1 /\ Overlaps(fields[j]) /\ Overlaps(fields[j - 1]) THEN 0 ELSE 1)
<1>1. j \in Nat /\ j - 1 \in Nat  OBVIOUS
<1>2. \A n \in Nat : IsFiniteSet(Begins(fields, n))
  <2> SUFFICES ASSUME NEW n \in Nat PROVE IsFiniteSet(Begins(fields, n))  OBVIOUS
  <2>1. IsFiniteSet(1..n)  BY FS_Interval
  <2>2. Begins(fields, n) \subseteq 1..n  BY DEF Begins
  <2> QED  BY <2>1, <2>2, FS_Subset
<1>3. IsFiniteSet(Begins(fields, j)) /\ IsFiniteSet(Begins(fields, j - 1))  BY <1>1, <1>2
<1>4. Cardinality(Begins(fields, j)) \in Nat /\ Cardinality(Begins(fields, j - 1)) \in Nat
  BY <1>3, FS_CardinalityType
<1>5. CASE j > 1 /\ Overlaps(fields[j]) /\ Overlaps(fields[j - 1])
  <2>1. Begins(fields, j) = Begins(fields, j - 1)  BY <1>5 DEF Begins
  <2> QED  BY <1>4, <1>5, <2>1
<1>6. CASE ~(j > 1 /\ Overlaps(fields[j]) /\ Overlaps(fields[j - 1]))
  <2>1. Begins(fields, j) = Begins(fields, j - 1) \cup {j}  BY <1>6 DEF Begins
  <2>2. j \notin Begins(fields, j - 1)  BY DEF Begins
  <2>3. Cardinality(Begins(fields, j - 1) \cup {j}) = Cardinality(Begins(fields, j - 1)) + 1
    BY <1>3, <2>2, FS_AddElement
  <2> QED  BY <1>4, <1>6, <2>1, <2>3
<1> QED  BY <1>4, <1>5, <1>6

LaidUpto(fields, n) == [j \in 1..n |-> Cardinality(Begins(fields, j))]
AsLaid(fields, n, x) ==
    /\ x.slots = LaidUpto(fields, n)
    /\ x.last = IF n = 0 THEN 0 ELSE Cardinality(Begins(fields, n))
    /\ x.open <=> (n > 0 /\ Overlaps(fields[n]))

\* One more field is laid out as declared.
LEMMA LaidStep ==
  ASSUME NEW fields \in Seq(Field), NEW n \in 1..Len(fields), NEW hot \in BOOLEAN,
         ~(hot /\ fields[n].anonymous), NEW x \in Storage, AsLaid(fields, n - 1, x)
  PROVE  AsLaid(fields, n, Place(hot, x, fields[n]))
<1> DEFINE c == Cardinality(Begins(fields, n))
           b == Cardinality(Begins(fields, n - 1))
           f == fields[n]
<1>1. n \in Nat \ {0} /\ f \in Field /\ n - 1 \in Nat  OBVIOUS
<1>2. c \in Nat /\ b \in Nat /\ c = b + (IF n > 1 /\ Overlaps(f) /\ Overlaps(fields[n - 1]) THEN 0 ELSE 1)
  BY <1>1, BeginsStep
<1>3. n = 1 => b = 0
  <2>1. Begins(fields, 0) = {}  BY DEF Begins
  <2>2. Cardinality({}) = 0  BY FS_EmptySet
  <2>3. n = 1 => n - 1 = 0  OBVIOUS
  <2>4. n = 1 => Begins(fields, n - 1) = {}  BY <2>1, <2>3
  <2> QED  BY <2>2, <2>4
<1>4. x.last = b /\ (x.open <=> (n > 1 /\ Overlaps(fields[n - 1]))) /\ x.slots = LaidUpto(fields, n - 1)
  <2>1. x.last = IF n - 1 = 0 THEN 0 ELSE b  BY DEF AsLaid
  <2>2. x.open <=> (n - 1 > 0 /\ Overlaps(fields[n - 1]))  BY DEF AsLaid
  <2>3. x.slots = LaidUpto(fields, n - 1)  BY DEF AsLaid
  <2>4. (n - 1 = 0 <=> n = 1) /\ (n - 1 > 0 <=> n > 1)  BY <1>1
  <2> HIDE DEF b
  <2> QED  BY <1>3, <2>1, <2>2, <2>3, <2>4
<1>5. Place(hot, x, f) = IF Overlaps(f) /\ x.open THEN Put(x, x.last, TRUE, x.last)
                         ELSE Put(x, Fresh(x), Overlaps(f), Fresh(x))
  BY <1>1, PlaceIs
<1>6. x.last \in Nat /\ Fresh(x) = x.last + 1  BY DEF Storage, Fresh
<1> HIDE DEF b, c, f
<1>7. Place(hot, x, f) = Put(x, c, Overlaps(f), c)
  <2>1. Overlaps(f) \in BOOLEAN  BY <1>1 DEF Overlaps, Field
  <2>2. CASE Overlaps(f) /\ x.open
    <3>1. c = x.last /\ Overlaps(f) = TRUE  BY <1>2, <1>4, <2>1, <2>2
    <3> QED  BY <1>5, <2>2, <3>1
  <2>3. CASE ~(Overlaps(f) /\ x.open)
    <3>1. c = Fresh(x)  BY <1>2, <1>4, <1>6, <2>3
    <3> QED  BY <1>5, <2>3, <3>1
  <2> QED  BY <2>2, <2>3
<1>8. Overlaps(f) \in BOOLEAN  BY <1>1 DEF Overlaps, Field
<1>9. /\ Place(hot, x, f).slots = Append(LaidUpto(fields, n - 1), c)
      /\ Place(hot, x, f).open = Overlaps(f)
      /\ Place(hot, x, f).last = c
  <2>1. PICK o \in BOOLEAN : o = Overlaps(f)  BY <1>8
  <2>3. PICK p : p = Put(x, c, o, c)  OBVIOUS
  <2>4. p = [slots |-> Append(x.slots, c), open |-> o, last |-> c]  BY <2>3 DEF Put
  <2>2. /\ Put(x, c, o, c).slots = Append(x.slots, c)
        /\ Put(x, c, o, c).open = o /\ Put(x, c, o, c).last = c
    BY <2>3, <2>4
  <2> QED  BY <1>4, <1>7, <2>1, <2>2
<1>10. Append(LaidUpto(fields, n - 1), c) = LaidUpto(fields, n)
  <2>1. LaidUpto(fields, n - 1) \in Seq(Nat) /\ Len(LaidUpto(fields, n - 1)) = n - 1
    <3>1. \A j \in 1..n - 1 : Cardinality(Begins(fields, j)) \in Nat  BY BeginsStep
    <3> QED  BY <1>1, <3>1 DEF LaidUpto
  <2>2. \A j \in 1..n : (j = n \/ j \in 1..n - 1)  BY <1>1
  <2> QED  BY <1>1, <2>1, <2>2 DEF LaidUpto, c
<1>11. n # 0 /\ n > 0  BY <1>1
<1> QED  BY <1>9, <1>10, <1>11 DEF AsLaid, c, f

\* All fields are laid out as declared.
LEMMA LaidAsDeclared ==
  ASSUME NEW fields \in Seq(Field), NEW hot \in BOOLEAN, \A j \in DOMAIN fields : ~(hot /\ fields[j].anonymous)
  PROVE  Laying(hot, fields)[Len(fields)].slots = Laid(fields)
<1> DEFINE N == Len(fields)
           laid == Laying(hot, fields)
           A == {n \in 0..N : AsLaid(fields, n, laid[n])}
<1>0. N \in Nat /\ DOMAIN fields = 1..N  OBVIOUS
<1>1. /\ laid[0] = Nothing
      /\ \A n \in 0..N : laid[n] \in Storage
      /\ \A n \in 1..N : laid[n] = Place(hot, laid[n - 1], fields[n])
  BY LayingIs
<1> HIDE DEF laid
<1>2. 0 \in A
  <2>1. LaidUpto(fields, 0) = <<>>  BY DEF LaidUpto
  <2> QED  BY <1>0, <1>1, <2>1 DEF AsLaid, Nothing
<1>3. ASSUME NEW n \in 1..N, n - 1 \in A PROVE n \in A
  <2>1. AsLaid(fields, n - 1, laid[n - 1]) /\ laid[n - 1] \in Storage  BY <1>1, <1>3
  <2>2. AsLaid(fields, n, Place(hot, laid[n - 1], fields[n]))  BY <1>0, <2>1, LaidStep
  <2> QED  BY <1>1, <2>2
<1> HIDE DEF A
<1>4. 0..N \subseteq A  BY <1>0, <1>2, <1>3, UpTo
<1>5. AsLaid(fields, N, laid[N])  BY <1>0, <1>4 DEF A
<1>6. LaidUpto(fields, N) = Laid(fields)  BY <1>0 DEF LaidUpto, Laid, Begins
<1> QED  BY <1>5, <1>6 DEF AsLaid, laid

-----------------------------------------------------------------------------
(* The blocks of a body, level by level.                                   *)
Inside(blocks, alts) ==
    UNION {UNION {{b[i].body} \cup (IF alts THEN {b[i].alt} ELSE {}) : i \in DOMAIN b} : b \in blocks}
Level(body, alts) == CHOOSE f : f = [n \in 0..Nesting |-> IF n = 0 THEN {body} ELSE Inside(f[n - 1], alts)]
Levelled(f, body, alts, m) ==
    /\ f = [n \in 0..m |-> f[n]] /\ f[0] = {body}
    /\ \A n \in 1..m : f[n] = Inside(f[n - 1], alts)

\* Blocks, with its local function named.
LEMMA BlocksAre ==
  ASSUME NEW body, NEW alts PROVE Blocks(body, alts) = UNION {Level(body, alts)[n] : n \in 0..Nesting}
  BY DEF Blocks, Level, Inside

\* Such a function is the only one.
LEMMA LevelledIs ==
  ASSUME NEW f, NEW body, NEW alts, NEW m \in Nat, Levelled(f, body, alts, m)
  PROVE  f = [n \in 0..m |-> IF n = 0 THEN {body} ELSE Inside(f[n - 1], alts)]
<1>0. f[0] = {body} /\ \A n \in 1..m : f[n] = Inside(f[n - 1], alts)  BY DEF Levelled
<1>3. \A n \in 0..m : n = 0 \/ n \in 1..m  OBVIOUS
<1>1. \A n \in 0..m : f[n] = IF n = 0 THEN {body} ELSE Inside(f[n - 1], alts)  BY <1>0, <1>3
<1>2. f = [n \in 0..m |-> f[n]]  BY DEF Levelled
<1> QED  BY <1>1, <1>2

\* The blocks of a level are those in the blocks of the level above.
LEMMA LevelIs ==
  ASSUME NEW body, NEW alts
  PROVE  /\ Level(body, alts)[0] = {body}
         /\ \A n \in 1..Nesting : Level(body, alts)[n] = Inside(Level(body, alts)[n - 1], alts)
<1> DEFINE A == {m \in 0..Nesting : \E f : Levelled(f, body, alts, m)}
<1>0. Nesting \in Nat  BY NestingAssumption
<1>1. 0 \in A
  <2> DEFINE f == [n \in 0..0 |-> {body}]
  <2>1. f[0] = {body} /\ f = [n \in 0..0 |-> f[n]]  OBVIOUS
  <2> HIDE DEF f
  <2>2. Levelled(f, body, alts, 0)  BY <2>1 DEF Levelled
  <2> QED  BY <1>0, <2>2
<1>2. ASSUME NEW m \in 1..Nesting, m - 1 \in A PROVE m \in A
  <2>1. PICK f : Levelled(f, body, alts, m - 1)  BY <1>2
  <2>2. PICK top : top = Inside(f[m - 1], alts)  OBVIOUS
  <2> DEFINE g == [n \in 0..m |-> IF n = m THEN top ELSE f[n]]
  <2>3. /\ m \in Nat /\ m # 0 /\ m \in 0..m /\ \A n \in 1..m : n \in 0..m /\ n - 1 \in 0..m /\ n - 1 # m
        /\ \A n \in 1..m : n = m \/ n \in 1..(m - 1)
    BY <1>0
  <2>4. g[m] = top /\ g = [n \in 0..m |-> g[n]] /\ \A n \in 0..m : n # m => g[n] = f[n]  BY <2>3
  <2>5. f[0] = {body} /\ \A n \in 1..(m - 1) : f[n] = Inside(f[n - 1], alts)  BY <2>1 DEF Levelled
  <2> HIDE DEF g
  <2>6. g[0] = {body}  BY <2>3, <2>4, <2>5
  <2>7. ASSUME NEW n \in 1..m PROVE g[n] = Inside(g[n - 1], alts)
    <3>1. g[n - 1] = f[n - 1]  BY <2>3, <2>4
    <3>2. CASE n = m  BY <2>2, <2>4, <3>1, <3>2
    <3>3. CASE n # m  BY <2>3, <2>4, <2>5, <3>1, <3>3
    <3> QED  BY <3>2, <3>3
  <2>8. Levelled(g, body, alts, m)  BY <2>4, <2>6, <2>7 DEF Levelled
  <2>9. m \in 0..Nesting  BY <1>0
  <2> QED  BY <2>8, <2>9
<1> HIDE DEF A
<1>3. 0..Nesting \subseteq A  BY <1>0, <1>1, <1>2, UpTo
<1>4. Nesting \in A  BY <1>0, <1>3
<1>5. PICK f : Levelled(f, body, alts, Nesting)  BY <1>4 DEF A
<1>6. f = [n \in 0..Nesting |-> IF n = 0 THEN {body} ELSE Inside(f[n - 1], alts)]  BY <1>0, <1>5, LevelledIs
<1> DEFINE level == Level(body, alts)
<1>7. level = [n \in 0..Nesting |-> IF n = 0 THEN {body} ELSE Inside(level[n - 1], alts)]
  BY <1>6 DEF Level
<1> HIDE DEF level
<1>9. 0 \in 0..Nesting /\ \A n \in 1..Nesting : n \in 0..Nesting /\ n # 0  BY <1>0
<1>8. level[0] = {body} /\ \A n \in 1..Nesting : level[n] = Inside(level[n - 1], alts)  BY <1>7, <1>9
<1> QED  BY <1>8 DEF level

\* A body is a block of its own.
LEMMA BodyInBlocks ==
  ASSUME NEW body, NEW alts PROVE body \in Blocks(body, alts)
<1>1. Nesting \in Nat /\ 0 \in 0..Nesting  BY NestingAssumption
<1>2. Level(body, alts)[0] = {body}  BY LevelIs
<1> QED  BY <1>1, <1>2, BlocksAre

(* What a well-formed body gives: its blocks are closed.                   *)
Closed(D, body) ==
    /\ body \in D
    /\ \A b \in D : b \in Seq(Statements(body))
    /\ \A s \in Statements(body) : s.body \in D \cup {<<>>} /\ s.alt \in D \cup {<<>>}

\* The blocks in the blocks of a body are blocks of it.
LEMMA BodyClosed ==
  ASSUME NEW p, NEW body, IsBody(p, body)
  PROVE  /\ Closed(Blocks(body, TRUE), body)
         /\ \A s \in Statements(body) : IsStatement(p, s)
<1>1. /\ \A b \in Blocks(body, TRUE) : b \in Seq(Statements(body))
      /\ \A s \in Statements(body) : IsStatement(p, s) /\ {s.body, s.alt} \subseteq Blocks(body, TRUE) \cup {<<>>}
  BY DEF IsBody
<1>2. body \in Blocks(body, TRUE)  BY BodyInBlocks
<1> QED  BY <1>1, <1>2 DEF Closed

-----------------------------------------------------------------------------
(* What scan_fat_types_in_stmts opens of a body.                           *)
LEMMA FlatTyped ==
  ASSUME NEW S, NEW g, IsSeq(g), \A i \in 1..Len(g) : g[i] \in Seq(S)
  PROVE  FlattenSeq(g) \in Seq(S)
<1>1. Len(g) \in Nat /\ g = [i \in 1..Len(g) |-> g[i]]  BY DEF IsSeq
<1>2. PICK h : Flattens(S, Len(g), g, h)  BY <1>1, Flatten
<1>3. Len(g) \in 0..Len(g)  BY <1>1
<1>4. FlatUpto(g, Len(g)) \in Seq(S)  BY <1>2, <1>3 DEF Flattens
<1>5. FlatUpto(g, Len(g)) = FlattenSeq(g)  BY <1>1 DEF FlatUpto
<1> QED  BY <1>4, <1>5

Shut(s) == [type |-> s.type, body |-> <<>>]
Step(s) == <<Shut(s)>> \o s.body
Openings(body) == Statements(body) \cup {Shut(s) : s \in Statements(body)}

\* Opened, with its step named.
LEMMA OpenedIs ==
  ASSUME NEW b PROVE Opened(b) = FlattenSeq([i \in DOMAIN b |-> Step(b[i])])
  BY DEF Opened, Step, Shut

\* A statement and its body are among what can be opened.
LEMMA StepTyped ==
  ASSUME NEW D, NEW body, Closed(D, body), NEW s \in Openings(body)
  PROVE  Step(s) \in Seq(Openings(body)) /\ Shut(s) \in Openings(body) /\ s.body \in Seq(Openings(body))
<1> DEFINE U == Openings(body)
<1>0. Statements(body) \subseteq U  BY DEF Openings
<1>1. \A x \in Statements(body) : Shut(x) \in U  BY DEF Openings
<1>2. s.body \in Seq(U) /\ Shut(s) \in U
  <2>1. CASE s \in Statements(body)
    <3>1. s.body = <<>> \/ s.body \in Seq(Statements(body))  BY <2>1 DEF Closed
    <3>2. <<>> \in Seq(U)  OBVIOUS
    <3> HIDE DEF U
    <3>4. ASSUME NEW b \in Seq(Statements(body)) PROVE b \in Seq(U)  BY <1>0
    <3>3. s.body \in Seq(U)  BY <3>1, <3>2, <3>4
    <3> QED  BY <1>1, <2>1, <3>3
  <2>2. CASE s \notin Statements(body)
    <3>1. PICK x \in Statements(body) : s = Shut(x)  BY <2>2 DEF Openings
    <3>2. s.body = <<>> /\ Shut(s) = Shut(x)  BY <3>1 DEF Shut
    <3>3. <<>> \in Seq(U)  OBVIOUS
    <3> HIDE DEF U
    <3> QED  BY <1>1, <3>2, <3>3
  <2> QED  BY <2>1, <2>2
<1> HIDE DEF U
<1>3. <<Shut(s)>> \in Seq(U)  BY <1>2
<1>4. Step(s) \in Seq(U)  BY <1>2, <1>3 DEF Step
<1> QED  BY <1>2, <1>4 DEF U

\* What is opened is a sequence of such.
LEMMA OpenedTyped ==
  ASSUME NEW D, NEW body, Closed(D, body), NEW b \in Seq(Openings(body))
  PROVE  /\ Opened(b) \in Seq(Openings(body))
         /\ IsSeq([i \in DOMAIN b |-> Step(b[i])]) /\ Len([i \in DOMAIN b |-> Step(b[i])]) = Len(b)
         /\ \A i \in 1..Len(b) : [j \in DOMAIN b |-> Step(b[j])][i] = Step(b[i]) /\ IsSeq(Step(b[i]))
<1> DEFINE g == [i \in DOMAIN b |-> Step(b[i])]
           U == Openings(body)
<1>1. DOMAIN b = 1..Len(b) /\ Len(b) \in Nat /\ \A i \in 1..Len(b) : b[i] \in U  OBVIOUS
<1>2. \A i \in 1..Len(b) : g[i] = Step(b[i]) /\ Step(b[i]) \in Seq(U)  BY <1>1, StepTyped
<1>3. g = [i \in 1..Len(b) |-> g[i]]  BY <1>1
<1> HIDE DEF g, U
<1>4. g \in Seq(Seq(U)) /\ Len(g) = Len(b)  BY <1>1, <1>2, <1>3
<1>5. IsSeq(g)  BY <1>4, IsSeqIs
<1>6. FlattenSeq(g) \in Seq(U)  BY <1>2, <1>4, <1>5, FlatTyped
<1>7. \A i \in 1..Len(b) : IsSeq(Step(b[i]))  BY <1>2, IsSeqIs
<1> QED  BY <1>2, <1>4, <1>5, <1>6, <1>7, OpenedIs DEF g, U

Opens(body) == CHOOSE open : open = [n \in 0..Nesting |-> IF n = 0 THEN body ELSE Opened(open[n - 1])]

\* ScanBody, with its local function named.
LEMMA ScanBodyIs == ASSUME NEW body PROVE ScanBody(body) = TypesIn(Opens(body)[Nesting])
  BY DEF ScanBody, Opens

\* The recursion of ScanBody, step by step.
LEMMA OpensAre ==
  ASSUME NEW D, NEW body, Closed(D, body)
  PROVE  /\ Opens(body)[0] = body
         /\ \A n \in 0..Nesting : Opens(body)[n] \in Seq(Openings(body))
         /\ \A n \in 1..Nesting : Opens(body)[n] = Opened(Opens(body)[n - 1])
<1> DEFINE U == Openings(body)
           F == [n \in 1..Nesting |-> [x \in Seq(U) |-> Opened(x)]]
           open == Opens(body)
<1>0. Nesting \in Nat  BY NestingAssumption
<1>1. body \in Seq(U)
  <2>1. body \in Seq(Statements(body)) /\ Statements(body) \subseteq U  BY DEF Closed, Openings
  <2> HIDE DEF U
  <2> QED  BY <2>1
<1>2. Steps(Seq(U), Nesting, F)
  <2> SUFFICES ASSUME NEW n \in 1..Nesting, NEW x \in Seq(U) PROVE Opened(x) \in Seq(U)  BY DEF Steps
  <2> QED  BY OpenedTyped
<1> HIDE DEF F, U
<1>3. PICK h : Iterates(Seq(U), Nesting, body, F, h)  BY <1>0, <1>1, <1>2, Iterated
<1>4. /\ h[0] = body /\ h = [n \in 0..Nesting |-> h[n]]
      /\ \A n \in 1..Nesting : n - 1 \in 0..Nesting /\ h[n - 1] \in Seq(U) /\ h[n] = F[n][h[n - 1]]
  BY <1>0, <1>3 DEF Iterates
<1>5. \A n \in 1..Nesting : h[n] = Opened(h[n - 1])  BY <1>4 DEF F
<1>6. h = [n \in 0..Nesting |-> IF n = 0 THEN body ELSE Opened(h[n - 1])]
  <2>1. \A n \in 0..Nesting : h[n] = IF n = 0 THEN body ELSE Opened(h[n - 1])  BY <1>0, <1>4, <1>5
  <2> QED  BY <1>4, <2>1
<1>7. open = [n \in 0..Nesting |-> IF n = 0 THEN body ELSE Opened(open[n - 1])]  BY <1>6 DEF Opens
<1> HIDE DEF open
<1>8. open[0] = body  BY <1>0, <1>7
<1>9. \A n \in 1..Nesting : open[n] = Opened(open[n - 1])  BY <1>0, <1>7
<1> DEFINE A == {n \in 0..Nesting : open[n] \in Seq(U)}
<1>10. 0 \in A  BY <1>0, <1>1, <1>8
<1>11. ASSUME NEW n \in 1..Nesting, n - 1 \in A PROVE n \in A
  <2>1. PICK b : b = open[n - 1]  OBVIOUS
  <2>2. b \in Seq(U)  BY <1>11, <2>1
  <2>3. Opened(b) \in Seq(U)  BY <2>2, OpenedTyped DEF U
  <2> QED  BY <1>0, <1>9, <2>1, <2>3
<1> HIDE DEF A
<1>12. 0..Nesting \subseteq A  BY <1>0, <1>10, <1>11, UpTo
<1> QED  BY <1>8, <1>9, <1>12 DEF A, open, U

-----------------------------------------------------------------------------
(* The types that are scanned include those in view.                       *)
Finds(q, t, b) == \E k \in 1..Len(q) : q[k].type = t /\ q[k].body = b
FindsType(q, t) == \E k \in 1..Len(q) : q[k].type = t

\* What is opened keeps each type, and adds the statements of each body.
LEMMA OpenedFinds ==
  ASSUME NEW D, NEW body, Closed(D, body), NEW b \in Seq(Openings(body)), NEW k \in 1..Len(b)
  PROVE  /\ FindsType(Opened(b), b[k].type)
         /\ \A i \in DOMAIN b[k].body : Finds(Opened(b), b[k].body[i].type, b[k].body[i].body)
<1> DEFINE g == [i \in DOMAIN b |-> Step(b[i])]
           F == FlattenSeq(g)
           s == b[k]
<1>1. /\ Opened(b) = F /\ IsSeq(g) /\ Len(g) = Len(b)
      /\ \A i \in 1..Len(b) : g[i] = Step(b[i]) /\ IsSeq(Step(b[i]))
  BY OpenedIs, OpenedTyped
<1>2. s \in Openings(body)  OBVIOUS
<1>3. IsSeq(s.body) /\ 1..Len(s.body) = DOMAIN s.body
  <2>1. s.body \in Seq(Openings(body))  BY <1>2, StepTyped
  <2> QED  BY <2>1, IsSeqIs
<1> HIDE DEF g
<1>4. Joins(g, Len(g), F)  BY <1>1, Flattened
<1> HIDE DEF F, s
<1>5. \A p : (\E m \in 1..Len(Step(s)) : p = Step(s)[m]) <=> (p = Shut(s) \/ \E m \in 1..Len(s.body) : p = s.body[m])
  <2>1. PICK x, r : x = Shut(s) /\ r = s.body  OBVIOUS
  <2>2. IsSeq(r)  BY <1>3, <2>1
  <2>3. Leads(<<x>> \o r, x, r)  BY <2>2, OneAndRest
  <2>4. Step(s) = <<x>> \o r  BY <2>1 DEF Step
  <2>5. Leads(Step(s), x, r)  BY <2>3, <2>4
  <2> QED  BY <2>1, <2>5 DEF Leads
<1>6. ASSUME NEW p, p = Shut(s) \/ \E m \in 1..Len(s.body) : p = s.body[m] PROVE \E e \in 1..Len(F) : F[e] = p
  <2>1. PICK m \in 1..Len(Step(s)) : p = Step(s)[m]  BY <1>5, <1>6
  <2>2. g[k] = Step(s) /\ k \in 1..Len(g)  BY <1>1 DEF s
  <2> QED  BY <1>4, <2>1, <2>2 DEF Joins
<1>7. FindsType(F, s.type)
  <2>1. PICK e \in 1..Len(F) : F[e] = Shut(s)  BY <1>6
  <2> QED  BY <2>1 DEF FindsType, Shut
<1>8. ASSUME NEW i \in DOMAIN s.body PROVE Finds(F, s.body[i].type, s.body[i].body)
  <2>1. PICK e \in 1..Len(F) : F[e] = s.body[i]  BY <1>3, <1>6
  <2> QED  BY <2>1 DEF Finds
<1> QED  BY <1>1, <1>7, <1>8 DEF s

Reached(body, n) ==
    /\ \A j \in 0..n : \A b \in Level(body, FALSE)[j] : \A i \in DOMAIN b : FindsType(Opens(body)[n], b[i].type)
    /\ \A b \in Level(body, FALSE)[n] : \A i \in DOMAIN b : Finds(Opens(body)[n], b[i].type, b[i].body)

\* The statements of one more level are reached.
LEMMA ReachedStep ==
  ASSUME NEW D, NEW body, Closed(D, body), NEW n \in 1..Nesting, Reached(body, n - 1)
  PROVE  Reached(body, n)
<1>0. Nesting \in Nat /\ n \in Nat /\ n - 1 \in 0..Nesting  BY NestingAssumption
<1>1. PICK q : q = Opens(body)[n - 1]  OBVIOUS
<1>2. q \in Seq(Openings(body)) /\ Opens(body)[n] = Opened(q)  BY <1>0, <1>1, OpensAre
<1>3. ASSUME NEW t, FindsType(q, t) PROVE FindsType(Opened(q), t)
  <2>1. PICK k \in 1..Len(q) : q[k].type = t  BY <1>3 DEF FindsType
  <2> QED  BY <1>2, <2>1, OpenedFinds
<1>4. \A j \in 0..n - 1 : \A b \in Level(body, FALSE)[j] : \A i \in DOMAIN b : FindsType(q, b[i].type)
  BY <1>1 DEF Reached
<1>5. ASSUME NEW b \in Level(body, FALSE)[n], NEW i \in DOMAIN b PROVE Finds(Opened(q), b[i].type, b[i].body)
  <2>1. Level(body, FALSE)[n] = Inside(Level(body, FALSE)[n - 1], FALSE)  BY LevelIs
  <2>2. PICK c \in Level(body, FALSE)[n - 1] : \E m \in DOMAIN c : b = c[m].body
    <3>1. b \in Inside(Level(body, FALSE)[n - 1], FALSE)  BY <2>1
    <3>2. PICK c \in Level(body, FALSE)[n - 1] :
               b \in UNION {{c[m].body} \cup (IF FALSE THEN {c[m].alt} ELSE {}) : m \in DOMAIN c}
      BY <3>1 DEF Inside
    <3>3. PICK m \in DOMAIN c : b \in {c[m].body} \cup (IF FALSE THEN {c[m].alt} ELSE {})  BY <3>2
    <3> QED  BY <3>3
  <2>3. PICK m \in DOMAIN c : b = c[m].body  BY <2>2
  <2>4. Finds(q, c[m].type, b)  BY <1>1, <2>2, <2>3 DEF Reached
  <2>5. PICK k \in 1..Len(q) : q[k].body = b  BY <2>4 DEF Finds
  <2>6. \A x \in DOMAIN q[k].body : Finds(Opened(q), q[k].body[x].type, q[k].body[x].body)  BY <1>2, OpenedFinds
  <2> QED  BY <2>5, <2>6
<1>6. \A t, b : Finds(Opened(q), t, b) => FindsType(Opened(q), t)  BY DEF Finds, FindsType
<1>7. ASSUME NEW j \in 0..n, NEW b \in Level(body, FALSE)[j], NEW i \in DOMAIN b
      PROVE  FindsType(Opened(q), b[i].type)
  <2>1. CASE j = n  BY <1>5, <1>6, <2>1
  <2>2. CASE j # n
    <3>1. j \in 0..n - 1  BY <1>0, <2>2
    <3>2. FindsType(q, b[i].type)  BY <1>4, <3>1
    <3> QED  BY <1>3, <3>2
  <2> QED  BY <2>1, <2>2
<1> QED  BY <1>2, <1>5, <1>7 DEF Reached

\* Each type in view of a body is scanned.
LEMMA ViewScanned ==
  ASSUME NEW D, NEW body, Closed(D, body), NEW t \in InView(body)
  PROVE  \E k \in 1..Len(ScanBody(body)) : ScanBody(body)[k] = t
<1> DEFINE A == {n \in 0..Nesting : Reached(body, n)}
<1>0. Nesting \in Nat  BY NestingAssumption
<1>1. 0 \in A
  <2>1. Level(body, FALSE)[0] = {body} /\ Opens(body)[0] = body  BY LevelIs, OpensAre
  <2>2. DOMAIN body = 1..Len(body)  BY DEF Closed
  <2>3. \A i \in DOMAIN body : Finds(body, body[i].type, body[i].body) /\ FindsType(body, body[i].type)
    BY <2>2 DEF Finds, FindsType
  <2>4. \A j \in 0..0 : j = 0  OBVIOUS
  <2>5. Reached(body, 0)  BY <2>1, <2>3, <2>4 DEF Reached
  <2> QED  BY <1>0, <2>5
<1>2. \A n \in 1..Nesting : n - 1 \in A => n \in A  BY <1>0, ReachedStep
<1> HIDE DEF A
<1>3. 0..Nesting \subseteq A  BY <1>0, <1>1, <1>2, UpTo
<1>4. Reached(body, Nesting)  BY <1>0, <1>3 DEF A
<1>5. PICK b \in Blocks(body, FALSE) : \E i \in DOMAIN b : b[i].type = t  BY DEF InView, Within, Range
<1>6. PICK j \in 0..Nesting : b \in Level(body, FALSE)[j]  BY <1>5, BlocksAre
<1>7. FindsType(Opens(body)[Nesting], t)  BY <1>4, <1>5, <1>6 DEF Reached
<1>8. PICK q : q = Opens(body)[Nesting]  OBVIOUS
<1>9. q \in Seq(Openings(body))  BY <1>0, <1>8, OpensAre
<1>10. ScanBody(body) = [i \in DOMAIN q |-> q[i].type] /\ DOMAIN q = 1..Len(q) /\ Len(q) \in Nat
  BY <1>8, <1>9, ScanBodyIs DEF TypesIn
<1>11. Len(ScanBody(body)) = Len(q)  BY <1>10
<1> QED  BY <1>7, <1>8, <1>10, <1>11 DEF FindsType

-----------------------------------------------------------------------------
(* What is assumed of a program, in parts.                                 *)
Codes == {program[i] : i \in Sources} \cup UNION {{program[i].methods[m] : m \in DOMAIN program[i].methods} : i \in Sources}
WellCoded(d) ==
    /\ d.fields \in Seq(Field) /\ \A i \in DOMAIN d.fields : IsType(program, d.fields[i].type)
    /\ d.type = <<>> \/ IsType(program, d.type)
    /\ IsBody(program, d.body)
AllWellCoded == \A d \in Codes : WellCoded(d)

\* What IsProgram gives.
LEMMA ProgramFacts ==
  ASSUME IsProgram(program) PROVE ProgramIsSeq /\ MethodsAreSeqs /\ AllWellCoded
<1>1. ProgramIsSeq
  <2>1. program \in Seq(Range(program))  BY DEF IsProgram
  <2> QED  BY <2>1 DEF ProgramIsSeq, IsSeq, Sources
<1>2. ASSUME NEW i \in Sources PROVE IsSeq(program[i].methods) /\ WellCoded(program[i])
                                    /\ \A m \in DOMAIN program[i].methods : WellCoded(program[i].methods[m])
  BY DEF IsProgram, Sources, IsSeq, IsCode, WellCoded
<1> QED  BY <1>1, <1>2 DEF MethodsAreSeqs, AllWellCoded, Codes

(* Absent or a type.                                                       *)
SomeTypes == {t \in Seq(STRING) : t = <<>> \/ IsType(program, t)}

\* A type that may be absent.
LEMMA TypeIsSome ==
  ASSUME NEW t, t = <<>> \/ IsType(program, t) PROVE t \in SomeTypes
<1>1. <<>> \in Seq(STRING)  OBVIOUS
<1>2. IsType(program, t) => t \in Seq(STRING)  BY DEF IsType
<1> QED  BY <1>1, <1>2 DEF SomeTypes

\* The types of a declaration or method are types or absent.
LEMMA CodedTypes ==
  ASSUME NEW d, WellCoded(d)
  PROVE  /\ Types(d) \in Seq(SomeTypes) /\ Len(Types(d)) = Len(d.fields) /\ DOMAIN Types(d) = DOMAIN d.fields
         /\ \A i \in DOMAIN Types(d) : IsType(program, Types(d)[i])
         /\ d.type \in SomeTypes
         /\ ScanBody(d.body) \in Seq(SomeTypes)
<1>0. d.fields \in Seq(Field) /\ \A i \in DOMAIN d.fields : IsType(program, d.fields[i].type)  BY DEF WellCoded
<1>1. d.fields \in Seq(Field) /\ DOMAIN d.fields = 1..Len(d.fields) /\ Len(d.fields) \in Nat  BY <1>0
<1>2. \A i \in 1..Len(d.fields) : d.fields[i].type \in SomeTypes /\ IsType(program, d.fields[i].type)
  BY <1>0, <1>1, TypeIsSome
<1>3. Types(d) = [i \in 1..Len(d.fields) |-> d.fields[i].type]  BY <1>1 DEF Types, TypesIn
<1>4. Types(d) \in Seq(SomeTypes) /\ Len(Types(d)) = Len(d.fields) /\ DOMAIN Types(d) = DOMAIN d.fields
  BY <1>1, <1>2, <1>3
<1>5. d.type \in SomeTypes  BY TypeIsSome DEF WellCoded
<1>6. ScanBody(d.body) \in Seq(SomeTypes)
  <2>0. Nesting \in 0..Nesting  BY NestingAssumption
  <2>1. PICK body, q : body = d.body /\ q = Opens(body)[Nesting]  OBVIOUS
  <2>2. IsBody(program, body)  BY <2>1 DEF WellCoded
  <2>3. PICK D : Closed(D, body)  BY <2>2, BodyClosed
  <2>4. \A s \in Statements(body) : IsStatement(program, s)  BY <2>2, BodyClosed
  <2>5. q \in Seq(Openings(body))  BY <2>0, <2>1, <2>3, OpensAre
  <2>6. \A s \in Statements(body) : s.type \in SomeTypes  BY <2>4, TypeIsSome DEF IsStatement
  <2>7. \A s \in Openings(body) : s.type \in SomeTypes  BY <2>6 DEF Openings, Shut
  <2>8. ScanBody(body) = [i \in 1..Len(q) |-> q[i].type] /\ Len(q) \in Nat /\ \A i \in 1..Len(q) : q[i] \in Openings(body)
    BY <2>1, <2>5, ScanBodyIs DEF TypesIn
  <2>9. ScanBody(body) \in Seq(SomeTypes)  BY <2>7, <2>8
  <2> QED  BY <2>1, <2>9
<1> QED  BY <1>2, <1>3, <1>4, <1>5, <1>6

-----------------------------------------------------------------------------
(* The fat pointers that are found.                                        *)
Mentioned(i) == <<program[i].type>> \o Types(program[i]) \o ScanBody(program[i].body)
IsAt(q, t) == \E k \in 1..Len(q) : q[k] = t

\* What is in two sequences is in both together.
LEMMA TwoJoined ==
  ASSUME NEW S, NEW q \in Seq(S), NEW r \in Seq(S)
  PROVE  q \o r \in Seq(S) /\ \A t : IsAt(q, t) \/ IsAt(r, t) => IsAt(q \o r, t)
<1>1. PICK b : b = q \o r  OBVIOUS
<1>2. /\ b \in Seq(S) /\ Len(b) = Len(q) + Len(r) /\ Len(q) \in Nat /\ Len(r) \in Nat
      /\ \A k \in 1..Len(q) : b[k] = q[k]
      /\ \A k \in 1..Len(r) : b[Len(q) + k] = r[k]
  BY <1>1
<1>3. ASSUME NEW t, IsAt(q, t) PROVE IsAt(b, t)
  <2>1. PICK k \in 1..Len(q) : q[k] = t  BY <1>3 DEF IsAt
  <2>2. k \in 1..Len(b)  BY <1>2
  <2> QED  BY <1>2, <2>1, <2>2 DEF IsAt
<1>4. ASSUME NEW t, IsAt(r, t) PROVE IsAt(b, t)
  <2>1. PICK k \in 1..Len(r) : r[k] = t  BY <1>4 DEF IsAt
  <2>2. Len(q) + k \in 1..Len(b)  BY <1>2
  <2> QED  BY <1>2, <2>1, <2>2 DEF IsAt
<1> QED  BY <1>1, <1>2, <1>3, <1>4

\* What is in an item and two sequences is in all together.
LEMMA ThreeJoined ==
  ASSUME NEW S, NEW x \in S, NEW q \in Seq(S), NEW r \in Seq(S)
  PROVE  /\ <<x>> \o q \o r \in Seq(S)
         /\ IsAt(<<x>> \o q \o r, x)
         /\ \A t : IsAt(q, t) \/ IsAt(r, t) => IsAt(<<x>> \o q \o r, t)
<1>1. PICK w : w = <<x>>  OBVIOUS
<1>2. w \in Seq(S) /\ Len(w) = 1 /\ w[1] = x /\ 1 \in 1..1  BY <1>1
<1>3. IsAt(w, x)  BY <1>2 DEF IsAt
<1>4. PICK a : a = w \o q  OBVIOUS
<1>5. a \in Seq(S) /\ \A t : IsAt(w, t) \/ IsAt(q, t) => IsAt(a, t)  BY <1>2, <1>4, TwoJoined
<1>6. a \o r \in Seq(S) /\ \A t : IsAt(a, t) \/ IsAt(r, t) => IsAt(a \o r, t)  BY <1>5, TwoJoined
<1>7. <<x>> \o q \o r = a \o r  BY <1>1, <1>4
<1> QED  BY <1>3, <1>5, <1>6, <1>7

\* A declaration and its methods are well formed.
LEMMA OwnCode ==
  ASSUME AllWellCoded, NEW i \in Sources
  PROVE  /\ WellCoded(program[i])
         /\ \A m \in DOMAIN program[i].methods : WellCoded(program[i].methods[m])
  BY DEF AllWellCoded, Codes

\* Each type in view of a declaration is scanned.
LEMMA MentionedAre ==
  ASSUME AllWellCoded, NEW i \in Sources
  PROVE  /\ Mentioned(i) \in Seq(SomeTypes)
         /\ \A t \in {program[i].type} \cup Range(Types(program[i])) \cup InView(program[i].body) : IsAt(Mentioned(i), t)
<1>1. PICK d : d = program[i]  OBVIOUS
<1>2. WellCoded(d)  BY <1>1, OwnCode
<1>3. PICK q, r : q = Types(d) /\ r = ScanBody(d.body)  OBVIOUS
<1>4. q \in Seq(SomeTypes) /\ r \in Seq(SomeTypes) /\ d.type \in SomeTypes  BY <1>2, <1>3, CodedTypes
<1>5. Mentioned(i) = <<d.type>> \o q \o r  BY <1>1, <1>3 DEF Mentioned
<1>6. /\ Mentioned(i) \in Seq(SomeTypes) /\ IsAt(Mentioned(i), d.type)
      /\ \A t : IsAt(q, t) \/ IsAt(r, t) => IsAt(Mentioned(i), t)
  BY <1>4, <1>5, ThreeJoined
<1>7. \A t \in Range(q) : IsAt(q, t)  BY <1>4 DEF Range, IsAt
<1>8. ASSUME NEW t \in InView(d.body) PROVE IsAt(r, t)
  <2>1. PICK body : body = d.body  OBVIOUS
  <2>2. IsBody(program, body)  BY <1>2, <2>1 DEF WellCoded
  <2>3. PICK D : Closed(D, body)  BY <2>2, BodyClosed
  <2>4. \E k \in 1..Len(ScanBody(body)) : ScanBody(body)[k] = t  BY <1>8, <2>1, <2>3, ViewScanned
  <2> QED  BY <1>3, <2>1, <2>4 DEF IsAt
<1> QED  BY <1>1, <1>3, <1>6, <1>7, <1>8

(* Flattening a sequence over the declarations.                            *)
Flats(F, S, T, g) ==
    /\ F \in Seq(S)
    /\ \A i \in T : \A t : IsAt(g[i], t) => IsAt(F, t)
    /\ \A k \in 1..Len(F) : \E i \in T : IsAt(g[i], F[k])

\* Flattening keeps every item and adds none.
LEMMA FlatOver ==
  ASSUME NEW n \in Nat, NEW S, NEW g, g = [i \in 1..n |-> g[i]], \A i \in 1..n : g[i] \in Seq(S)
  PROVE  Flats(FlattenSeq(g), S, 1..n, g)
<1>1. g \in Seq(Seq(S)) /\ Len(g) = n  OBVIOUS
<1>2. IsSeq(g) /\ \A i \in 1..Len(g) : IsSeq(g[i])  BY <1>1, IsSeqIs
<1>3. FlattenSeq(g) \in Seq(S)  BY <1>1, <1>2, FlatTyped
<1>4. PICK F : F = FlattenSeq(g)  OBVIOUS
<1>5. Joins(g, n, F)  BY <1>1, <1>2, <1>4, Flattened
<1>6. ASSUME NEW i \in 1..n, NEW t, IsAt(g[i], t) PROVE IsAt(F, t)
  <2>1. PICK m \in 1..Len(g[i]) : g[i][m] = t  BY <1>6 DEF IsAt
  <2>2. \E k \in 1..Len(F) : F[k] = g[i][m]  BY <1>5, <2>1 DEF Joins
  <2> QED  BY <2>1, <2>2 DEF IsAt
<1>7. ASSUME NEW k \in 1..Len(F) PROVE \E i \in 1..n : IsAt(g[i], F[k])
  <2>1. PICK i \in 1..n : \E m \in 1..Len(g[i]) : Follows(g, F, k, i, m)  BY <1>5 DEF Joins
  <2> QED  BY <2>1 DEF Follows, IsAt
<1> QED  BY <1>3, <1>4, <1>6, <1>7 DEF Flats

\* Each type in view of the program is scanned.
LEMMA ScannedIs ==
  ASSUME ProgramIsSeq, AllWellCoded
  PROVE  Scanned \in Seq(SomeTypes) /\ \A t \in TypesInView : IsAt(Scanned, t)
<1> DEFINE n == Len(program)
           g == [i \in 1..n |-> Mentioned(i)]
<1>1. n \in Nat /\ Sources = 1..n  BY DEF ProgramIsSeq
<1>2. Scanned = FlattenSeq(g)  BY <1>1 DEF Scanned, Mentioned, Sources
<1>3. g = [i \in 1..n |-> g[i]] /\ \A i \in 1..n : g[i] = Mentioned(i)  OBVIOUS
<1> HIDE DEF g
<1>4. \A i \in 1..n : g[i] \in Seq(SomeTypes)  BY <1>1, <1>3, MentionedAre
<1>5. Flats(FlattenSeq(g), SomeTypes, 1..n, g)  BY <1>1, <1>3, <1>4, FlatOver
<1>6. ASSUME NEW t \in TypesInView PROVE IsAt(Scanned, t)
  <2>1. PICK i \in Sources : t \in {program[i].type} \cup Range(Types(program[i])) \cup InView(program[i].body)
    BY DEF TypesInView, Sources
  <2>2. IsAt(Mentioned(i), t)  BY <2>1, MentionedAre
  <2> QED  BY <1>1, <1>2, <1>3, <1>5, <2>2 DEF Flats
<1> QED  BY <1>2, <1>5, <1>6 DEF Flats

(* The types fat pointers point to.                                        *)
PointedTo(t, i) == IF t[i] = "fat" THEN <<SubSeq(t, i + 1, Len(t))>> ELSE <<>>
RealTypes == {t \in Seq(STRING) : IsType(program, t)}

\* A type does not end in an outer part.
LEMMA LastIsNotOuter ==
  ASSUME IsProgram(program), NEW t, IsType(program, t)
  PROVE  t[Len(t)] \notin Outer
<1> DEFINE Ends == Scalars \cup Containers \cup {"void"} \cup NamesOf(program, {"struct", "enum"}) \cup NamesIn(program)
<1>1. t[Len(t)] \in Ends  BY DEF IsType
<1>2. \A x \in Ends : x \notin Outer
  <2>1. \A x \in Outer : x \notin Scalars /\ x \notin Containers /\ x # "void"  BY DEF Outer, Scalars, Containers
  <2>2. ASSUME NEW x \in Outer PROVE x \notin NamesOf(program, {"struct", "enum"}) /\ x \notin NamesIn(program)
    <3>1. \A j \in DOMAIN program : DeclaredBy(program[j]) \cap Reserved = {}  BY DEF IsProgram
    <3>2. x \in Reserved  BY DEF Reserved
    <3>3. \A j \in DOMAIN program : x \notin DeclaredBy(program[j])  BY <3>1, <3>2
    <3>4. \A j \in DOMAIN program : program[j].kind \in {"struct", "enum"} => x # program[j].name
      BY <3>3 DEF DeclaredBy
    <3>5. \A j \in DOMAIN program : program[j].kind \in {"use", "inline"} => x \notin program[j].names
      BY <3>3 DEF DeclaredBy
    <3> QED  BY <3>4, <3>5 DEF NamesOf, NamesIn
  <2> HIDE DEF Ends
  <2> QED  BY <2>1, <2>2 DEF Ends
<1> HIDE DEF Ends
<1> QED  BY <1>1, <1>2

\* What is inside a type is a type.
LEMMA InnerIsType ==
  ASSUME IsProgram(program), NEW t, IsType(program, t), NEW i \in 1..Len(t), t[i] \in Outer
  PROVE  SubSeq(t, i + 1, Len(t)) \in RealTypes
<1> DEFINE n == Len(t)
           u == SubSeq(t, i + 1, n)
           Ends == Scalars \cup Containers \cup {"void"} \cup NamesOf(program, {"struct", "enum"}) \cup NamesIn(program)
<1>1. /\ t \in Seq(STRING) /\ n \in Nat \ {0} /\ t[n] \in Ends
      /\ \A j \in 1..n - 1 : t[j] \in Outer \cup Containers
  BY DEF IsType
<1>2. t[n] \notin Outer  BY LastIsNotOuter
<1> HIDE DEF Ends
<1>3. i # n /\ i + 1 \in 1..n /\ i \in 1..n  BY <1>1, <1>2
<1>4. u \in Seq(STRING) /\ Len(u) = n - i /\ \A j \in 1..n - i : u[j] = t[i + j]
  <2>1. \A j \in 1..n : t[j] \in STRING  BY <1>1
  <2> QED  BY <1>1, <1>3, <2>1
<1> HIDE DEF u
<1>5. u # <<>> /\ u[Len(u)] = t[n]
  <2>1. n - i \in 1..n - i /\ i + (n - i) = n /\ n - i > 0  BY <1>1, <1>3
  <2> QED  BY <1>4, <2>1
<1>6. \A j \in 1..Len(u) - 1 : u[j] \in Outer \cup Containers
  <2> SUFFICES ASSUME NEW j \in 1..(n - i) - 1 PROVE u[j] \in Outer \cup Containers  BY <1>4
  <2>1. j \in 1..n - i /\ i + j \in 1..n - 1  BY <1>1, <1>3
  <2> QED  BY <1>1, <1>4, <2>1
<1>7. IsType(program, u)  BY <1>1, <1>4, <1>5, <1>6 DEF IsType, Ends
<1> QED  BY <1>4, <1>7 DEF RealTypes, u

\* Every fat pointer in a type is found.
LEMMA FatPartsAre ==
  ASSUME IsProgram(program), NEW t \in SomeTypes
  PROVE  /\ FatParts(t) \in Seq(RealTypes)
         /\ \A i \in DOMAIN t : t[i] = "fat" => IsAt(FatParts(t), SubSeq(t, i + 1, Len(t)))
<1> DEFINE n == Len(t)
           g == [i \in 1..n |-> PointedTo(t, i)]
<1>1. t \in Seq(STRING) /\ n \in Nat /\ DOMAIN t = 1..n /\ (t = <<>> \/ IsType(program, t))  BY DEF SomeTypes
<1>2. FatParts(t) = FlattenSeq(g)  BY <1>1 DEF FatParts, PointedTo
<1>3. g = [i \in 1..n |-> g[i]] /\ \A i \in 1..n : g[i] = PointedTo(t, i)  OBVIOUS
<1> HIDE DEF g
<1>4. ASSUME NEW i \in 1..n PROVE PointedTo(t, i) \in Seq(RealTypes)
  <2>1. CASE t[i] = "fat"
    <3>1. IsType(program, t) /\ t[i] \in Outer  BY <1>1, <2>1 DEF Outer
    <3>2. SubSeq(t, i + 1, Len(t)) \in RealTypes  BY <3>1, InnerIsType
    <3>3. PICK u \in RealTypes : u = SubSeq(t, i + 1, Len(t))  BY <3>2
    <3>4. <<u>> \in Seq(RealTypes)  OBVIOUS
    <3> QED  BY <2>1, <3>3, <3>4 DEF PointedTo
  <2>2. CASE t[i] # "fat"
    <3>1. PointedTo(t, i) = <<>>  BY <2>2 DEF PointedTo
    <3>2. <<>> \in Seq(RealTypes)  OBVIOUS
    <3> QED  BY <3>1, <3>2
  <2> QED  BY <2>1, <2>2
<1>5. Flats(FlattenSeq(g), RealTypes, 1..n, g)  BY <1>1, <1>3, <1>4, FlatOver
<1>6. ASSUME NEW i \in 1..n, t[i] = "fat" PROVE IsAt(FatParts(t), SubSeq(t, i + 1, Len(t)))
  <2>1. PICK u : u = SubSeq(t, i + 1, Len(t))  OBVIOUS
  <2>2. g[i] = <<u>>  BY <1>3, <1>6, <2>1 DEF PointedTo
  <2>3. Len(<<u>>) = 1 /\ <<u>>[1] = u /\ 1 \in 1..1  OBVIOUS
  <2>4. IsAt(g[i], u)  BY <2>2, <2>3 DEF IsAt
  <2> QED  BY <1>2, <1>5, <2>1, <2>4 DEF Flats
<1> QED  BY <1>1, <1>2, <1>5, <1>6 DEF Flats

(* All of them, and one for each tag.                                      *)
Found == FlattenSeq([i \in DOMAIN Scanned |-> FatParts(Scanned[i])])
HasTag(q, t) == \E k \in 1..Len(q) : Tag(q[k]) = Tag(t)

\* Every fat pointer in view is found.
LEMMA FoundIs ==
  ASSUME IsProgram(program), ProgramIsSeq, AllWellCoded
  PROVE  Found \in Seq(RealTypes) /\ \A t \in Inners : IsAt(Found, t)
<1>1. Scanned \in Seq(SomeTypes) /\ \A t \in TypesInView : IsAt(Scanned, t)  BY ScannedIs
<1>2. PICK q : q = Scanned  OBVIOUS
<1> DEFINE n == Len(q)
           g == [i \in 1..n |-> FatParts(q[i])]
<1>3. q \in Seq(SomeTypes) /\ n \in Nat /\ DOMAIN q = 1..n /\ \A i \in 1..n : q[i] \in SomeTypes  BY <1>1, <1>2
<1>4. Found = FlattenSeq(g)  BY <1>2, <1>3 DEF Found
<1>5. g = [i \in 1..n |-> g[i]] /\ \A i \in 1..n : g[i] = FatParts(q[i])  OBVIOUS
<1> HIDE DEF g
<1>6. \A i \in 1..n : g[i] \in Seq(RealTypes)  BY <1>3, <1>5, FatPartsAre
<1>7. Flats(FlattenSeq(g), RealTypes, 1..n, g)  BY <1>3, <1>5, <1>6, FlatOver
<1>8. ASSUME NEW x \in Inners PROVE IsAt(Found, x)
  <2>1. PICK t \in TypesInView : x \in {SubSeq(t, i + 1, Len(t)) : i \in {i \in DOMAIN t : t[i] = "fat"}}  BY DEF Inners
  <2>2. PICK j \in DOMAIN t : t[j] = "fat" /\ x = SubSeq(t, j + 1, Len(t))  BY <2>1
  <2>3. PICK i \in 1..n : q[i] = t  BY <1>1, <1>2 DEF IsAt
  <2>4. IsAt(FatParts(q[i]), x)  BY <1>3, <2>2, <2>3, FatPartsAre
  <2> QED  BY <1>4, <1>5, <1>7, <2>4 DEF Flats
<1> QED  BY <1>4, <1>7, <1>8 DEF Flats

SeenOf(inners) == CHOOSE seen : seen = [n \in 0..Len(inners) |-> IF n = 0 THEN <<>> ELSE Collect(seen[n - 1], inners[n])]

\* Each tag that is found is kept once.
LEMMA SeenIs ==
  ASSUME NEW S, NEW q \in Seq(S)
  PROVE  Seen(q) \in Seq(S) /\ \A k \in 1..Len(q) : HasTag(Seen(q), q[k])
<1> DEFINE n == Len(q)
           F == [i \in 1..n |-> [x \in Seq(S) |-> Collect(x, q[i])]]
           f == SeenOf(q)
<1>0. n \in Nat /\ \A i \in 1..n : q[i] \in S  OBVIOUS
<1>1. ASSUME NEW x \in Seq(S), NEW t \in S
      PROVE  Collect(x, t) \in Seq(S) /\ HasTag(Collect(x, t), t) /\ \A u : HasTag(x, u) => HasTag(Collect(x, t), u)
  <2>1. CASE \E i \in DOMAIN x : Tag(x[i]) = Tag(t)
    <3>1. Collect(x, t) = x  BY <2>1 DEF Collect
    <3>2. HasTag(x, t)  BY <2>1 DEF HasTag
    <3> QED  BY <3>1, <3>2
  <2>2. CASE ~\E i \in DOMAIN x : Tag(x[i]) = Tag(t)
    <3>1. Collect(x, t) = Append(x, t)  BY <2>2 DEF Collect
    <3>2. PICK y : y = Append(x, t)  OBVIOUS
    <3>3. /\ y \in Seq(S) /\ Len(y) = Len(x) + 1 /\ Len(x) \in Nat /\ y[Len(x) + 1] = t
          /\ \A k \in 1..Len(x) : y[k] = x[k]
      BY <3>2
    <3>4. HasTag(y, t)
      <4>1. Len(x) + 1 \in 1..Len(y)  BY <3>3
      <4> QED  BY <3>3, <4>1 DEF HasTag
    <3>5. ASSUME NEW u, HasTag(x, u) PROVE HasTag(y, u)
      <4>1. PICK k \in 1..Len(x) : Tag(x[k]) = Tag(u)  BY <3>5 DEF HasTag
      <4>2. k \in 1..Len(y) /\ y[k] = x[k]  BY <3>3
      <4> QED  BY <4>1, <4>2 DEF HasTag
    <3> QED  BY <3>1, <3>2, <3>3, <3>4, <3>5
  <2> QED  BY <2>1, <2>2
<1>2. Steps(Seq(S), n, F)
  <2> SUFFICES ASSUME NEW i \in 1..n, NEW x \in Seq(S) PROVE Collect(x, q[i]) \in Seq(S)  BY DEF Steps
  <2> QED  BY <1>0, <1>1
<1>3. <<>> \in Seq(S)  OBVIOUS
<1> HIDE DEF F
<1>4. PICK h : Iterates(Seq(S), n, <<>>, F, h)  BY <1>0, <1>2, <1>3, Iterated
<1>5. /\ h[0] = <<>> /\ h = [i \in 0..n |-> h[i]]
      /\ \A i \in 1..n : i - 1 \in 0..n /\ h[i - 1] \in Seq(S) /\ h[i] = F[i][h[i - 1]]
  <2>1. h \in [0..n -> Seq(S)] /\ h[0] = <<>> /\ \A i \in 1..n : h[i] = F[i][h[i - 1]]  BY <1>4 DEF Iterates
  <2>2. \A i \in 1..n : i - 1 \in 0..n  BY <1>0
  <2> QED  BY <2>1, <2>2
<1>6. \A i \in 1..n : h[i] = Collect(h[i - 1], q[i])  BY <1>5 DEF F
<1>7. h = [i \in 0..Len(q) |-> IF i = 0 THEN <<>> ELSE Collect(h[i - 1], q[i])]
  <2>1. \A i \in 0..n : h[i] = IF i = 0 THEN <<>> ELSE Collect(h[i - 1], q[i])  BY <1>0, <1>5, <1>6
  <2> QED  BY <1>5, <2>1
<1>8. f = [i \in 0..Len(q) |-> IF i = 0 THEN <<>> ELSE Collect(f[i - 1], q[i])]  BY <1>7 DEF SeenOf
<1> HIDE DEF f
<1>9. f[0] = <<>>  BY <1>0, <1>8
<1>10. \A i \in 1..n : f[i] = Collect(f[i - 1], q[i])  BY <1>0, <1>8
<1> DEFINE A == {i \in 0..n : f[i] \in Seq(S) /\ \A k \in 1..i : HasTag(f[i], q[k])}
<1>11. 0 \in A
  <2>1. 0 \in 0..n /\ \A k \in 1..0 : FALSE  BY <1>0
  <2> QED  BY <1>3, <1>9, <2>1
<1>12. ASSUME NEW i \in 1..n, i - 1 \in A PROVE i \in A
  <2>1. PICK x : x = f[i - 1]  OBVIOUS
  <2>2. x \in Seq(S) /\ \A k \in 1..i - 1 : HasTag(x, q[k])  BY <1>12, <2>1
  <2>3. f[i] = Collect(x, q[i]) /\ q[i] \in S  BY <1>0, <1>10, <2>1
  <2>4. f[i] \in Seq(S) /\ HasTag(f[i], q[i]) /\ \A u : HasTag(x, u) => HasTag(f[i], u)  BY <1>1, <2>2, <2>3
  <2>5. \A k \in 1..i : k = i \/ k \in 1..i - 1  BY <1>0
  <2>6. \A k \in 1..i : HasTag(f[i], q[k])  BY <2>2, <2>4, <2>5
  <2>7. i \in 0..n  BY <1>0
  <2> QED  BY <2>4, <2>6, <2>7
<1> HIDE DEF A
<1>13. 0..n \subseteq A  BY <1>0, <1>11, <1>12, UpTo
<1>14. n \in 0..n  BY <1>0
<1>15. f[n] \in Seq(S) /\ \A k \in 1..n : HasTag(f[n], q[k])  BY <1>13, <1>14 DEF A
<1>16. Seen(q) = f[n]  BY DEF Seen, SeenOf, f
<1> QED  BY <1>15, <1>16

-----------------------------------------------------------------------------
(* What is so of every piece: its calls, and the storage of a struct.      *)
GoodCall(P, c) ==
    \E i \in DOMAIN P : \E s :
        /\ P[i].kind = "fn" /\ P[i].async /\ s.of = P[i].name /\ s.k = "call" /\ IsStatement(P, s)
        /\ c.fn = s.of /\ c.args = s.args
        /\ c.what = Marshal(s.args, Types(P[i])).what /\ c.types = Marshal(s.args, Types(P[i])).types
SlotsIn(P, o, i) == IF o = "program" THEN Slots(P[i].fields) ELSE HotSlots(P[i].fields)
PieceOK(P, o, p) ==
    /\ \A c \in p.calls : GoodCall(P, c)
    /\ p.what = "struct" => p.of \in DOMAIN P /\ p.slots = SlotsIn(P, o, p.of)

\* A name is declared by one declaration only.
LEMMA SameName ==
  ASSUME IsProgram(program), NEW i \in Sources, NEW j \in Sources, NEW x,
         x \in DeclaredBy(program[i]), x \in DeclaredBy(program[j])
  PROVE  i = j
<1>1. \A k \in DOMAIN program : \A l \in DOMAIN program \ {k} : DeclaredBy(program[k]) \cap DeclaredBy(program[l]) = {}
  BY DEF IsProgram
<1> QED  BY <1>1 DEF Sources

\* A declaration declares its name.
LEMMA OwnNameIs ==
  ASSUME NEW d, d.kind \notin {"use", "inline"} PROVE d.name \in DeclaredBy(d)
  BY DEF DeclaredBy

\* The signature of an async call is that of a function declared so.
LEMMA SignatureIs ==
  ASSUME IsProgram(program), NEW f, IsAsync(f)
  PROVE  \E i \in Sources : /\ program[i].kind = "fn" /\ program[i].async /\ program[i].name = f
                            /\ Signature(f) = Types(program[i])
<1>1. PICK j : j \in Named("fn", f) /\ program[j].async  BY DEF IsAsync
<1>2. PICK i : i = CHOOSE k \in Named("fn", f) : program[k].async  OBVIOUS
<1>3. i \in Named("fn", f) /\ program[i].async  BY <1>1, <1>2
<1>4. i \in Sources /\ program[i].kind = "fn" /\ program[i].name = f  BY <1>3 DEF Named, Decls, Sources
<1> QED  BY <1>2, <1>3, <1>4 DEF Signature

\* The calls written for a body are marshalled as their functions want.
LEMMA CallsAreGood ==
  ASSUME IsProgram(program), NEW body, IsBody(program, body), NEW c \in CallsOf(body)
  PROVE  GoodCall(program, c)
<1>1. PICK s \in Statements(body) : s.k = "call" /\ IsAsync(s.of) /\ c = Marshalled(s)  BY DEF CallsOf
<1>2. IsStatement(program, s)  BY BodyClosed
<1>3. PICK f : f = s.of  OBVIOUS
<1>4. PICK i \in Sources : /\ program[i].kind = "fn" /\ program[i].async /\ program[i].name = f
                           /\ Signature(f) = Types(program[i])
  BY <1>1, <1>3, SignatureIs
<1>5. PICK m : m = Marshal(s.args, Signature(f))  OBVIOUS
<1>6. c = [fn |-> f, args |-> s.args, how |-> m.how, what |-> m.what, types |-> m.types]
  BY <1>1, <1>3, <1>5 DEF Marshalled
<1>7. c.fn = f /\ c.args = s.args /\ c.what = m.what /\ c.types = m.types  BY <1>6
<1> QED  BY <1>1, <1>2, <1>3, <1>4, <1>5, <1>7 DEF GoodCall, Sources

\* A piece without calls or storage.
LEMMA PlainOK ==
  ASSUME NEW P, NEW o, NEW p, p.calls = {}, p.what # "struct" PROVE PieceOK(P, o, p)
  BY DEF PieceOK

\* A piece with the code of a body.
LEMMA CodedOK ==
  ASSUME IsProgram(program), NEW p, NEW body, IsBody(program, body), p.calls = CallsOf(body), p.what # "struct"
  PROVE  PieceOK(program, output, p)
  BY CallsAreGood DEF PieceOK

\* The empty body is well formed.
LEMMA EmptyBody == IsBody(program, <<>>)
<1>1. PICK body : body = <<>>  OBVIOUS
<1>2. \A n \in 0..Nesting : Level(body, TRUE)[n] \subseteq {body}
  <2> DEFINE A == {n \in 0..Nesting : Level(body, TRUE)[n] \subseteq {body}}
  <2>0. Nesting \in Nat  BY NestingAssumption
  <2>1. 0 \in A
    <3>1. Level(body, TRUE)[0] = {body}  BY LevelIs
    <3>2. 0 \in 0..Nesting  BY <2>0
    <3> QED  BY <3>1, <3>2
  <2>2. ASSUME NEW n \in 1..Nesting, n - 1 \in A PROVE n \in A
    <3>1. Level(body, TRUE)[n] = Inside(Level(body, TRUE)[n - 1], TRUE)  BY LevelIs
    <3>2. Level(body, TRUE)[n - 1] \subseteq {body}  BY <2>2
    <3>3. DOMAIN body = {}  BY <1>1
    <3>4. Level(body, TRUE)[n] = {}  BY <3>1, <3>2, <3>3 DEF Inside
    <3>5. n \in 0..Nesting  BY <2>0
    <3> QED  BY <3>4, <3>5
  <2> HIDE DEF A
  <2>3. 0..Nesting \subseteq A  BY <2>0, <2>1, <2>2, UpTo
  <2> QED  BY <2>3 DEF A
<1>3. \A b \in Blocks(body, TRUE) : b = body  BY <1>2, BlocksAre
<1>4. Statements(body) = {}
  <2>1. Range(body) = {}  BY <1>1 DEF Range
  <2> QED  BY <1>3, <2>1 DEF Statements, Within
<1>5. body \in Seq(Statements(body))  BY <1>1
<1> QED  BY <1>1, <1>3, <1>4, <1>5 DEF IsBody

-----------------------------------------------------------------------------
(* The pieces of each kind.                                                *)
LEMMA OwnBodies ==
  ASSUME AllWellCoded, NEW i \in Sources
  PROVE  /\ IsBody(program, program[i].body)
         /\ \A m \in DOMAIN program[i].methods : IsBody(program, program[i].methods[m].body)
  BY OwnCode DEF WellCoded

\* The definition of a function, a stub or a method.
LEMMA DefinitionOK ==
  ASSUME IsProgram(program), NEW what, NEW i, NEW d, NEW body, IsBody(program, body), what # "struct"
  PROVE  PieceOK(program, output, Definition(what, i, d, body))
<1>1. PICK p : p = Definition(what, i, d, body)  OBVIOUS
<1>2. p.calls = CallsOf(body) /\ p.what = what  BY <1>1, DefinitionFields DEF Holds
<1>3. PieceOK(program, output, p)  BY <1>2, CodedOK
<1> QED  BY <1>1, <1>3

\* The definition of a function, in full or as a stub.
LEMMA FunctionOK ==
  ASSUME IsProgram(program), AllWellCoded, NEW i \in Sources
  PROVE  PieceOK(program, output, Function(i)) /\ PieceOK(program, output, StubOf(i))
<1>1. PICK w, v : w = "body" /\ v = "stub"  OBVIOUS
<1>2. PICK none : none = <<>>  OBVIOUS
<1>3. w # "struct" /\ v # "struct"  BY <1>1
<1>4. IsBody(program, program[i].body)  BY OwnBodies
<1>5. IsBody(program, none)  BY <1>2, EmptyBody
<1>6. PieceOK(program, output, Definition(w, i, program[i], program[i].body))  BY <1>3, <1>4, DefinitionOK
<1>7. PieceOK(program, output, Definition(v, i, program[i], none))  BY <1>3, <1>5, DefinitionOK
<1>8. Function(i) = Definition(w, i, program[i], program[i].body)  BY <1>1 DEF Function
<1>9. StubOf(i) = Function(i) \/ StubOf(i) = Definition(v, i, program[i], none)  BY <1>1, <1>2 DEF StubOf
<1> QED  BY <1>6, <1>7, <1>8, <1>9

\* The definition of a method.
LEMMA MethodOK ==
  ASSUME IsProgram(program), AllWellCoded, NEW i \in Sources, NEW p, MethodPiece(i, p)
  PROVE  PieceOK(program, output, p)
<1>1. PICK m \in DOMAIN program[i].methods : p = MethodsOf(i)[m]  BY DEF MethodPiece
<1>2. PICK w, d : w = "methods" /\ d = program[i].methods[m]  OBVIOUS
<1>3. p = Definition(w, i, d, d.body)  BY <1>1, <1>2 DEF MethodsOf
<1>4. w # "struct" /\ IsBody(program, d.body)  BY <1>2, OwnBodies
<1>5. PieceOK(program, output, Definition(w, i, d, d.body))  BY <1>4, DefinitionOK
<1> QED  BY <1>3, <1>5

\* A struct.
LEMMA StructOK ==
  ASSUME NEW i \in Sources PROVE PieceOK(program, output, Struct(i))
<1>1. PICK p : p = Struct(i)  OBVIOUS
<1>2. p.calls = {} /\ p.of = i  BY <1>1, StructFields DEF Holds
<1>3. p.slots = SlotsIn(program, output, i)  BY <1>1, StructFields DEF SlotsIn
<1>4. PieceOK(program, output, p)  BY <1>2, <1>3 DEF PieceOK, Sources
<1> QED  BY <1>1, <1>4

\* An error, with its body.
LEMMA ErrorOK ==
  ASSUME IsProgram(program), AllWellCoded, NEW i \in Sources PROVE PieceOK(program, output, Error(i))
<1>1. PICK p : p = Error(i)  OBVIOUS
<1>2. p.calls = CallsOf(program[i].body) /\ p.what = "error"  BY <1>1, ErrorFields DEF Holds
<1>3. IsBody(program, program[i].body)  BY OwnBodies
<1>4. p.what # "struct"  BY <1>2
<1>5. PieceOK(program, output, p)  BY <1>2, <1>3, <1>4, CodedOK
<1> QED  BY <1>1, <1>5

-----------------------------------------------------------------------------
(* The pieces that hold no code.                                           *)
OnlyNames(p, what, of) == p.what = what /\ p.of = of /\ p.calls = {} /\ p.slots = <<>>

\* A piece without calls or storage, as Piece and Top make it.
LEMMA PieceIs ==
  ASSUME NEW what, NEW of, NEW needs, NEW gives, NEW mentions
  PROVE  /\ OnlyNames(Piece(what, of, needs, gives), what, of)
         /\ OnlyNames(Top(what, of, mentions, needs, gives), what, of)
  BY PieceFields, TopFields DEF OnlyNames, Holds, Plain

\* The declarations hold neither calls nor storage.
LEMMA SimplePieces ==
  ASSUME NEW i
  PROVE  /\ OnlyNames(Provides("inline", i), "inline", i) /\ OnlyNames(Provides("use", i), "use", i)
         /\ OnlyNames(Prototype(i), "prototype", i) /\ OnlyNames(Wrapper(i), "wrapper", i)
         /\ OnlyNames(Global(i), "global", i) /\ OnlyNames(Pointer(i), "pointer", i)
         /\ OnlyNames(Enum(i), "enum", i)
         /\ \A m \in DOMAIN program[i].methods : OnlyNames(MethodPrototypes(i)[m], "method", i)
<1>1. \A what : OnlyNames(Provides(what, i), what, i)  BY PieceIs DEF Provides
<1>2. OnlyNames(Prototype(i), "prototype", i)  BY PieceIs DEF Prototype
<1>3. OnlyNames(Wrapper(i), "wrapper", i)  BY PieceIs DEF Wrapper
<1>4. OnlyNames(Global(i), "global", i)  BY PieceIs DEF Global
<1>5. OnlyNames(Pointer(i), "pointer", i)  BY PieceIs DEF Pointer
<1>6. OnlyNames(Enum(i), "enum", i)  BY PieceIs DEF Enum
<1>7. \A m \in DOMAIN program[i].methods : OnlyNames(MethodPrototypes(i)[m], "method", i)
  BY PieceIs DEF MethodPrototypes
<1> QED  BY <1>1, <1>2, <1>3, <1>4, <1>5, <1>6, <1>7

\* A piece that holds neither is well formed.
LEMMA OnlyNamesOK ==
  ASSUME NEW P, NEW o, NEW p, NEW what, NEW of, OnlyNames(p, what, of), what # "struct"
  PROVE  PieceOK(P, o, p)
  BY PlainOK DEF OnlyNames

\* So are all the declarations.
LEMMA SimpleOK ==
  ASSUME NEW i
  PROVE  /\ PieceOK(program, output, Provides("inline", i)) /\ PieceOK(program, output, Provides("use", i))
         /\ PieceOK(program, output, Prototype(i)) /\ PieceOK(program, output, Wrapper(i))
         /\ PieceOK(program, output, Global(i)) /\ PieceOK(program, output, Pointer(i))
         /\ PieceOK(program, output, Enum(i))
         /\ \A m \in DOMAIN program[i].methods : PieceOK(program, output, MethodPrototypes(i)[m])
<1>1. \A p : /\ OnlyNames(p, "inline", i) => PieceOK(program, output, p)
             /\ OnlyNames(p, "use", i) => PieceOK(program, output, p)
             /\ OnlyNames(p, "prototype", i) => PieceOK(program, output, p)
             /\ OnlyNames(p, "wrapper", i) => PieceOK(program, output, p)
             /\ OnlyNames(p, "global", i) => PieceOK(program, output, p)
             /\ OnlyNames(p, "pointer", i) => PieceOK(program, output, p)
             /\ OnlyNames(p, "enum", i) => PieceOK(program, output, p)
             /\ OnlyNames(p, "method", i) => PieceOK(program, output, p)
  BY PlainOK DEF OnlyNames
<1> QED  BY <1>1, SimplePieces

\* Every piece of the loop over types.
LEMMA TypePieceOK ==
  ASSUME IsProgram(program), AllWellCoded, NEW i \in Sources, NEW p, TypePiece(i, p)
  PROVE  PieceOK(program, output, p)
<1>1. CASE p = Struct(i)  BY <1>1, StructOK
<1>2. CASE \E m \in DOMAIN program[i].methods : p = MethodPrototypes(i)[m]  BY <1>2, SimpleOK
<1>3. CASE p = Enum(i)  BY <1>3, SimpleOK
<1>4. CASE p = Error(i)  BY <1>4, ErrorOK
<1> QED  BY <1>1, <1>2, <1>3, <1>4 DEF TypePiece

-----------------------------------------------------------------------------
(* What each step writes.                                                  *)
Chunk(q) ==
    CASE q = "preamble" -> Preamble
      [] q = "inline" -> InlineC
      [] q = "fats" -> FatTypes
      [] q = "uses" -> UseIncludes
      [] q = "types" -> TypeDefinitions
      [] q = "prototypes" -> Prototypes
      [] q = "wrappers" -> Wrappers
      [] q = "globals" -> Globals
      [] q = "bodies" -> Bodies
      [] q = "methods" -> Methods
      [] q = "table" -> Table
      [] q = "stubs" -> Stubs

Names == {"preamble", "inline", "fats", "uses", "types", "prototypes", "wrappers", "globals", "bodies",
          "methods", "table", "stubs"}

\* The pieces of each loop, by its name.
LEMMA ChunkIs ==
  /\ Chunk("preamble") = Preamble /\ Chunk("inline") = InlineC /\ Chunk("fats") = FatTypes
  /\ Chunk("uses") = UseIncludes /\ Chunk("types") = TypeDefinitions /\ Chunk("prototypes") = Prototypes
  /\ Chunk("wrappers") = Wrappers /\ Chunk("globals") = Globals /\ Chunk("bodies") = Bodies
  /\ Chunk("methods") = Methods /\ Chunk("table") = Table /\ Chunk("stubs") = Stubs
  BY DEF Chunk

Writes(q, c) ==
    /\ ~Done /\ q \in Names /\ q = Phases(output)[phase] /\ c = Chunk(q)
    /\ file' = file \o c /\ phase' = phase + 1 /\ program' = program /\ output' = output

\* Every step writes the pieces of the loop whose turn it is.
LEMMA NextWrites == ASSUME Next PROVE \E q, c : Writes(q, c)
<1>1. ASSUME NEW q \in Names, NEW c, c = Chunk(q), Write(q, c) PROVE \E r, d : Writes(r, d)
  <2>1. Writes(q, c)  BY <1>1 DEF Writes, Write
  <2> QED  BY <2>1
<1>2. \E q \in Names : \E c : c = Chunk(q) /\ Write(q, c)
  <2>1. CASE WritePreamble  BY <2>1, ChunkIs DEF WritePreamble, Names
  <2>2. CASE WriteInlineC  BY <2>2, ChunkIs DEF WriteInlineC, Names
  <2>3. CASE WriteFatTypes  BY <2>3, ChunkIs DEF WriteFatTypes, Names
  <2>4. CASE WriteIncludes  BY <2>4, ChunkIs DEF WriteIncludes, Names
  <2>5. CASE WriteTypes  BY <2>5, ChunkIs DEF WriteTypes, Names
  <2>6. CASE WritePrototypes  BY <2>6, ChunkIs DEF WritePrototypes, Names
  <2>7. CASE WriteWrappers  BY <2>7, ChunkIs DEF WriteWrappers, Names
  <2>8. CASE WriteGlobals  BY <2>8, ChunkIs DEF WriteGlobals, Names
  <2>9. CASE WriteBodies  BY <2>9, ChunkIs DEF WriteBodies, Names
  <2>10. CASE WriteMethods  BY <2>10, ChunkIs DEF WriteMethods, Names
  <2>11. CASE WriteTable  BY <2>11, ChunkIs DEF WriteTable, Names
  <2>12. CASE WriteStubs  BY <2>12, ChunkIs DEF WriteStubs, Names
  <2> QED  BY <2>1, <2>2, <2>3, <2>4, <2>5, <2>6, <2>7, <2>8, <2>9, <2>10, <2>11, <2>12 DEF Next
<1> QED  BY <1>1, <1>2

(* The fat pointer types that are written.                                 *)
FatPiece(t) == Top("fat", 0, TypeNeeds(<<"raw">> \o t), {}, {Fat(t)} \cup Tags(TypeNeeds(<<"raw">> \o t)))

\* One fat pointer type for each tag that was found.
LEMMA FatTypesAre ==
  ASSUME IsProgram(program)
  PROVE  /\ Seen(Found) \in Seq(RealTypes) /\ FatTypes = [i \in 1..Len(Seen(Found)) |-> FatPiece(Seen(Found)[i])]
         /\ Len(FatTypes) = Len(Seen(Found)) /\ IsSeq(FatTypes)
<1>1. Found \in Seq(RealTypes)  BY ProgramFacts, FoundIs
<1>2. PICK q : q = Seen(Found)  OBVIOUS
<1>3. q \in Seq(RealTypes)  BY <1>1, <1>2, SeenIs
<1>4. DOMAIN q = 1..Len(q) /\ Len(q) \in Nat  BY <1>3
<1>5. FatTypes = [i \in DOMAIN q |-> FatPiece(q[i])]  BY <1>2 DEF FatTypes, Found, FatPiece
<1>6. PICK s : s = [i \in 1..Len(q) |-> FatPiece(q[i])]  OBVIOUS
<1>7. s \in Seq({FatPiece(q[i]) : i \in 1..Len(q)}) /\ Len(s) = Len(q)  BY <1>4, <1>6
<1>8. IsSeq(s)  BY <1>7, IsSeqIs
<1> QED  BY <1>2, <1>3, <1>4, <1>5, <1>6, <1>7, <1>8

AllOK(c) == IsSeq(c) /\ \A k \in 1..Len(c) : PieceOK(program, output, c[k])

\* A loop that writes well-formed pieces.
LEMMA ListsOK ==
  ASSUME NEW c, NEW T, NEW f, Lists(c, T, f), \A i \in T : PieceOK(program, output, f[i])
  PROVE  AllOK(c)
  BY DEF Lists, AllOK

\* Every loop writes well-formed pieces.
LEMMA ChunkOK ==
  ASSUME IsProgram(program), NEW q \in Names PROVE AllOK(Chunk(q))
<1>0. ProgramIsSeq /\ MethodsAreSeqs /\ AllWellCoded  BY ProgramFacts
<1>1. \A kind : Decls(kind) \subseteq Sources  BY DEF Decls, Sources
<1>2. Wrapped \subseteq Sources /\ Defined \subseteq Sources /\ Pointed \subseteq Sources
  BY <1>1 DEF Wrapped, Defined, Pointed
<1>3. AllOK(Preamble)
  <2>1. PICK gives : gives = IF output = "program" /\ NeedsRuntime THEN Runtime ELSE {}  OBVIOUS
  <2>2. PICK w, z, n : w = "preamble" /\ z = 0 /\ n = {}  OBVIOUS
  <2>3. PICK x : x = Piece(w, z, n, gives)  OBVIOUS
  <2>4. Preamble = <<x>>  BY <2>1, <2>2, <2>3 DEF Preamble
  <2>5. OnlyNames(x, w, z)  BY <2>3, PieceIs
  <2>6. PieceOK(program, output, x)  BY <2>2, <2>5, OnlyNamesOK
  <2>7. IsSeq(<<x>>) /\ Len(<<x>>) = 1 /\ <<x>>[1] = x  BY ShortSeqs
  <2>8. \A k \in 1..1 : k = 1  OBVIOUS
  <2> QED  BY <2>4, <2>6, <2>7, <2>8 DEF AllOK
<1>4. AllOK(FatTypes)
  <2> SUFFICES ASSUME NEW k \in 1..Len(FatTypes) PROVE PieceOK(program, output, FatTypes[k])
    BY FatTypesAre DEF AllOK
  <2>1. PICK t : t = Seen(Found)[k]  OBVIOUS
  <2>2. FatTypes[k] = FatPiece(t)  BY <2>1, FatTypesAre
  <2>3. OnlyNames(FatPiece(t), "fat", 0)  BY PieceIs DEF FatPiece
  <2>4. PICK w : w = "fat"  OBVIOUS
  <2>5. w # "struct" /\ OnlyNames(FatPiece(t), w, 0)  BY <2>3, <2>4
  <2> QED  BY <2>2, <2>5, OnlyNamesOK
<1>5. AllOK(TypeDefinitions)  BY <1>0, TypesLists, TypePieceOK DEF TypesWritten, AllOK
<1>6. AllOK(Methods)  BY <1>0, MethodsLists, MethodOK DEF MethodsWritten, AllOK
<1>7. AllOK(InlineC)
  <2>1. PICK f : f = [i \in Sources |-> Provides("inline", i)]  OBVIOUS
  <2>2. \A i \in Decls("inline") : PieceOK(program, output, f[i])  BY <1>1, <2>1, SimpleOK
  <2> QED  BY <1>0, <2>1, <2>2, InlineCLists, ListsOK
<1>8. AllOK(UseIncludes)
  <2>1. PICK f : f = [i \in Sources |-> Provides("use", i)]  OBVIOUS
  <2>2. \A i \in Decls("use") : PieceOK(program, output, f[i])  BY <1>1, <2>1, SimpleOK
  <2> QED  BY <1>0, <2>1, <2>2, UseIncludesLists, ListsOK
<1>9. AllOK(Prototypes)
  <2>1. PICK f : f = [i \in Sources |-> Prototype(i)]  OBVIOUS
  <2>2. \A i \in Decls("fn") : PieceOK(program, output, f[i])  BY <1>1, <2>1, SimpleOK
  <2> QED  BY <1>0, <2>1, <2>2, PrototypesLists, ListsOK
<1>10. AllOK(Wrappers)
  <2>1. PICK f : f = [i \in Sources |-> Wrapper(i)]  OBVIOUS
  <2>2. \A i \in Wrapped : PieceOK(program, output, f[i])  BY <1>2, <2>1, SimpleOK
  <2> QED  BY <1>0, <2>1, <2>2, WrappersLists, ListsOK
<1>11. AllOK(Globals)
  <2>1. PICK f : f = [i \in Sources |-> Global(i)]  OBVIOUS
  <2>2. \A i \in Decls("var") : PieceOK(program, output, f[i])  BY <1>1, <2>1, SimpleOK
  <2> QED  BY <1>0, <2>1, <2>2, GlobalsLists, ListsOK
<1>12. AllOK(Bodies)
  <2>1. PICK f : f = [i \in Sources |-> Function(i)]  OBVIOUS
  <2>2. \A i \in Defined : PieceOK(program, output, f[i])  BY <1>0, <1>2, <2>1, FunctionOK
  <2> QED  BY <1>0, <2>1, <2>2, BodiesLists, ListsOK
<1>13. AllOK(Table)
  <2>1. PICK f : f = [i \in Sources |-> Pointer(i)]  OBVIOUS
  <2>2. \A i \in Pointed : PieceOK(program, output, f[i])  BY <1>2, <2>1, SimpleOK
  <2> QED  BY <1>0, <2>1, <2>2, TableLists, ListsOK
<1>14. AllOK(Stubs)
  <2>1. PICK f : f = [i \in Sources |-> StubOf(i)]  OBVIOUS
  <2>2. \A i \in Decls("fn") : PieceOK(program, output, f[i])  BY <1>0, <1>1, <2>1, FunctionOK
  <2> QED  BY <1>0, <2>1, <2>2, StubsLists, ListsOK
<1> QED  BY <1>3, <1>4, <1>5, <1>6, <1>7, <1>8, <1>9, <1>10, <1>11, <1>12, <1>13, <1>14, ChunkIs DEF Names

-----------------------------------------------------------------------------
(* A file that is appended to.                                             *)
Appends(h, f, c) ==
    /\ IsSeq(h) /\ Len(h) = Len(f) + Len(c) /\ Len(f) \in Nat /\ Len(c) \in Nat
    /\ \A k \in 1..Len(f) : h[k] = f[k]
    /\ \A k \in 1..Len(c) : h[Len(f) + k] = c[k]

\* Concatenation appends.
LEMMA Appending ==
  ASSUME NEW f, NEW c, IsSeq(f), IsSeq(c), NEW h, h = f \o c PROVE Appends(h, f, c)
<1>1. PICK S : S = Range(f) \cup Range(c)  OBVIOUS
<1>2. f \in Seq(Range(f)) /\ c \in Seq(Range(c))  BY DEF IsSeq
<1>3. Range(f) \subseteq S /\ Range(c) \subseteq S  BY <1>1
<1>4. f \in Seq(S) /\ c \in Seq(S)
  <2>1. PICK A, B : A = Range(f) /\ B = Range(c)  OBVIOUS
  <2>2. f \in Seq(A) /\ c \in Seq(B) /\ A \subseteq S /\ B \subseteq S  BY <1>2, <1>3, <2>1
  <2> QED  BY <2>2
<1>5. h \in Seq(S) /\ Len(h) = Len(f) + Len(c) /\ Len(f) \in Nat /\ Len(c) \in Nat
      /\ (\A k \in 1..Len(f) : h[k] = f[k]) /\ \A k \in 1..Len(c) : h[Len(f) + k] = c[k]
  BY <1>4
<1>6. IsSeq(h)  BY <1>5, IsSeqIs
<1> QED  BY <1>5, <1>6 DEF Appends

(* The invariant: what is written so far is well formed.                   *)
InRange == program \in Programs /\ output \in Outputs /\ phase \in Nat \ {0} /\ IsSeq(file)
WellWritten == InRange /\ \A k \in 1..Len(file) : \A p : p = file[k] => PieceOK(program, output, p)

\* A step keeps the range of the variables and appends well-formed pieces.
LEMMA StepInRange ==
  ASSUME InRange, NEW q, NEW c, Writes(q, c)
  PROVE  InRange' /\ Appends(file', file, c) /\ AllOK(c) /\ IsProgram(program)
<1>1. IsProgram(program)  BY ProgramsAssumption DEF InRange
<1>2. q \in Names /\ c = Chunk(q)  BY DEF Writes
<1>3. AllOK(c)  BY <1>1, <1>2, ChunkOK
<1>4. IsSeq(file) /\ IsSeq(c)  BY <1>3 DEF InRange, AllOK
<1>5. PICK h : h = file'  OBVIOUS
<1>6. h = file \o c  BY <1>5 DEF Writes
<1>7. Appends(h, file, c)  BY <1>4, <1>6, Appending
<1>8. IsSeq(h)  BY <1>7 DEF Appends
<1> QED  BY <1>1, <1>3, <1>5, <1>7, <1>8 DEF InRange, Writes

\* A step keeps the invariant.
LEMMA WellWrittenStep ==
  ASSUME WellWritten, NEW q, NEW c, Writes(q, c) PROVE WellWritten'
<1>1. InRange' /\ Appends(file', file, c) /\ AllOK(c)  BY StepInRange DEF WellWritten
<1>2. PICK h : h = file'  OBVIOUS
<1>3. Appends(h, file, c)  BY <1>1, <1>2
<1>4. program' = program /\ output' = output  BY DEF Writes
<1>5. ASSUME NEW k \in 1..Len(h) PROVE PieceOK(program, output, h[k])
  <2>0. Len(h) = Len(file) + Len(c) /\ Len(file) \in Nat /\ Len(c) \in Nat  BY <1>3 DEF Appends
  <2>1. CASE k \in 1..Len(file)
    <3>1. h[k] = file[k]  BY <1>3, <2>1 DEF Appends
    <3> QED  BY <2>1, <3>1 DEF WellWritten
  <2>2. CASE k \notin 1..Len(file)
    <3>1. PICK m : m = k - Len(file)  OBVIOUS
    <3>2. m \in 1..Len(c) /\ k = Len(file) + m  BY <2>0, <2>2, <3>1
    <3>3. h[k] = c[m]  BY <1>3, <3>2 DEF Appends
    <3> QED  BY <1>1, <3>2, <3>3 DEF AllOK
  <2> QED  BY <2>1, <2>2
<1>6. \A k \in 1..Len(file') : \A p : p = file'[k] => PieceOK(program', output', p)  BY <1>2, <1>4, <1>5
<1> QED  BY <1>1, <1>6 DEF WellWritten

\* The empty file is well formed.
LEMMA WellWrittenInit == ASSUME Init PROVE WellWritten
<1>1. IsSeq(file) /\ Len(file) = 0  BY ShortSeqs DEF Init
<1>2. 1..0 = {}  OBVIOUS
<1> QED  BY <1>1, <1>2 DEF Init, WellWritten, InRange

(* In every reachable state, whatever was written is well formed: the      *)
(* calls of a piece are marshalled for the function they name, and a       *)
(* struct has the storage that emit_struct lays out.                       *)
THEOREM AlwaysWellWritten == Spec => []WellWritten
<1>1. Init => WellWritten  BY WellWrittenInit
<1>2. WellWritten /\ [Next]_vars => WellWritten'
  <2>1. CASE Next  BY <2>1, NextWrites, WellWrittenStep
  <2>2. CASE UNCHANGED vars
    <3>1. WellWritten => WellWritten'  BY <2>2 DEF vars, WellWritten, InRange
    <3> QED  BY <3>1
  <2> QED  BY <2>1, <2>2
<1> QED  BY <1>1, <1>2, PTL DEF Spec

-----------------------------------------------------------------------------
(* The arguments of calls.                                                 *)
LEMMA TypeIsTyped ==
  ASSUME NEW t, IsType(program, t) PROVE Typed(t)
  BY DEF IsType, Typed

\* The arguments of a call that is marshalled so arrive.
LEMMA GoodCallArrives ==
  ASSUME IsProgram(program), NEW c, GoodCall(program, c), Exact(c, Signature(c.fn))
  PROVE  Arrives(c, Signature(c.fn))
<1>0. ProgramIsSeq /\ AllWellCoded  BY ProgramFacts
<1>1. PICK i \in Sources : \E s :
        /\ program[i].kind = "fn" /\ program[i].async /\ s.of = program[i].name /\ s.k = "call" /\ IsStatement(program, s)
        /\ c.fn = s.of /\ c.args = s.args
        /\ c.what = Marshal(s.args, Types(program[i])).what /\ c.types = Marshal(s.args, Types(program[i])).types
  BY DEF GoodCall, Sources
<1>2. PICK s :
        /\ program[i].kind = "fn" /\ program[i].async /\ s.of = program[i].name /\ s.k = "call" /\ IsStatement(program, s)
        /\ c.fn = s.of /\ c.args = s.args
        /\ c.what = Marshal(s.args, Types(program[i])).what /\ c.types = Marshal(s.args, Types(program[i])).types
  BY <1>1
<1>3. PICK f : f = c.fn  OBVIOUS
<1>4. f = program[i].name /\ i \in Named("fn", f)  BY <1>2, <1>3 DEF Named, Decls, Sources
<1>5. IsAsync(f)  BY <1>2, <1>4 DEF IsAsync
<1>6. PICK j \in Sources : /\ program[j].kind = "fn" /\ program[j].async /\ program[j].name = f
                           /\ Signature(f) = Types(program[j])
  BY <1>5, SignatureIs
<1>7. j = i
  <2>1. f \in DeclaredBy(program[i]) /\ f \in DeclaredBy(program[j])  BY <1>2, <1>4, <1>6, OwnNameIs
  <2> QED  BY <2>1, SameName
<1>8. PICK args, params : args = s.args /\ params = Types(program[i])  OBVIOUS
<1>9. IsSeq(args) /\ Accepts(program, args, params)
  <2>1. s.args \in Seq(Range(s.args)) /\ Accepts(program, s.args, Types(program[i]))
    BY <1>2 DEF IsStatement, Sources
  <2> QED  BY <1>8, <2>1 DEF IsSeq
<1>10. IsSeq(params) /\ \A k \in DOMAIN params : IsType(program, params[k])
  <2>1. WellCoded(program[i])  BY <1>0, OwnCode
  <2>2. params \in Seq(SomeTypes) /\ \A k \in DOMAIN params : IsType(program, params[k])
    <3>1. PICK d : d = program[i]  OBVIOUS
    <3>2. Types(d) \in Seq(SomeTypes) /\ \A k \in DOMAIN Types(d) : IsType(program, Types(d)[k])  BY <2>1, <3>1, CodedTypes
    <3> QED  BY <1>8, <3>1, <3>2
  <2> QED  BY <2>2, IsSeqIs
<1>11. /\ Len(args) = Len(params)
       /\ \A k \in DOMAIN args : IsType(program, args[k].type) /\ Assignable(args[k].type, params[k])
  BY <1>9 DEF Accepts
<1>12. DOMAIN args = 1..Len(args) /\ DOMAIN params = 1..Len(params)  BY <1>9, <1>10 DEF IsSeq
<1>13. \A k \in 1..Len(args) : Typed(args[k].type) /\ Typed(params[k]) /\ Assignable(args[k].type, params[k])
  BY <1>10, <1>11, <1>12, TypeIsTyped
<1>14. Signature(c.fn) = params  BY <1>3, <1>6, <1>7, <1>8
<1>15. CallArrives(args, params, c)
  BY <1>2, <1>8, <1>9, <1>10, <1>11, <1>13, <1>14 DEF CallArrives
<1>16. Arrives(c, params)  BY <1>15, CallsArrive
<1> QED  BY <1>14, <1>16

(* The arguments of an async call arrive: what emit_async_call packs, the  *)
(* wrapper or the function reads back in full, for every call of every     *)
(* program (but those that Exact leaves out).                              *)
THEOREM AlwaysArgumentsArrive == Spec => []ArgumentsArrive
<1>1. WellWritten => ArgumentsArrive
  <2> SUFFICES ASSUME WellWritten, NEW k \in DOMAIN file, NEW call \in file[k].calls,
                      Exact(call, Signature(call.fn))
               PROVE  Arrives(call, Signature(call.fn))
    BY DEF ArgumentsArrive
  <2>1. IsProgram(program)  BY ProgramsAssumption DEF WellWritten, InRange
  <2>2. k \in 1..Len(file)  BY DEF WellWritten, InRange, IsSeq
  <2>3. PieceOK(program, output, file[k])  BY <2>2 DEF WellWritten
  <2>4. GoodCall(program, call)  BY <2>3 DEF PieceOK
  <2> QED  BY <2>1, <2>4, GoodCallArrives
<1> QED  BY <1>1, AlwaysWellWritten, PTL

(* The `&` fields of a struct that follow each other overlap, and every    *)
(* other field has storage of its own, for every list of fields.           *)
THEOREM AlwaysLayoutAsDeclared == Spec => []LayoutAsDeclared
<1>1. WellWritten => LayoutAsDeclared
  <2> SUFFICES ASSUME WellWritten, NEW k \in DOMAIN file, file[k].what = "struct"
               PROVE  \/ file[k].slots = Laid(program[file[k].of].fields)
                      \/ /\ output # "program"
                         /\ \E j \in DOMAIN program[file[k].of].fields : program[file[k].of].fields[j].anonymous
    BY DEF LayoutAsDeclared
  <2>0. PICK i, fields : i = file[k].of /\ fields = program[i].fields  OBVIOUS
  <2>1. IsProgram(program)  BY ProgramsAssumption DEF WellWritten, InRange
  <2>2. k \in 1..Len(file)  BY DEF WellWritten, InRange, IsSeq
  <2>3. PieceOK(program, output, file[k])  BY <2>2 DEF WellWritten
  <2>4. i \in Sources /\ file[k].slots = IF output = "program" THEN Slots(fields) ELSE HotSlots(fields)
    BY <2>0, <2>3 DEF PieceOK, SlotsIn, Sources
  <2>5. fields \in Seq(Field)  BY <2>0, <2>1, <2>4, ProgramFacts, OwnCode DEF WellCoded
  <2>6. PICK hot \in BOOLEAN : hot = (output # "program")  OBVIOUS
  <2>7. CASE \E j \in DOMAIN fields : hot /\ fields[j].anonymous  BY <2>0, <2>6, <2>7
  <2>8. CASE \A j \in DOMAIN fields : ~(hot /\ fields[j].anonymous)
    <3>1. Laying(hot, fields)[Len(fields)].slots = Laid(fields)  BY <2>5, <2>8, LaidAsDeclared
    <3>2. CASE output = "program"
      <4>1. hot = FALSE  BY <2>6, <3>2
      <4>2. Slots(fields) = Laying(hot, fields)[Len(fields)].slots  BY <4>1, Layings
      <4> QED  BY <2>0, <2>4, <3>1, <3>2, <4>2
    <3>3. CASE output # "program"
      <4>1. hot = TRUE  BY <2>6, <3>3
      <4>2. HotSlots(fields) = Laying(hot, fields)[Len(fields)].slots  BY <4>1, Layings
      <4> QED  BY <2>0, <2>4, <3>1, <3>3, <4>2
    <3> QED  BY <3>2, <3>3
  <2> QED  BY <2>7, <2>8
<1> QED  BY <1>1, AlwaysWellWritten, PTL

-----------------------------------------------------------------------------
(* No type is scanned that is not in view.                                 *)
From(body, m, s) ==
    \E b \in Level(body, FALSE)[m] : \E i \in DOMAIN b :
        s.type = b[i].type /\ (s.body = <<>> \/ s.body = b[i].body)
Shown(body, n) ==
    \A k \in 1..Len(Opens(body)[n]) :
        \/ From(body, n, Opens(body)[n][k])
        \/ \E m \in 0..n : From(body, m, Opens(body)[n][k]) /\ Opens(body)[n][k].body = <<>>

\* What comes of one statement.
LEMMA StepIs ==
  ASSUME NEW D, NEW body, Closed(D, body), NEW s \in Openings(body), NEW p, NEW m \in 1..Len(Step(s)), p = Step(s)[m]
  PROVE  p = Shut(s) \/ \E l \in 1..Len(s.body) : p = s.body[l]
<1>1. PICK x, r : x = Shut(s) /\ r = s.body  OBVIOUS
<1>2. r \in Seq(Openings(body))  BY <1>1, StepTyped
<1>3. IsSeq(r)  BY <1>2, IsSeqIs
<1>4. Leads(<<x>> \o r, x, r)  BY <1>3, OneAndRest
<1>5. Step(s) = <<x>> \o r  BY <1>1 DEF Step
<1>6. Leads(Step(s), x, r)  BY <1>4, <1>5
<1> QED  BY <1>1, <1>6 DEF Leads

\* What is opened comes of a statement that was there.
LEMMA OpenedFrom ==
  ASSUME NEW D, NEW body, Closed(D, body), NEW b \in Seq(Openings(body)), NEW e \in 1..Len(Opened(b))
  PROVE  \E k \in 1..Len(b) : Opened(b)[e] = Shut(b[k]) \/ \E l \in 1..Len(b[k].body) : Opened(b)[e] = b[k].body[l]
<1> DEFINE g == [i \in DOMAIN b |-> Step(b[i])]
           F == FlattenSeq(g)
<1>1. /\ Opened(b) = F /\ IsSeq(g) /\ Len(g) = Len(b)
      /\ \A i \in 1..Len(b) : g[i] = Step(b[i]) /\ IsSeq(Step(b[i]))
  BY OpenedIs, OpenedTyped
<1> HIDE DEF g
<1>2. Joins(g, Len(g), F)  BY <1>1, Flattened
<1> HIDE DEF F
<1>3. PICK k \in 1..Len(b) : \E m \in 1..Len(Step(b[k])) : F[e] = Step(b[k])[m]
  <2>1. e \in 1..Len(F)  BY <1>1
  <2>2. PICK k \in 1..Len(g) : \E m \in 1..Len(g[k]) : Follows(g, F, e, k, m)  BY <1>2, <2>1 DEF Joins
  <2> QED  BY <1>1, <2>2 DEF Follows
<1>4. PICK s : s = b[k]  OBVIOUS
<1>5. s \in Openings(body)  BY <1>4
<1>6. PICK m \in 1..Len(Step(s)) : F[e] = Step(s)[m]  BY <1>3, <1>4
<1>7. F[e] = Shut(s) \/ \E l \in 1..Len(s.body) : F[e] = s.body[l]  BY <1>5, <1>6, StepIs
<1> QED  BY <1>1, <1>4, <1>7

\* What one more level shows is in view.
LEMMA ShownStep ==
  ASSUME NEW D, NEW body, Closed(D, body), NEW n \in 1..Nesting, Shown(body, n - 1)
  PROVE  Shown(body, n)
<1>0. Nesting \in Nat /\ n \in Nat /\ n - 1 \in 0..Nesting  BY NestingAssumption
<1>1. PICK q, r : q = Opens(body)[n - 1] /\ r = Opens(body)[n]  OBVIOUS
<1>2. q \in Seq(Openings(body)) /\ r = Opened(q)  BY <1>0, <1>1, OpensAre
<1>3. Level(body, FALSE)[n] = Inside(Level(body, FALSE)[n - 1], FALSE)  BY LevelIs
<1>4. ASSUME NEW e \in 1..Len(r)
      PROVE  From(body, n, r[e]) \/ \E m \in 0..n : From(body, m, r[e]) /\ r[e].body = <<>>
  <2>1. PICK k \in 1..Len(q) : r[e] = Shut(q[k]) \/ \E l \in 1..Len(q[k].body) : r[e] = q[k].body[l]
    BY <1>2, <1>4, OpenedFrom
  <2>2. PICK s : s = q[k]  OBVIOUS
  <2>3. From(body, n - 1, s) \/ \E m \in 0..n - 1 : From(body, m, s) /\ s.body = <<>>
    BY <1>1, <2>1, <2>2 DEF Shown
  <2>4. CASE r[e] = Shut(s)
    <3>1. PICK m \in 0..n - 1 : From(body, m, s)
      <4>1. n - 1 \in 0..n - 1  BY <1>0
      <4> QED  BY <2>3, <4>1
    <3>2. r[e].type = s.type /\ r[e].body = <<>>  BY <2>4 DEF Shut
    <3>3. From(body, m, r[e])  BY <3>1, <3>2 DEF From
    <3>4. m \in 0..n  BY <1>0
    <3> QED  BY <3>2, <3>3, <3>4
  <2>5. CASE \E l \in 1..Len(s.body) : r[e] = s.body[l]
    <3>0. PICK l \in 1..Len(s.body) : r[e] = s.body[l]  BY <2>5
    <3>1. s.body # <<>>
      <4>1. s.body = <<>> => 1..Len(s.body) = {}  OBVIOUS
      <4> QED  BY <3>0, <4>1
    <3>2. PICK b \in Level(body, FALSE)[n - 1] : \E i \in DOMAIN b : s.body = b[i].body
      BY <2>3, <3>1 DEF From
    <3>3. PICK c : c = s.body  OBVIOUS
    <3>4. c \in Level(body, FALSE)[n]
      <4>1. PICK i \in DOMAIN b : c = b[i].body  BY <3>2, <3>3
      <4>2. c \in UNION {{b[j].body} \cup (IF FALSE THEN {b[j].alt} ELSE {}) : j \in DOMAIN b}  BY <4>1
      <4>3. PICK L : L = Level(body, FALSE)[n - 1]  OBVIOUS
      <4>4. b \in L  BY <3>2, <4>3
      <4>5. c \in UNION {UNION {{d[j].body} \cup (IF FALSE THEN {d[j].alt} ELSE {}) : j \in DOMAIN d} : d \in L}
        BY <4>2, <4>4
      <4>6. c \in Inside(L, FALSE)  BY <4>5 DEF Inside
      <4> QED  BY <1>3, <4>3, <4>6
    <3>5. DOMAIN c = 1..Len(c)
      <4>1. s \in Openings(body)  BY <1>2, <2>1, <2>2
      <4>2. c \in Seq(Openings(body))  BY <3>3, <4>1, StepTyped
      <4> QED  BY <4>2
    <3>6. l \in DOMAIN c /\ r[e] = c[l]  BY <3>0, <3>3, <3>5
    <3>7. From(body, n, r[e])  BY <3>4, <3>6 DEF From
    <3> QED  BY <3>7
  <2> QED  BY <2>1, <2>2, <2>4, <2>5
<1> QED  BY <1>1, <1>4 DEF Shown

\* Each type that is scanned in a body is in view of it.
LEMMA ScannedInView ==
  ASSUME NEW D, NEW body, Closed(D, body), NEW k \in 1..Len(ScanBody(body))
  PROVE  ScanBody(body)[k] \in InView(body)
<1> DEFINE A == {n \in 0..Nesting : Shown(body, n)}
<1>0. Nesting \in Nat  BY NestingAssumption
<1>1. 0 \in A
  <2>1. Level(body, FALSE)[0] = {body}  BY LevelIs
  <2>2. Opens(body)[0] = body  BY OpensAre
  <2>3. DOMAIN body = 1..Len(body)  BY DEF Closed
  <2>4. \A i \in DOMAIN body : From(body, 0, body[i])  BY <2>1 DEF From
  <2>5. Shown(body, 0)  BY <2>2, <2>3, <2>4 DEF Shown
  <2>6. 0 \in 0..Nesting  BY <1>0
  <2> QED  BY <2>5, <2>6
<1>2. \A n \in 1..Nesting : n - 1 \in A => n \in A  BY <1>0, ShownStep
<1> HIDE DEF A
<1>3. 0..Nesting \subseteq A  BY <1>0, <1>1, <1>2, UpTo
<1>4. Shown(body, Nesting)  BY <1>0, <1>3 DEF A
<1>5. PICK q : q = Opens(body)[Nesting]  OBVIOUS
<1>6. q \in Seq(Openings(body))  BY <1>0, <1>5, OpensAre
<1>7. ScanBody(body) = [i \in 1..Len(q) |-> q[i].type] /\ Len(q) \in Nat
  BY <1>5, <1>6, ScanBodyIs DEF TypesIn
<1>8. k \in 1..Len(q) /\ ScanBody(body)[k] = q[k].type  BY <1>7
<1>9. PICK m \in 0..Nesting : From(body, m, q[k])
  <2>1. Nesting \in 0..Nesting  BY <1>0
  <2> QED  BY <1>4, <1>5, <1>8, <2>1 DEF Shown
<1>10. PICK b \in Level(body, FALSE)[m] : \E i \in DOMAIN b : q[k].type = b[i].type  BY <1>9 DEF From
<1>11. b \in Blocks(body, FALSE)  BY <1>10, BlocksAre
<1>12. PICK s : s \in Range(b) /\ q[k].type = s.type  BY <1>10 DEF Range
<1>13. s \in Within(body, FALSE)  BY <1>11, <1>12 DEF Within
<1> QED  BY <1>8, <1>12, <1>13 DEF InView

-----------------------------------------------------------------------------
(* What is found is in view, and the other way round.                      *)
LEMMA FatPartsFrom ==
  ASSUME NEW t \in SomeTypes, NEW u, IsAt(FatParts(t), u), IsProgram(program)
  PROVE  \E j \in DOMAIN t : t[j] = "fat" /\ u = SubSeq(t, j + 1, Len(t))
<1> DEFINE n == Len(t)
           g == [i \in 1..n |-> PointedTo(t, i)]
<1>1. t \in Seq(STRING) /\ n \in Nat /\ DOMAIN t = 1..n /\ (t = <<>> \/ IsType(program, t))  BY DEF SomeTypes
<1>2. FatParts(t) = FlattenSeq(g)  BY <1>1 DEF FatParts, PointedTo
<1>3. g = [i \in 1..n |-> g[i]] /\ \A i \in 1..n : g[i] = PointedTo(t, i)  OBVIOUS
<1> HIDE DEF g
<1>4. \A i \in 1..n : IsSeq(PointedTo(t, i))  BY ShortSeqs DEF PointedTo
<1>5. IsSeq(g) /\ Len(g) = n
  <2>1. g \in Seq({PointedTo(t, i) : i \in 1..n}) /\ Len(g) = n  BY <1>1, <1>3
  <2> QED  BY <2>1, IsSeqIs
<1>6. PICK F : F = FlattenSeq(g)  OBVIOUS
<1>7. Joins(g, Len(g), F)  BY <1>3, <1>4, <1>5, <1>6, Flattened
<1>8. PICK k \in 1..Len(F) : F[k] = u  BY <1>2, <1>6 DEF IsAt
<1>9. PICK i \in 1..n : \E m \in 1..Len(g[i]) : F[k] = g[i][m]  BY <1>5, <1>7 DEF Joins, Follows
<1>10. PICK m \in 1..Len(PointedTo(t, i)) : u = PointedTo(t, i)[m]  BY <1>3, <1>8, <1>9
<1>11. t[i] = "fat"
  <2>1. Len(<<>>) = 0 /\ 1..0 = {}  OBVIOUS
  <2>2. CASE t[i] # "fat"
    <3>1. PointedTo(t, i) = <<>>  BY <2>2 DEF PointedTo
    <3> QED  BY <1>10, <2>1, <3>1
  <2> QED  BY <2>2
<1>12. PICK x : x = SubSeq(t, i + 1, Len(t))  OBVIOUS
<1>13. PointedTo(t, i) = <<x>>  BY <1>11, <1>12 DEF PointedTo
<1>14. u = x  BY <1>10, <1>13, SeqOfOne
<1> QED  BY <1>1, <1>11, <1>12, <1>14

\* Each type that is scanned for a declaration is in view of it.
LEMMA MentionedFrom ==
  ASSUME AllWellCoded, NEW i \in Sources, NEW t, IsAt(Mentioned(i), t)
  PROVE  t \in {program[i].type} \cup Range(Types(program[i])) \cup InView(program[i].body)
<1>1. PICK d : d = program[i]  OBVIOUS
<1>2. WellCoded(d)  BY <1>1, OwnCode
<1>3. PICK q, r, x, body : q = Types(d) /\ body = d.body /\ r = ScanBody(body) /\ x = d.type  OBVIOUS
<1>4. q \in Seq(SomeTypes) /\ r \in Seq(SomeTypes)  BY <1>2, <1>3, CodedTypes
<1>5. PICK a : a = <<x>> \o q  OBVIOUS
<1>6. Mentioned(i) = a \o r  BY <1>1, <1>3, <1>5 DEF Mentioned
<1>7. IsSeq(q) /\ IsSeq(r)  BY <1>4, IsSeqIs
<1>8. Leads(a, x, q)  BY <1>5, <1>7, OneAndRest
<1>9. IsSeq(a)  BY <1>8 DEF Leads
<1>10. PICK h : h = a \o r  OBVIOUS
<1>11. Appends(h, a, r)  BY <1>7, <1>9, <1>10, Appending
<1>12. PICK k \in 1..Len(h) : h[k] = t  BY <1>6, <1>10 DEF IsAt
<1>13. (\E m \in 1..Len(a) : t = a[m]) \/ \E m \in 1..Len(r) : t = r[m]
  <2>1. CASE k \in 1..Len(a)  BY <1>11, <1>12, <2>1 DEF Appends
  <2>2. CASE k \notin 1..Len(a)
    <3>1. PICK m : m = k - Len(a)  OBVIOUS
    <3>2. m \in 1..Len(r) /\ k = Len(a) + m  BY <1>11, <2>2, <3>1 DEF Appends
    <3> QED  BY <1>11, <1>12, <3>2 DEF Appends
  <2> QED  BY <2>1, <2>2
<1>14. CASE \E m \in 1..Len(a) : t = a[m]
  <2>1. t = x \/ \E m \in 1..Len(q) : t = q[m]  BY <1>8, <1>14 DEF Leads
  <2>2. (\E m \in 1..Len(q) : t = q[m]) => t \in Range(q)  BY <1>4 DEF Range
  <2> QED  BY <1>1, <1>3, <2>1, <2>2
<1>15. CASE \E m \in 1..Len(r) : t = r[m]
  <2>1. PICK m \in 1..Len(ScanBody(body)) : t = ScanBody(body)[m]  BY <1>3, <1>15
  <2>2. PICK D : Closed(D, body)
    <3>1. IsBody(program, body)  BY <1>2, <1>3 DEF WellCoded
    <3> QED  BY <3>1, BodyClosed
  <2>3. t \in InView(body)  BY <2>1, <2>2, ScannedInView
  <2> QED  BY <1>1, <1>3, <2>3
<1> QED  BY <1>13, <1>14, <1>15

\* Each type that is scanned is in view of the program.
LEMMA ScannedFrom ==
  ASSUME ProgramIsSeq, AllWellCoded, NEW t, IsAt(Scanned, t) PROVE t \in TypesInView
<1> DEFINE n == Len(program)
           g == [i \in 1..n |-> Mentioned(i)]
<1>1. n \in Nat /\ Sources = 1..n  BY DEF ProgramIsSeq
<1>2. Scanned = FlattenSeq(g)  BY <1>1 DEF Scanned, Mentioned, Sources
<1>3. g = [i \in 1..n |-> g[i]] /\ \A i \in 1..n : g[i] = Mentioned(i)  OBVIOUS
<1> HIDE DEF g
<1>4. \A i \in 1..n : g[i] \in Seq(SomeTypes)  BY <1>1, <1>3, MentionedAre
<1>5. Flats(FlattenSeq(g), SomeTypes, 1..n, g)  BY <1>1, <1>3, <1>4, FlatOver
<1>6. PICK i \in 1..n : IsAt(Mentioned(i), t)  BY <1>2, <1>3, <1>5 DEF Flats, IsAt
<1>7. t \in {program[i].type} \cup Range(Types(program[i])) \cup InView(program[i].body)
  BY <1>1, <1>6, MentionedFrom
<1> QED  BY <1>1, <1>7 DEF TypesInView, Sources

\* Each fat pointer that is found is in view.
LEMMA FoundInView ==
  ASSUME IsProgram(program), NEW e \in 1..Len(Found) PROVE Found[e] \in Inners
<1>0. ProgramIsSeq /\ AllWellCoded  BY ProgramFacts
<1>1. Scanned \in Seq(SomeTypes)  BY <1>0, ScannedIs
<1>2. PICK q : q = Scanned  OBVIOUS
<1> DEFINE n == Len(q)
           g == [i \in 1..n |-> FatParts(q[i])]
<1>3. q \in Seq(SomeTypes) /\ n \in Nat /\ DOMAIN q = 1..n /\ \A i \in 1..n : q[i] \in SomeTypes  BY <1>1, <1>2
<1>4. Found = FlattenSeq(g)  BY <1>2, <1>3 DEF Found
<1>5. g = [i \in 1..n |-> g[i]] /\ \A i \in 1..n : g[i] = FatParts(q[i])  OBVIOUS
<1> HIDE DEF g
<1>6. \A i \in 1..n : g[i] \in Seq(RealTypes)  BY <1>3, <1>5, FatPartsAre
<1>7. Flats(FlattenSeq(g), RealTypes, 1..n, g)  BY <1>3, <1>5, <1>6, FlatOver
<1>8. PICK i \in 1..n : IsAt(FatParts(q[i]), Found[e])  BY <1>4, <1>5, <1>7 DEF Flats
<1>9. PICK t : t = q[i]  OBVIOUS
<1>10. PICK j \in DOMAIN t : t[j] = "fat" /\ Found[e] = SubSeq(t, j + 1, Len(t))
  <2>1. t \in SomeTypes /\ IsAt(FatParts(t), Found[e])  BY <1>3, <1>8, <1>9
  <2> QED  BY <2>1, FatPartsFrom
<1>11. t \in TypesInView
  <2>1. IsAt(Scanned, t)  BY <1>2, <1>9 DEF IsAt
  <2> QED  BY <1>0, <2>1, ScannedFrom
<1>12. Found[e] \in {SubSeq(t, m + 1, Len(t)) : m \in {m \in DOMAIN t : t[m] = "fat"}}  BY <1>10
<1> QED  BY <1>11, <1>12 DEF Inners

-----------------------------------------------------------------------------
(* Every fat pointer type in view is written, or another of its name.      *)
LEMMA FatsWritten ==
  ASSUME IsProgram(program), NEW t, Met(t)
  PROVE  Shared(t) \/ \E k \in 1..Len(FatTypes) : Fat(t) \in FatTypes[k].gives
<1>1. Found \in Seq(RealTypes) /\ \A u \in Inners : IsAt(Found, u)  BY ProgramFacts, FoundIs
<1>2. PICK q : q = Found  OBVIOUS
<1>3. q \in Seq(Inners)
  <2>1. q \in Seq(RealTypes) /\ \A e \in 1..Len(q) : q[e] \in Inners  BY <1>1, <1>2, FoundInView
  <2> QED  BY <2>1
<1>4. PICK s : s = Seen(q)  OBVIOUS
<1>5. s \in Seq(Inners) /\ \A k \in 1..Len(q) : HasTag(s, q[k])  BY <1>3, <1>4, SeenIs
<1>6. PICK k \in 1..Len(q) : q[k] = t  BY <1>1, <1>2 DEF Met, IsAt
<1>7. PICK m \in 1..Len(s) : Tag(s[m]) = Tag(t)  BY <1>5, <1>6 DEF HasTag
<1>8. s[m] \in Inners  BY <1>5
<1>9. CASE s[m] # t  BY <1>7, <1>8, <1>9 DEF Shared
<1>10. CASE s[m] = t
  <2>1. m \in 1..Len(FatTypes) /\ FatTypes[m] = FatPiece(t)  BY <1>2, <1>4, <1>10, FatTypesAre
  <2>2. PICK p : p = FatPiece(t)  OBVIOUS
  <2>3. PICK w, none, mentions, gives : /\ w = "fat" /\ none = {} /\ mentions = TypeNeeds(<<"raw">> \o t)
                                       /\ gives = {Fat(t)} \cup Tags(TypeNeeds(<<"raw">> \o t))
    OBVIOUS
  <2>4. p = Top(w, 0, mentions, none, gives)  BY <2>2, <2>3 DEF FatPiece
  <2>5. p.gives = gives \cup Tags(mentions)  BY <2>4, TopFields DEF Holds
  <2>6. Fat(t) \in p.gives  BY <2>3, <2>5
  <2> QED  BY <2>1, <2>2, <2>6
<1> QED  BY <1>9, <1>10

-----------------------------------------------------------------------------
(* The names that a type needs.                                            *)
Begun(t, i) == i \in DOMAIN t /\ t[i] \notin {"raw", "array"} /\ \A j \in 1..i - 1 : t[j] \in {"raw", "array"}
NeedsAt(t, i) ==
    IF t[i] = "fat" THEN {Fat(SubSeq(t, i + 1, Len(t)))}
    ELSE IF t[i] \in Containers THEN {<<"name", t[i]>>}
    ELSE IF Named("struct", t[i]) # {}
         THEN {<<IF \E j \in 1..i - 1 : t[j] = "raw" THEN "tag" ELSE "struct", t[i]>>}
    ELSE IF t[i] \in Scalars \cup {"void"} THEN {} ELSE {<<"name", t[i]>>}
FatName(n)    == n[1] = "fat" /\ n = Fat(n[3])
OpenName(n)   == /\ n[1] = "name" /\ n = <<"name", n[2]>>
                 /\ \/ n[2] \in Containers \/ Named("enum", n[2]) # {}
                    \/ Provided({"use"}, n[2]) \/ Provided({"inline"}, n[2])
StructName(n) == n[1] \in {"struct", "tag"} /\ n = <<n[1], n[2]>> /\ Named("struct", n[2]) # {}
TypeName(n)   == FatName(n) \/ OpenName(n) \/ StructName(n)

Shaped(t) ==
    /\ IsSeq(t) /\ Len(t) \in Nat \ {0} /\ DOMAIN t = 1..Len(t) /\ t # <<>>
    /\ t[Len(t)] \notin Outer
    /\ t[Len(t)] \in Scalars \cup Containers \cup {"void"} \cup NamesOf(program, {"struct", "enum"}) \cup NamesIn(program)
    /\ \A i \in 1..Len(t) - 1 : t[i] \in Outer \cup Containers

\* A type ends in a name that stands for something.
LEMMA TypeIsShaped ==
  ASSUME IsProgram(program), NEW t, IsType(program, t) PROVE Shaped(t)
<1>1. t \in Seq(STRING) /\ Len(t) \in Nat \ {0} /\ DOMAIN t = 1..Len(t) /\ t # <<>>  BY DEF IsType
<1>2. IsSeq(t)  BY <1>1, IsSeqIs
<1> QED  BY <1>1, <1>2, LastIsNotOuter DEF IsType, Shaped

\* Some part of a type is neither raw nor an array.
LEMMA TypeBegins ==
  ASSUME NEW t, Shaped(t)
  PROVE  \E i : Begun(t, i)
<1> DEFINE A == {i \in 1..Len(t) : t[i] \notin {"raw", "array"}}
<1>1. Len(t) \in Nat \ {0} /\ DOMAIN t = 1..Len(t)  BY DEF Shaped
<1>2. t[Len(t)] \notin Outer  BY DEF Shaped
<1>3. Len(t) \in A  BY <1>1, <1>2 DEF Outer
<1>4. A \subseteq Nat /\ A # {}  BY <1>1, <1>3
<1> HIDE DEF A
<1>5. PICK i \in A : \A j \in A : i <= j  BY <1>4, Least
<1>6. i \in 1..Len(t) /\ t[i] \notin {"raw", "array"}  BY DEF A
<1>7. ASSUME NEW j \in 1..i - 1 PROVE t[j] \in {"raw", "array"}
  <2>1. j \in 1..Len(t) /\ ~(i <= j)  BY <1>1, <1>6
  <2>2. j \notin A  BY <1>5, <2>1
  <2> QED  BY <2>1, <2>2 DEF A
<1> QED  BY <1>1, <1>6, <1>7 DEF Begun

\* The first such part says what the type needs.
LEMMA TypeNeedsIs ==
  ASSUME NEW t, t # <<>>, \E i : Begun(t, i)
  PROVE  \E i : Begun(t, i) /\ TypeNeeds(t) = NeedsAt(t, i)
<1>1. PICK first : first = CHOOSE i \in DOMAIN t : /\ t[i] \notin {"raw", "array"}
                                                   /\ \A j \in 1..i - 1 : t[j] \in {"raw", "array"}
  OBVIOUS
<1>2. Begun(t, first)
  <2>1. \E i \in DOMAIN t : t[i] \notin {"raw", "array"} /\ \A j \in 1..i - 1 : t[j] \in {"raw", "array"}
    BY DEF Begun
  <2> QED  BY <1>1, <2>1 DEF Begun
<1>3. TypeNeeds(t) = NeedsAt(t, first)  BY <1>1 DEF TypeNeeds, NeedsAt
<1> QED  BY <1>2, <1>3

\* Names of a kind, and provided ones.
LEMMA NamesAre ==
  ASSUME NEW x
  PROVE  /\ \A kind : Named(kind, x) # {} <=> \E i \in Sources : program[i].kind = kind /\ program[i].name = x
         /\ x \in NamesOf(program, {"struct", "enum"}) => Named("struct", x) # {} \/ Named("enum", x) # {}
         /\ x \in NamesOf(program, {"error"}) => Named("error", x) # {}
         /\ x \in NamesOf(program, {"fn", "var", "enum"}) =>
               Named("fn", x) # {} \/ Named("var", x) # {} \/ Named("enum", x) # {}
         /\ x \in NamesIn(program) => Provided({"use"}, x) \/ Provided({"inline"}, x)
<1>1. \A kind : Named(kind, x) # {} <=> \E i \in Sources : program[i].kind = kind /\ program[i].name = x
  BY DEF Named, Decls, Sources
<1>2. \A kinds : x \in NamesOf(program, kinds) => \E i \in Sources : program[i].kind \in kinds /\ program[i].name = x
  <2> SUFFICES ASSUME NEW kinds, x \in NamesOf(program, kinds)
               PROVE  \E i \in Sources : program[i].kind \in kinds /\ program[i].name = x
    OBVIOUS
  <2>1. PICK i \in Sources : x \in IF program[i].kind \in kinds THEN {program[i].name} ELSE {}  BY DEF NamesOf, Sources
  <2> QED  BY <2>1
<1>3. x \in NamesIn(program) => \E i \in Sources : program[i].kind \in {"use", "inline"} /\ x \in program[i].names
  <2> SUFFICES ASSUME x \in NamesIn(program)
               PROVE  \E i \in Sources : program[i].kind \in {"use", "inline"} /\ x \in program[i].names
    OBVIOUS
  <2>1. PICK i \in Sources : x \in IF program[i].kind \in {"use", "inline"} THEN program[i].names ELSE {}
    BY DEF NamesIn, Sources
  <2> QED  BY <2>1
<1>4. x \in NamesIn(program) => Provided({"use"}, x) \/ Provided({"inline"}, x)  BY <1>3 DEF Provided, Sources
<1>5. x \in NamesOf(program, {"struct", "enum"}) => Named("struct", x) # {} \/ Named("enum", x) # {}
  <2>1. x \in NamesOf(program, {"struct", "enum"}) =>
           \E i \in Sources : program[i].kind \in {"struct", "enum"} /\ program[i].name = x
    BY <1>2
  <2> QED  BY <1>1, <2>1
<1>6. x \in NamesOf(program, {"error"}) => Named("error", x) # {}
  <2>1. x \in NamesOf(program, {"error"}) =>
           \E i \in Sources : program[i].kind \in {"error"} /\ program[i].name = x
    BY <1>2
  <2> QED  BY <1>1, <2>1
<1>7. x \in NamesOf(program, {"fn", "var", "enum"}) =>
          Named("fn", x) # {} \/ Named("var", x) # {} \/ Named("enum", x) # {}
  <2>1. x \in NamesOf(program, {"fn", "var", "enum"}) =>
           \E i \in Sources : program[i].kind \in {"fn", "var", "enum"} /\ program[i].name = x
    BY <1>2
  <2> QED  BY <1>1, <2>1
<1> QED  BY <1>1, <1>4, <1>5, <1>6, <1>7

\* A type needs names of types only.
LEMMA TypeNeedsAre ==
  ASSUME NEW t, Shaped(t), NEW n \in TypeNeeds(t)
  PROVE  TypeName(n)
<1>1. Len(t) \in Nat \ {0} /\ DOMAIN t = 1..Len(t) /\ t # <<>>  BY DEF Shaped
<1>2. PICK i : Begun(t, i) /\ TypeNeeds(t) = NeedsAt(t, i)  BY <1>1, TypeBegins, TypeNeedsIs
<1>3. PICK x : x = t[i]  OBVIOUS
<1>4. i \in 1..Len(t) /\ x \notin {"raw", "array"}  BY <1>1, <1>2, <1>3 DEF Begun
<1>5. CASE x = "fat"
  <2>1. PICK u : u = SubSeq(t, i + 1, Len(t))  OBVIOUS
  <2>2. n = Fat(u)  BY <1>2, <1>3, <1>5, <2>1 DEF NeedsAt
  <2>3. n[1] = "fat" /\ n[3] = u  BY <2>2 DEF Fat
  <2> QED  BY <2>2, <2>3 DEF TypeName, FatName
<1>6. CASE x # "fat"
  <2>1. x \in Containers \/ x \in Scalars \cup {"void"} \/ Named("struct", x) # {} \/ Named("enum", x) # {}
        \/ Provided({"use"}, x) \/ Provided({"inline"}, x)
    <3>1. CASE i # Len(t)
      <4>0. Len(t) \in Nat /\ i \in 1..Len(t)  BY <1>1, <1>4
      <4>1. i \in 1..Len(t) - 1  BY <3>1, <4>0
      <4>2. x \in Outer \cup Containers  BY <1>3, <4>1 DEF Shaped
      <4> QED  BY <1>4, <1>6, <4>2 DEF Outer
    <3>2. CASE i = Len(t)
      <4>1. x \in Scalars \cup Containers \cup {"void"} \cup NamesOf(program, {"struct", "enum"}) \cup NamesIn(program)
        BY <1>3, <3>2 DEF Shaped
      <4> QED  BY <4>1, NamesAre
    <3> QED  BY <3>1, <3>2
  <2>2. CASE x \in Containers
    <3>1. n = <<"name", x>>  BY <1>2, <1>3, <1>6, <2>2 DEF NeedsAt
    <3>2. n[1] = "name" /\ n[2] = x  BY <3>1
    <3> QED  BY <2>2, <3>1, <3>2 DEF TypeName, OpenName
  <2>3. CASE x \notin Containers /\ Named("struct", x) # {}
    <3>1. PICK k : k = IF \E j \in 1..i - 1 : t[j] = "raw" THEN "tag" ELSE "struct"  OBVIOUS
    <3>2. n = <<k, x>>  BY <1>2, <1>3, <1>6, <2>3, <3>1 DEF NeedsAt
    <3>3. n[1] = k /\ n[2] = x /\ k \in {"struct", "tag"}  BY <3>1, <3>2
    <3> QED  BY <2>3, <3>2, <3>3 DEF TypeName, StructName
  <2>4. CASE x \notin Containers /\ Named("struct", x) = {}
    <3>1. x \notin Scalars \cup {"void"} /\ n = <<"name", x>>  BY <1>2, <1>3, <1>6, <2>4 DEF NeedsAt
    <3>2. n[1] = "name" /\ n[2] = x  BY <3>1
    <3> QED  BY <2>1, <2>4, <3>1, <3>2 DEF TypeName, OpenName
  <2> QED  BY <2>2, <2>3, <2>4
<1> QED  BY <1>5, <1>6

(* Behind a raw pointer no type is needed complete.                        *)
LEMMA RawNeeds ==
  ASSUME NEW t, Shaped(t)
  PROVE  Shaped(<<"raw">> \o t) /\ \A n \in TypeNeeds(<<"raw">> \o t) : n[1] # "struct"
<1>1. PICK r : r = "raw"  OBVIOUS
<1>2. PICK u : u = <<r>> \o t  OBVIOUS
<1>3. IsSeq(t) /\ Len(t) \in Nat \ {0} /\ DOMAIN t = 1..Len(t)  BY DEF Shaped
<1>4. /\ IsSeq(u) /\ DOMAIN u = 1..Len(u) /\ Len(u) = Len(t) + 1 /\ u[1] = r
      /\ \A k \in 1..Len(t) : u[k + 1] = t[k]
  <2>1. PICK S : S = {r} \cup Range(t)  OBVIOUS
  <2>2. t \in Seq(Range(t)) /\ r \in S /\ Range(t) \subseteq S  BY <1>3, <2>1 DEF IsSeq
  <2>3. t \in Seq(S)
    <3>1. PICK A : A = Range(t)  OBVIOUS
    <3>2. t \in Seq(A) /\ A \subseteq S  BY <2>2, <3>1
    <3> QED  BY <3>2
  <2>4. <<r>> \in Seq(S) /\ Len(<<r>>) = 1 /\ <<r>>[1] = r  BY <2>2
  <2>5. /\ u \in Seq(S) /\ Len(u) = Len(t) + 1 /\ u[1] = r
        /\ \A k \in 1..Len(t) : u[k + 1] = t[k]
    BY <1>2, <2>3, <2>4
  <2>6. IsSeq(u) /\ DOMAIN u = 1..Len(u)  BY <2>5, IsSeqIs
  <2> QED  BY <2>5, <2>6
<1>5. Shaped(u)
  <2>1. u[Len(u)] = t[Len(t)]  BY <1>3, <1>4
  <2>2. ASSUME NEW k \in 1..Len(u) - 1 PROVE u[k] \in Outer \cup Containers
    <3>1. CASE k = 1  BY <1>1, <1>4, <3>1 DEF Outer
    <3>2. CASE k # 1
      <4>1. PICK m : m = k - 1  OBVIOUS
      <4>2. m \in 1..Len(t) - 1 /\ m \in 1..Len(t) /\ k = m + 1  BY <1>3, <1>4, <3>2, <4>1
      <4>3. t[m] \in Outer \cup Containers  BY <4>2 DEF Shaped
      <4> QED  BY <1>4, <4>2, <4>3
    <3> QED  BY <3>1, <3>2
  <2>3. u # <<>>  BY <1>3, <1>4
  <2>4. Len(t) \in 1..Len(t) /\ Len(u) \in Nat \ {0}  BY <1>3, <1>4
  <2> QED  BY <1>4, <2>1, <2>2, <2>3, <2>4 DEF Shaped
<1>6. u # <<>>  BY <1>3, <1>4
<1>7. PICK i : Begun(u, i) /\ TypeNeeds(u) = NeedsAt(u, i)  BY <1>5, <1>6, TypeBegins, TypeNeedsIs
<1>8. i \in 1..Len(u) /\ i # 1 /\ 1 \in 1..i - 1
  <2>1. DOMAIN u = 1..Len(u) /\ Len(u) \in Nat  BY <1>3, <1>4
  <2>2. i \in 1..Len(u) /\ u[i] # "raw"  BY <1>7, <2>1 DEF Begun
  <2> QED  BY <1>1, <1>4, <2>1, <2>2
<1>9. \E j \in 1..i - 1 : u[j] = "raw"  BY <1>1, <1>4, <1>8
<1>10. ASSUME NEW n \in NeedsAt(u, i) PROVE n[1] # "struct"
  <2>1. n = Fat(SubSeq(u, i + 1, Len(u))) \/ n = <<"name", u[i]>> \/ n = <<"tag", u[i]>>
    BY <1>9, <1>10 DEF NeedsAt
  <2> QED  BY <2>1 DEF Fat
<1> QED  BY <1>1, <1>2, <1>5, <1>7, <1>10

-----------------------------------------------------------------------------
(* The names that code needs.                                              *)
ErrorName(n)   == n[1] = "error" /\ n = <<"error", n[2]>> /\ Named("error", n[2]) # {}
RuntimeName(n) == n \in {<<"name", "tc_throw">>, <<"name", "thread_pool_submit">>}
WrapperName(n) == n[1] = "wrapper" /\ n = <<"wrapper", n[2]>> /\ \E i \in Wrapped : program[i].name = n[2]
MethodName(n)  == n[1] = "method" /\ n = <<"method", n[2]>> /\ n[2] \in MethodsIn(program)
ValueName(n)   == /\ n[1] = "name" /\ n = <<"name", n[2]>>
                  /\ \/ Named("fn", n[2]) # {} \/ Named("var", n[2]) # {} \/ Named("enum", n[2]) # {}
                     \/ Provided({"use"}, n[2]) \/ Provided({"inline"}, n[2])
CodeName(n)    == TypeName(n) \/ ErrorName(n) \/ RuntimeName(n) \/ WrapperName(n) \/ MethodName(n) \/ ValueName(n)

\* So does a type that may be absent, complete or not.
LEMMA SomeTypeNeeds ==
  ASSUME IsProgram(program), NEW t, t = <<>> \/ IsType(program, t)
  PROVE  /\ \A n \in TypeNeeds(t) : TypeName(n)
         /\ \A n \in Incomplete(TypeNeeds(t)) : TypeName(n) /\ n[1] # "struct"
<1>1. \A n \in TypeNeeds(t) : TypeName(n)
  <2>1. CASE t = <<>>
    <3>1. TypeNeeds(t) = {}  BY <2>1 DEF TypeNeeds
    <3> QED  BY <3>1
  <2>2. CASE IsType(program, t)  BY <2>2, TypeIsShaped, TypeNeedsAre
  <2> QED  BY <2>1, <2>2
<1>2. ASSUME NEW n \in Incomplete(TypeNeeds(t)) PROVE TypeName(n) /\ n[1] # "struct"
  <2>1. PICK m \in TypeNeeds(t) : n = IF m[1] = "struct" THEN <<"tag", m[2]>> ELSE m  BY DEF Incomplete
  <2>2. TypeName(m)  BY <1>1
  <2>3. CASE m[1] = "struct"
    <3>1. Named("struct", m[2]) # {}  BY <2>2, <2>3 DEF TypeName, FatName, OpenName, StructName
    <3>2. n = <<"tag", m[2]>>  BY <2>1, <2>3
    <3>3. n[1] = "tag" /\ n[2] = m[2]  BY <3>2
    <3> QED  BY <3>1, <3>2, <3>3 DEF TypeName, StructName
  <2>4. CASE m[1] # "struct"  BY <2>1, <2>2, <2>4
  <2> QED  BY <2>3, <2>4
<1> QED  BY <1>1, <1>2

\* So do the types of a declaration or method.
LEMMA TypesNeedAre ==
  ASSUME IsProgram(program), NEW d, WellCoded(d)
  PROVE  /\ \A n \in TypesNeed(Types(d)) : TypeName(n)
         /\ \A n \in Incomplete(TypesNeed(Types(d))) : TypeName(n) /\ n[1] # "struct"
         /\ \A n \in TypeNeeds(d.type) : TypeName(n)
         /\ \A n \in Incomplete(TypeNeeds(d.type)) : TypeName(n) /\ n[1] # "struct"
<1>1. PICK q : q = Types(d)  OBVIOUS
<1>2. \A i \in DOMAIN q : IsType(program, q[i])  BY <1>1, CodedTypes
<1>3. ASSUME NEW n \in TypesNeed(q) PROVE \E i \in DOMAIN q : n \in TypeNeeds(q[i])  BY DEF TypesNeed
<1>4. \A n \in TypesNeed(q) : TypeName(n)  BY <1>2, <1>3, SomeTypeNeeds
<1>5. ASSUME NEW n \in Incomplete(TypesNeed(q)) PROVE TypeName(n) /\ n[1] # "struct"
  <2>1. PICK m \in TypesNeed(q) : n = IF m[1] = "struct" THEN <<"tag", m[2]>> ELSE m  BY DEF Incomplete
  <2>2. PICK i \in DOMAIN q : m \in TypeNeeds(q[i])  BY <1>3
  <2>3. n \in Incomplete(TypeNeeds(q[i]))  BY <2>1, <2>2 DEF Incomplete
  <2> QED  BY <1>2, <2>3, SomeTypeNeeds
<1>6. d.type = <<>> \/ IsType(program, d.type)  BY DEF WellCoded
<1> QED  BY <1>1, <1>4, <1>5, <1>6, SomeTypeNeeds

\* A call through a wrapper is of a signature that has one.
LEMMA WrapperNeeded ==
  ASSUME NEW args, NEW params, IsSeq(args), Len(args) = Len(params), Len(params) \in Nat,
         \A j \in DOMAIN args : Assignable(args[j].type, params[j]),
         Marshal(args, params).how = "wrapper"
  PROVE  HasWrapper(params)
<1> SUFFICES ASSUME ~HasWrapper(params) PROVE FALSE  OBVIOUS
<1>0. Len(args) \in Nat /\ args = [j \in 1..Len(args) |-> args[j]] /\ DOMAIN args = 1..Len(args)  BY DEF IsSeq
<1>1. Len(args) = 0 \/ (Len(args) = 1 /\ IsHandle(params[1]))  BY <1>0 DEF HasWrapper
<1>2. PICK types : types = [j \in DOMAIN args |-> ArgType(args, params, j)]  OBVIOUS
<1>3. PICK what : what = Marshal(args, params).what  OBVIOUS
<1>4. what \in {"box", "struct"}
  <2>1. Marshal(args, params).how = IF what \in {"box", "struct"} THEN "wrapper" ELSE "direct"
    BY <1>3 DEF Marshal
  <2> QED  BY <2>1
<1>5. what = IF args = <<>> THEN "nothing"
             ELSE IF Len(args) > 1 THEN "struct"
             ELSE IF IsHandle(types[1]) THEN "address"
             ELSE IF IsPointer(types[1]) THEN "pointer" ELSE "box"
  BY <1>2, <1>3 DEF Marshal
<1>6. CASE Len(args) = 0
  <2>1. args = <<>>
    <3>1. args \in Seq(Range(args))  BY DEF IsSeq
    <3> QED  BY <1>6, <3>1
  <2> QED  BY <1>4, <1>5, <2>1
<1>7. CASE Len(args) = 1 /\ IsHandle(params[1])
  <2>1. 1 \in DOMAIN args /\ types[1] = ArgType(args, params, 1)  BY <1>0, <1>2, <1>7
  <2>2. Assignable(args[1].type, params[1])  BY <2>1
  <2>3. ~IsScalar(params[1])  BY <1>7 DEF IsHandle, IsScalar, Containers, Scalars
  <2>4. args[1].type = params[1]  BY <2>2, <2>3 DEF Assignable
  <2>5. types[1] = params[1]
    <3>1. 1 <= Len(params)  BY <1>7
    <3> QED  BY <2>1, <2>4, <3>1 DEF ArgType
  <2>6. IsHandle(types[1]) /\ ~(Len(args) > 1)  BY <1>7, <2>5
  <2> QED  BY <1>4, <1>5, <2>6
<1> QED  BY <1>1, <1>6, <1>7

\* So its function is among those with a wrapper.
LEMMA CallNeedsAre ==
  ASSUME IsProgram(program), NEW s, IsStatement(program, s), s.k = "call", IsAsync(s.of),
         Marshal(s.args, Signature(s.of)).how = "wrapper"
  PROVE  \E i \in Wrapped : program[i].name = s.of
<1>1. PICK f : f = s.of  OBVIOUS
<1>2. PICK i \in Sources : /\ program[i].kind = "fn" /\ program[i].async /\ program[i].name = f
                           /\ Signature(f) = Types(program[i])
  BY <1>1, SignatureIs
<1>3. PICK args, params : args = s.args /\ params = Types(program[i])  OBVIOUS
<1>4. IsSeq(args) /\ Accepts(program, args, params)
  <2>1. s.args \in Seq(Range(s.args)) /\ Accepts(program, s.args, Types(program[i]))
    BY <1>1, <1>2 DEF IsStatement, Sources
  <2> QED  BY <1>3, <2>1 DEF IsSeq
<1>5. Len(args) = Len(params) /\ \A j \in DOMAIN args : Assignable(args[j].type, params[j])  BY <1>4 DEF Accepts
<1>6. Len(params) \in Nat  BY <1>4, <1>5 DEF IsSeq
<1>7. Marshal(args, params).how = "wrapper"  BY <1>1, <1>2, <1>3
<1>8. HasWrapper(params)  BY <1>4, <1>5, <1>6, <1>7, WrapperNeeded
<1>9. i \in Wrapped  BY <1>2, <1>3, <1>8 DEF Wrapped, Decls, Sources
<1> QED  BY <1>1, <1>2, <1>9

\* A statement needs names that code may need.
LEMMA StatementNeedsAre ==
  ASSUME IsProgram(program), NEW s, IsStatement(program, s), NEW n \in StatementNeeds(s)
  PROVE  CodeName(n)
<1>1. \A x : x \in Values(program) => ValueName(<<"name", x>>)
  <2> SUFFICES ASSUME NEW x, x \in Values(program) PROVE ValueName(<<"name", x>>)  OBVIOUS
  <2>1. \/ Named("fn", x) # {} \/ Named("var", x) # {} \/ Named("enum", x) # {}
        \/ Provided({"use"}, x) \/ Provided({"inline"}, x)
    BY NamesAre DEF Values
  <2>2. PICK m : m = <<"name", x>>  OBVIOUS
  <2>3. m[1] = "name" /\ m[2] = x  BY <2>2
  <2> QED  BY <2>1, <2>2, <2>3 DEF ValueName
<1>2. CASE s.k = "var"
  <2>1. n \in TypeNeeds(s.type)  BY <1>2 DEF StatementNeeds
  <2>2. s.type = <<>> \/ IsType(program, s.type)  BY DEF IsStatement
  <2> QED  BY <2>1, <2>2, SomeTypeNeeds DEF CodeName
<1>3. CASE s.k = "throw"
  <2>1. n = <<"error", s.of>> \/ n = <<"name", "tc_throw">>  BY <1>3 DEF StatementNeeds
  <2>2. CASE n = <<"name", "tc_throw">>  BY <2>2 DEF CodeName, RuntimeName
  <2>3. CASE n = <<"error", s.of>>
    <3>1. s.of \in NamesOf(program, {"error"})  BY <1>3 DEF IsStatement
    <3>2. Named("error", s.of) # {}  BY <3>1, NamesAre
    <3>3. n[1] = "error" /\ n[2] = s.of  BY <2>3
    <3> QED  BY <2>3, <3>2, <3>3 DEF CodeName, ErrorName
  <2> QED  BY <2>1, <2>2, <2>3
<1>4. CASE s.k = "try"
  <2>1. n = <<"name", "tc_throw">>  BY <1>4 DEF StatementNeeds
  <2> QED  BY <2>1 DEF CodeName, RuntimeName
<1>5. CASE s.k = "call" /\ IsAsync(s.of)
  <2>1. PICK w : w = IF Marshal(s.args, Signature(s.of)).how = "wrapper" THEN "wrapper" ELSE "name"  OBVIOUS
  <2>2. n = <<"name", "thread_pool_submit">> \/ n = <<w, s.of>>  BY <1>5, <2>1 DEF StatementNeeds
  <2>3. CASE n = <<"name", "thread_pool_submit">>  BY <2>3 DEF CodeName, RuntimeName
  <2>4. CASE n = <<w, s.of>> /\ w = "wrapper"
    <3>1. \E i \in Wrapped : program[i].name = s.of  BY <1>5, <2>1, <2>4, CallNeedsAre
    <3>2. n[1] = "wrapper" /\ n[2] = s.of  BY <2>4
    <3> QED  BY <2>4, <3>1, <3>2 DEF CodeName, WrapperName
  <2>5. CASE n = <<w, s.of>> /\ w = "name"
    <3>1. s.of \in Values(program)  BY <1>5 DEF IsStatement
    <3> QED  BY <1>1, <2>5, <3>1 DEF CodeName
  <2> QED  BY <2>1, <2>2, <2>3, <2>4, <2>5
<1>6. CASE s.k = "method"
  <2>1. n = <<"method", s.of>>  BY <1>6 DEF StatementNeeds
  <2>2. s.of \in MethodsIn(program)  BY <1>6 DEF IsStatement
  <2>3. n[1] = "method" /\ n[2] = s.of  BY <2>1
  <2> QED  BY <2>1, <2>2, <2>3 DEF CodeName, MethodName
<1>7. CASE s.k \in {"act", "expr", "if"}
  <2>1. StatementNeeds(s) = {}  BY <1>7 DEF StatementNeeds
  <2> QED  BY <2>1
<1>8. CASE s.k = "name" \/ (s.k = "call" /\ ~IsAsync(s.of))
  <2>1. n = <<"name", s.of>>  BY <1>8 DEF StatementNeeds
  <2>2. s.of \in Values(program)  BY <1>8 DEF IsStatement
  <2> QED  BY <1>1, <2>1, <2>2 DEF CodeName
<1>9. s.k \in {"var", "throw", "try", "call", "act", "expr", "method", "if", "name"}  BY DEF IsStatement
<1> QED  BY <1>2, <1>3, <1>4, <1>5, <1>6, <1>7, <1>8, <1>9

\* So does a body.
LEMMA BodyNeedsAre ==
  ASSUME IsProgram(program), NEW body, IsBody(program, body), NEW n \in BodyNeeds(body)
  PROVE  CodeName(n)
<1>1. PICK s \in Statements(body) : n \in StatementNeeds(s)  BY DEF BodyNeeds
<1>2. IsStatement(program, s)  BY BodyClosed
<1> QED  BY <1>1, <1>2, StatementNeedsAre

\* So does a definition.
LEMMA CodeNeedsAre ==
  ASSUME IsProgram(program), NEW d, WellCoded(d), NEW body, IsBody(program, body)
  PROVE  \A n \in TypeNeeds(d.type) \cup CodeNeeds(d, body) : CodeName(n)
<1>1. \A n \in TypeNeeds(d.type) : TypeName(n)  BY TypesNeedAre
<1>2. \A n \in TypesNeed(Types(d)) : TypeName(n)  BY TypesNeedAre
<1>3. \A n \in BodyNeeds(body) : CodeName(n)  BY BodyNeedsAre
<1>4. ASSUME NEW n \in ArgsType PROVE TypeName(n)
  <2>1. PICK u : u = <<"raw", "i8">>  OBVIOUS
  <2>2. n = <<"fat", "ptr", u>>  BY <2>1 DEF ArgsType
  <2>3. Len(u) = 2 /\ u[1] = "raw"  BY <2>1
  <2>4. Tag(u) = "ptr"  BY <2>3 DEF Tag
  <2>5. n = Fat(u)  BY <2>2, <2>4 DEF Fat
  <2>6. n[1] = "fat" /\ n[3] = u  BY <2>2
  <2> QED  BY <2>5, <2>6 DEF TypeName, FatName
<1>5. \A n \in CodeNeeds(d, body) : n \in BodyNeeds(body) \/ n \in ArgsType \/ n \in TypesNeed(Types(d))
  BY DEF CodeNeeds
<1> QED  BY <1>1, <1>2, <1>3, <1>4, <1>5 DEF CodeName

-----------------------------------------------------------------------------
(* What is declared among the names G.                                     *)
RuntimeIn(G)        == NeedsRuntime => Runtime \subseteq G
ProvidedIn(kind, G) == \A x : Provided({kind}, x) => <<"name", x>> \in G
FatsIn(G)           == \A t : Met(t) => Fat(t) \in G \/ Shared(t)
NamedIn(kind, G)    == \A x : Named(kind, x) # {} => <<"name", x>> \in G
StructsIn(G)        == \A x : Named("struct", x) # {} => <<"struct", x>> \in G /\ <<"tag", x>> \in G
ErrorsIn(G)         == \A x : Named("error", x) # {} => <<"error", x>> \in G
MethodsDeclared(G)  == \A x \in MethodsIn(program) : <<"method", x>> \in G
WrappersIn(G)       == \A i \in Wrapped : <<"wrapper", program[i].name>> \in G

FirstIn(G)  == RuntimeIn(G) /\ ProvidedIn("inline", G) /\ FatsIn(G) /\ ProvidedIn("use", G)
DeclaredTypesIn(G) == StructsIn(G) /\ NamedIn("enum", G) /\ ErrorsIn(G) /\ MethodsDeclared(G)

Excused(p, n) == IF output = "program" THEN Reason(p, n) ELSE HotReason(p, n)

(* A fat pointer type, and a name of the runtime or that was provided.     *)
LEMMA FatExcused ==
  ASSUME NEW G, FatsIn(G), NEW p, NEW n, FatName(n)
  PROVE  n \in G \/ Excused(p, n)
<1>1. n[1] = "fat" /\ n = Fat(n[3])  BY DEF FatName
<1>2. n \in G \/ ~Met(n[3]) \/ Shared(n[3])  BY <1>1 DEF FatsIn
<1>3. ~Met(n[3]) \/ Shared(n[3]) => Reason(p, n) /\ HotReason(p, n)  BY <1>1 DEF Reason, HotReason
<1> QED  BY <1>2, <1>3 DEF Excused

\* A name of the runtime.
LEMMA RuntimeExcused ==
  ASSUME output = "program", NEW G, RuntimeIn(G), ProvidedIn("use", G), NEW p, NEW n, n \in Runtime
  PROVE  n \in G \/ Excused(p, n)
<1>1. PICK x : n = <<"name", x>>  BY DEF Runtime
<1>2. n[2] = x  BY <1>1
<1>3. CASE NeedsRuntime  BY <1>3 DEF RuntimeIn
<1>4. CASE ~NeedsRuntime /\ Provided({"use"}, x)  BY <1>1, <1>4 DEF ProvidedIn
<1>5. CASE ~NeedsRuntime /\ ~Provided({"use"}, x)  BY <1>2, <1>5 DEF Excused, Reason
<1> QED  BY <1>3, <1>4, <1>5

\* A container is a name of the runtime.
LEMMA ContainerIsRuntime ==
  ASSUME NEW x \in Containers PROVE <<"name", x>> \in Runtime
  BY DEF Containers, Runtime

(* After the types.                                                        *)
LEMMA LaterTypeName ==
  ASSUME output = "program", NEW G, FirstIn(G), StructsIn(G), NamedIn("enum", G), NEW p, NEW n, TypeName(n)
  PROVE  n \in G \/ Excused(p, n)
<1>0. RuntimeIn(G) /\ ProvidedIn("inline", G) /\ FatsIn(G) /\ ProvidedIn("use", G)  BY DEF FirstIn
<1>1. CASE FatName(n)  BY <1>0, <1>1, FatExcused
<1>2. CASE StructName(n)  BY <1>2 DEF StructName, StructsIn
<1>3. CASE OpenName(n)
  <2>1. n = <<"name", n[2]>>  BY <1>3 DEF OpenName
  <2>2. CASE n[2] \in Containers
    <3>1. n \in Runtime  BY <2>1, <2>2, ContainerIsRuntime
    <3> QED  BY <1>0, <3>1, RuntimeExcused
  <2>3. CASE Named("enum", n[2]) # {}  BY <2>1, <2>3 DEF NamedIn
  <2>4. CASE Provided({"use"}, n[2])  BY <1>0, <2>1, <2>4 DEF ProvidedIn
  <2>5. CASE Provided({"inline"}, n[2])  BY <1>0, <2>1, <2>5 DEF ProvidedIn
  <2> QED  BY <1>3, <2>2, <2>3, <2>4, <2>5 DEF OpenName
<1> QED  BY <1>1, <1>2, <1>3 DEF TypeName

\* After the globals, for a name that code needs.
LEMMA LaterCodeName ==
  ASSUME output = "program", NEW G, FirstIn(G), DeclaredTypesIn(G), NamedIn("fn", G), WrappersIn(G), NamedIn("var", G),
         NEW p, NEW n, CodeName(n)
  PROVE  n \in G \/ Excused(p, n)
<1>0. StructsIn(G) /\ NamedIn("enum", G) /\ ErrorsIn(G) /\ MethodsDeclared(G)  BY DEF DeclaredTypesIn
<1>00. RuntimeIn(G) /\ ProvidedIn("inline", G) /\ ProvidedIn("use", G)  BY DEF FirstIn
<1>1. CASE TypeName(n)  BY <1>0, <1>1, LaterTypeName
<1>2. CASE ErrorName(n)  BY <1>0, <1>2 DEF ErrorName, ErrorsIn
<1>3. CASE RuntimeName(n)
  <2>1. n \in Runtime  BY <1>3 DEF RuntimeName, Runtime
  <2> QED  BY <1>00, <2>1, RuntimeExcused
<1>4. CASE WrapperName(n)
  <2>1. PICK i \in Wrapped : program[i].name = n[2]  BY <1>4 DEF WrapperName
  <2>2. n = <<"wrapper", program[i].name>>  BY <1>4, <2>1 DEF WrapperName
  <2> QED  BY <2>1, <2>2 DEF WrappersIn
<1>5. CASE MethodName(n)  BY <1>0, <1>5 DEF MethodName, MethodsDeclared
<1>6. CASE ValueName(n)
  <2>1. n = <<"name", n[2]>>  BY <1>6 DEF ValueName
  <2>2. \/ Named("fn", n[2]) # {} \/ Named("var", n[2]) # {} \/ Named("enum", n[2]) # {}
        \/ Provided({"use"}, n[2]) \/ Provided({"inline"}, n[2])
    BY <1>6 DEF ValueName
  <2> QED  BY <1>0, <1>00, <2>1, <2>2 DEF NamedIn, ProvidedIn
<1> QED  BY <1>1, <1>2, <1>3, <1>4, <1>5, <1>6 DEF CodeName

(* Among the types: what stands before declaration i is declared.          *)
BeforeIn(i, G) ==
    \A x : /\ Before(i, {"struct"}, x) => <<"struct", x>> \in G /\ <<"tag", x>> \in G
           /\ Before(i, {"enum"}, x) => <<"name", x>> \in G
           /\ Before(i, {"error"}, x) => <<"error", x>> \in G

\* A type that is mentioned among the types.
LEMMA EarlyTypeName ==
  ASSUME output = "program", NEW G, FirstIn(G), NEW i, BeforeIn(i, G), NEW p, p.of = i,
         p.what \in {"struct", "error", "method"}, NEW n, TypeName(n),
         n[1] = "tag" => p.what # "struct", n[1] = "struct" => p.what # "method"
  PROVE  n \in G \/ Excused(p, n)
<1>0. RuntimeIn(G) /\ ProvidedIn("inline", G) /\ FatsIn(G) /\ ProvidedIn("use", G)  BY DEF FirstIn
<1>1. CASE FatName(n)  BY <1>0, <1>1, FatExcused
<1>2. CASE StructName(n)
  <2>1. n[1] \in {"struct", "tag"} /\ n = <<n[1], n[2]>>  BY <1>2 DEF StructName
  <2>2. CASE Before(i, {"struct"}, n[2])  BY <2>1, <2>2 DEF BeforeIn
  <2>3. CASE ~Before(i, {"struct"}, n[2])
    <3>1. Reason(p, n)  BY <2>1, <2>3 DEF Reason
    <3> QED  BY <3>1 DEF Excused
  <2> QED  BY <2>2, <2>3
<1>3. CASE OpenName(n)
  <2>1. n = <<"name", n[2]>> /\ n[1] = "name"  BY <1>3 DEF OpenName
  <2>2. CASE n[2] \in Containers
    <3>1. n \in Runtime  BY <2>1, <2>2, ContainerIsRuntime
    <3> QED  BY <1>0, <3>1, RuntimeExcused
  <2>3. CASE Named("enum", n[2]) # {}
    <3>1. CASE Before(i, {"enum"}, n[2])  BY <2>1, <3>1 DEF BeforeIn
    <3>2. CASE ~Before(i, {"enum"}, n[2])
      <4>1. p.what \in Early  BY DEF Early
      <4>2. Reason(p, n)  BY <2>1, <2>3, <3>2, <4>1 DEF Reason
      <4> QED  BY <4>2 DEF Excused
    <3> QED  BY <3>1, <3>2
  <2>4. CASE Provided({"use"}, n[2])  BY <1>0, <2>1, <2>4 DEF ProvidedIn
  <2>5. CASE Provided({"inline"}, n[2])  BY <1>0, <2>1, <2>5 DEF ProvidedIn
  <2> QED  BY <1>3, <2>2, <2>3, <2>4, <2>5 DEF OpenName
<1> QED  BY <1>1, <1>2, <1>3 DEF TypeName

\* A name that the body of an error needs.
LEMMA EarlyCodeName ==
  ASSUME output = "program", NEW G, FirstIn(G), NEW i, BeforeIn(i, G), NEW p, p.of = i, p.what = "error",
         NEW n, CodeName(n)
  PROVE  n \in G \/ Excused(p, n)
<1>0. RuntimeIn(G) /\ ProvidedIn("inline", G) /\ ProvidedIn("use", G)  BY DEF FirstIn
<1>1. CASE TypeName(n)  BY <1>1, EarlyTypeName
<1>2. CASE ErrorName(n)
  <2>1. n[1] = "error" /\ n = <<"error", n[2]>>  BY <1>2 DEF ErrorName
  <2>2. CASE Before(i, {"error"}, n[2])  BY <2>1, <2>2 DEF BeforeIn
  <2>3. CASE ~Before(i, {"error"}, n[2])
    <3>1. Reason(p, n)  BY <2>1, <2>3 DEF Reason
    <3> QED  BY <3>1 DEF Excused
  <2> QED  BY <2>2, <2>3
<1>3. CASE RuntimeName(n)
  <2>1. n \in Runtime  BY <1>3 DEF RuntimeName, Runtime
  <2> QED  BY <1>0, <2>1, RuntimeExcused
<1>4. CASE WrapperName(n)
  <2>1. Reason(p, n)  BY <1>4 DEF WrapperName, Reason
  <2> QED  BY <2>1 DEF Excused
<1>5. CASE MethodName(n)
  <2>1. Reason(p, n)  BY <1>5 DEF MethodName, Reason
  <2> QED  BY <2>1 DEF Excused
<1>6. CASE ValueName(n)
  <2>1. n = <<"name", n[2]>> /\ n[1] = "name"  BY <1>6 DEF ValueName
  <2>2. CASE Named("fn", n[2]) # {} \/ Named("var", n[2]) # {}
    <3>1. Reason(p, n)  BY <2>1, <2>2 DEF Reason
    <3> QED  BY <3>1 DEF Excused
  <2>3. CASE Named("enum", n[2]) # {}
    <3>1. OpenName(n)  BY <2>1, <2>3 DEF OpenName
    <3>2. TypeName(n)  BY <3>1 DEF TypeName
    <3> QED  BY <3>2, <1>1
  <2>4. CASE Provided({"use"}, n[2])  BY <1>0, <2>1, <2>4 DEF ProvidedIn
  <2>5. CASE Provided({"inline"}, n[2])  BY <1>0, <2>1, <2>5 DEF ProvidedIn
  <2> QED  BY <1>6, <2>2, <2>3, <2>4, <2>5 DEF ValueName
<1> QED  BY <1>1, <1>2, <1>3, <1>4, <1>5, <1>6 DEF CodeName

(* A fat pointer type itself.                                              *)
LEMMA FatTypeName ==
  ASSUME output = "program", NEW G, RuntimeIn(G), ProvidedIn("inline", G), NEW p, p.what = "fat",
         NEW n, TypeName(n), n[1] \notin {"struct", "tag"}
  PROVE  n \in G \/ Excused(p, n)
<1>1. CASE FatName(n)
  <2>1. Reason(p, n)  BY <1>1 DEF FatName, Reason
  <2> QED  BY <2>1 DEF Excused
<1>2. CASE OpenName(n)
  <2>1. n = <<"name", n[2]>> /\ n[1] = "name"  BY <1>2 DEF OpenName
  <2>2. CASE n[2] \in Containers
    <3>1. n \in Runtime  BY <2>1, <2>2, ContainerIsRuntime
    <3>2. NeedsRuntime => n \in G  BY <3>1 DEF RuntimeIn
    <3>3. ~NeedsRuntime => Reason(p, n)  BY <3>1 DEF Reason
    <3> QED  BY <3>2, <3>3 DEF Excused
  <2>3. CASE Named("enum", n[2]) # {} \/ Provided({"use"}, n[2])
    <3>1. Reason(p, n)  BY <2>1, <2>3 DEF Reason
    <3> QED  BY <3>1 DEF Excused
  <2>4. CASE Provided({"inline"}, n[2])  BY <2>1, <2>4 DEF ProvidedIn
  <2> QED  BY <1>2, <2>2, <2>3, <2>4 DEF OpenName
<1> QED  BY <1>1, <1>2 DEF TypeName, StructName

(* The hot files.                                                          *)
LEMMA NotAFunction ==
  ASSUME IsProgram(program), NEW n, OpenName(n) PROVE Named("fn", n[2]) = {}
<1> SUFFICES ASSUME Named("fn", n[2]) # {} PROVE FALSE  OBVIOUS
<1>1. PICK i \in Sources : program[i].kind = "fn" /\ program[i].name = n[2]  BY NamesAre
<1>2. n[2] \in DeclaredBy(program[i])  BY <1>1, OwnNameIs
<1>3. n[2] \notin Containers
  <2>1. DeclaredBy(program[i]) \cap Containers = {}  BY <1>1 DEF IsProgram, Sources
  <2> QED  BY <1>2, <2>1
<1>4. Named("enum", n[2]) = {}
  <2> SUFFICES ASSUME Named("enum", n[2]) # {} PROVE FALSE  OBVIOUS
  <2>1. PICK j \in Sources : program[j].kind = "enum" /\ program[j].name = n[2]  BY NamesAre
  <2>2. n[2] \in DeclaredBy(program[j])  BY <2>1, OwnNameIs
  <2>3. i = j  BY <1>2, <2>2, SameName
  <2> QED  BY <1>1, <2>1, <2>3
<1>5. ASSUME NEW j \in Sources, program[j].kind \in {"use", "inline"}, n[2] \in program[j].names PROVE FALSE
  <2>1. n[2] \in DeclaredBy(program[j])  BY <1>5 DEF DeclaredBy
  <2>2. i = j  BY <1>2, <2>1, SameName
  <2> QED  BY <1>1, <1>5, <2>2
<1>6. ~Provided({"use"}, n[2]) /\ ~Provided({"inline"}, n[2])  BY <1>5 DEF Provided, Sources
<1> QED  BY <1>3, <1>4, <1>6 DEF OpenName

\* A type that is mentioned in a hot file.
LEMMA HotTypeName ==
  ASSUME IsProgram(program), output \in {"library", "host"}, NEW G,
         output = "library" => ProvidedIn("use", G), NEW p, p.what = "fat" \/ FatsIn(G), NEW n, TypeName(n)
  PROVE  n \in G \/ Excused(p, n)
<1>0. Excused(p, n) <=> HotReason(p, n)  BY DEF Excused
<1>1. CASE FatName(n) /\ FatsIn(G)  BY <1>1, FatExcused
<1>2. CASE FatName(n) /\ p.what = "fat"
  <2>1. HotReason(p, n)  BY <1>2 DEF FatName, HotReason
  <2> QED  BY <1>0, <2>1
<1>3. CASE StructName(n)
  <2>1. HotReason(p, n)  BY <1>3 DEF StructName, HotReason
  <2> QED  BY <1>0, <2>1
<1>4. CASE OpenName(n)
  <2>1. n = <<"name", n[2]>> /\ n[1] = "name"  BY <1>4 DEF OpenName
  <2>2. Named("fn", n[2]) = {}  BY <1>4, NotAFunction
  <2>3. CASE output = "library" /\ Provided({"use"}, n[2])  BY <2>1, <2>3 DEF ProvidedIn
  <2>4. CASE output = "host" \/ ~Provided({"use"}, n[2])
    <3>1. HotReason(p, n)  BY <2>1, <2>2, <2>4 DEF HotReason
    <3> QED  BY <1>0, <3>1
  <2> QED  BY <2>3, <2>4
<1> QED  BY <1>1, <1>2, <1>3, <1>4 DEF TypeName

(* The functions before i are declared, but for main in the library.       *)
FunctionsBefore(i, G) ==
    \A x : Before(i, {"fn"}, x) /\ ~(x = "main" /\ output = "library") => <<"name", x>> \in G

\* A name that code in a hot file needs.
LEMMA HotCodeName ==
  ASSUME IsProgram(program), output \in {"library", "host"}, NEW G, FatsIn(G),
         output = "library" => ProvidedIn("use", G), NEW p, FunctionsBefore(p.of, G), NEW n, CodeName(n)
  PROVE  n \in G \/ Excused(p, n)
<1>0. Excused(p, n) <=> HotReason(p, n)  BY DEF Excused
<1>1. CASE TypeName(n)  BY <1>1, HotTypeName
<1>2. CASE n[1] \notin {"fat", "name"}
  <2>1. HotReason(p, n)  BY <1>2 DEF HotReason
  <2> QED  BY <1>0, <2>1
<1>3. CASE n[1] = "name" /\ n = <<"name", n[2]>>
  <2>1. CASE Named("fn", n[2]) = {} /\ output = "library" /\ Provided({"use"}, n[2])  BY <1>3, <2>1 DEF ProvidedIn
  <2>2. CASE Named("fn", n[2]) = {} /\ (output = "host" \/ ~Provided({"use"}, n[2]))
    <3>1. HotReason(p, n)  BY <1>3, <2>2 DEF HotReason
    <3> QED  BY <1>0, <3>1
  <2>3. CASE Named("fn", n[2]) # {}
    <3>1. CASE Before(p.of, {"fn"}, n[2]) /\ ~(n[2] = "main" /\ output = "library")  BY <1>3, <3>1 DEF FunctionsBefore
    <3>2. CASE ~(Before(p.of, {"fn"}, n[2]) /\ ~(n[2] = "main" /\ output = "library"))
      <4>1. HotReason(p, n)  BY <1>3, <2>3, <3>2 DEF HotReason
      <4> QED  BY <1>0, <4>1
    <3> QED  BY <3>1, <3>2
  <2> QED  BY <2>1, <2>2, <2>3
<1>4. ErrorName(n) \/ WrapperName(n) \/ MethodName(n) => n[1] \notin {"fat", "name"}
  BY DEF ErrorName, WrapperName, MethodName
<1>5. RuntimeName(n) \/ ValueName(n) => n[1] = "name" /\ n = <<"name", n[2]>>  BY DEF RuntimeName, ValueName
<1> QED  BY <1>1, <1>2, <1>3, <1>4, <1>5 DEF CodeName

-----------------------------------------------------------------------------
(* Pieces that fit behind what is declared.                                *)
Avail(H, c, k) == H \cup UNION {c[e].gives : e \in 1..k - 1}
Given(c)       == UNION {c[e].gives : e \in 1..Len(c)}
IsMet(p, n, G)  == n \in G \/ (n \in p.gives /\ n[1] # "struct") \/ Excused(p, n)
AllMet(p, G)   == \A n \in p.needs : IsMet(p, n, G)
Fitting(c, H)  == \A k \in 1..Len(c) : \A p : p = c[k] => AllMet(p, Avail(H, c, k))

Fits(f, T, H) == \A i \in T : \A G : H \subseteq G /\ (\A j \in T : j < i => f[j].gives \subseteq G) => AllMet(f[i], G)

\* A loop over T fits if each piece does, behind those before it.
LEMMA FittingLists ==
  ASSUME NEW c, NEW T, NEW f, Lists(c, T, f), NEW H, Fits(f, T, H)
  PROVE  Fitting(c, H) /\ \A i \in T : f[i].gives \subseteq Given(c)
<1>1. ASSUME NEW k \in 1..Len(c) PROVE AllMet(c[k], Avail(H, c, k))
  <2>1. PICK i \in T : c[k] = f[i] /\ \A j \in T : j < i => \E e \in 1..k - 1 : c[e] = f[j]  BY DEF Lists
  <2>2. PICK G : G = Avail(H, c, k)  OBVIOUS
  <2>3. H \subseteq G  BY <2>2 DEF Avail
  <2>4. ASSUME NEW j \in T, j < i PROVE f[j].gives \subseteq G
    <3>1. PICK e \in 1..k - 1 : c[e] = f[j]  BY <2>1, <2>4
    <3> QED  BY <2>2, <3>1 DEF Avail
  <2>5. AllMet(f[i], G)  BY <2>3, <2>4 DEF Fits
  <2> QED  BY <2>1, <2>2, <2>5
<1>2. ASSUME NEW i \in T PROVE f[i].gives \subseteq Given(c)
  <2>1. PICK k \in 1..Len(c) : c[k] = f[i]  BY DEF Lists
  <2> QED  BY <2>1 DEF Given
<1> QED  BY <1>1, <1>2 DEF Fitting

\* What is met with fewer names is met with more.
LEMMA MoreIsMet ==
  ASSUME NEW p, NEW G, NEW H, H \subseteq G, \A n \in p.needs : n \in H \/ Excused(p, n)
  PROVE  AllMet(p, G)
  BY DEF AllMet, IsMet

(* Nothing is needed.                                                      *)
LEMMA NothingNeeded ==
  ASSUME NEW p, p.needs = {}, NEW G PROVE AllMet(p, G)
  BY DEF AllMet

-----------------------------------------------------------------------------
(* The preamble, inline C and includes.                                    *)
LEMMA PreambleFits ==
  ASSUME NEW H PROVE Fitting(Preamble, H) /\ (output = "program" => RuntimeIn(Given(Preamble)))
<1>1. PICK gives : gives = IF output = "program" /\ NeedsRuntime THEN Runtime ELSE {}  OBVIOUS
<1>2. PICK w, z, n : w = "preamble" /\ z = 0 /\ n = {}  OBVIOUS
<1>3. PICK x : x = Piece(w, z, n, gives)  OBVIOUS
<1>4. PICK c : c = Preamble  OBVIOUS
<1>5. c = <<x>>  BY <1>1, <1>2, <1>3, <1>4 DEF Preamble
<1>6. x.needs = {} /\ x.gives = gives  BY <1>2, <1>3, PieceFields DEF Holds
<1>7. Len(c) = 1 /\ c[1] = x  BY <1>5, ShortSeqs
<1>8. Fitting(c, H)  BY <1>6, <1>7, NothingNeeded DEF Fitting
<1>9. gives \subseteq Given(c)
  <2>1. 1 \in 1..Len(c) /\ c[1].gives = gives  BY <1>6, <1>7
  <2> QED  BY <2>1 DEF Given
<1>10. output = "program" => RuntimeIn(Given(c))  BY <1>1, <1>9 DEF RuntimeIn
<1> QED  BY <1>4, <1>8, <1>10

\* What a header or inline C declares.
LEMMA ProvidesIs ==
  ASSUME NEW what, NEW i
  PROVE  Provides(what, i).needs = {} /\ Provides(what, i).gives = {<<"name", x>> : x \in program[i].names}
<1>1. PICK none, gives : none = {} /\ gives = {<<"name", x>> : x \in program[i].names}  OBVIOUS
<1>2. Provides(what, i) = Piece(what, i, none, gives)  BY <1>1 DEF Provides
<1>3. Provides(what, i).needs = none /\ Provides(what, i).gives = gives  BY <1>2, PieceFields DEF Holds
<1> QED  BY <1>1, <1>3

\* A loop over what is provided fits, and leaves it declared.
LEMMA ProvidedFit ==
  ASSUME NEW H, NEW kind, NEW c, NEW f, \A i \in Sources : f[i] = Provides(kind, i), Lists(c, Decls(kind), f)
  PROVE  Fitting(c, H) /\ ProvidedIn(kind, Given(c))
<1>0. Decls(kind) \subseteq Sources  BY DEF Decls, Sources
<1>1. Fits(f, Decls(kind), H)
  <2>1. \A i \in Decls(kind) : f[i].needs = {}  BY <1>0, ProvidesIs
  <2> QED  BY <2>1, NothingNeeded DEF Fits
<1>2. Fitting(c, H) /\ \A i \in Decls(kind) : f[i].gives \subseteq Given(c)  BY <1>1, FittingLists
<1>3. ASSUME NEW x, Provided({kind}, x) PROVE <<"name", x>> \in Given(c)
  <2>1. PICK i \in Sources : program[i].kind = kind /\ x \in program[i].names  BY <1>3 DEF Provided, Sources
  <2>2. i \in Decls(kind)  BY <2>1 DEF Decls, Sources
  <2>3. f[i].gives = {<<"name", y>> : y \in program[i].names}  BY ProvidesIs
  <2> QED  BY <1>2, <2>1, <2>2, <2>3
<1> QED  BY <1>2, <1>3 DEF ProvidedIn

\* Inline C fits anywhere.
LEMMA InlineFits ==
  ASSUME ProgramIsSeq, NEW H PROVE Fitting(InlineC, H) /\ ProvidedIn("inline", Given(InlineC))
<1>1. PICK f, kind : kind = "inline" /\ f = [i \in Sources |-> Provides("inline", i)]  OBVIOUS
<1>2. PICK c : c = InlineC  OBVIOUS
<1>3. Lists(c, Decls(kind), f)  BY <1>1, <1>2, InlineCLists
<1>4. \A i \in Sources : f[i] = Provides(kind, i)  BY <1>1
<1>5. Fitting(c, H) /\ ProvidedIn(kind, Given(c))  BY <1>3, <1>4, ProvidedFit
<1> QED  BY <1>1, <1>2, <1>5

\* Includes fit anywhere.
LEMMA UsesFit ==
  ASSUME ProgramIsSeq, NEW H PROVE Fitting(UseIncludes, H) /\ ProvidedIn("use", Given(UseIncludes))
<1>1. PICK f, kind : kind = "use" /\ f = [i \in Sources |-> Provides("use", i)]  OBVIOUS
<1>2. PICK c : c = UseIncludes  OBVIOUS
<1>3. Lists(c, Decls(kind), f)  BY <1>1, <1>2, UseIncludesLists
<1>4. \A i \in Sources : f[i] = Provides(kind, i)  BY <1>1
<1>5. Fitting(c, H) /\ ProvidedIn(kind, Given(c))  BY <1>3, <1>4, ProvidedFit
<1> QED  BY <1>1, <1>2, <1>5

-----------------------------------------------------------------------------
(* The fat pointer types.                                                  *)
LEMMA FatPieceIs ==
  ASSUME NEW t
  PROVE  /\ FatPiece(t).what = "fat" /\ FatPiece(t).of = 0 /\ FatPiece(t).needs = TypeNeeds(<<"raw">> \o t)
         /\ Tags(FatPiece(t).needs) \subseteq FatPiece(t).gives
<1>1. PICK w, none, mentions, gives : /\ w = "fat" /\ none = {} /\ mentions = TypeNeeds(<<"raw">> \o t)
                                     /\ gives = {Fat(t)} \cup Tags(TypeNeeds(<<"raw">> \o t))
  OBVIOUS
<1>2. PICK p : p = FatPiece(t)  OBVIOUS
<1>3. p = Top(w, 0, mentions, none, gives)  BY <1>1, <1>2 DEF FatPiece
<1>4. p.what = w /\ p.of = 0 /\ p.needs = mentions \cup none /\ p.gives = gives \cup Tags(mentions)
  BY <1>3, TopFields DEF Holds
<1> QED  BY <1>1, <1>2, <1>4

\* A fat pointer type fits behind the runtime and inline C.
LEMMA FatPieceFits ==
  ASSUME IsProgram(program), output \in Outputs, NEW t \in RealTypes, NEW G,
         output = "program" => RuntimeIn(G) /\ ProvidedIn("inline", G), output = "library" => ProvidedIn("use", G)
  PROVE  AllMet(FatPiece(t), G)
<1>1. PICK p, u : p = FatPiece(t) /\ u = <<"raw">> \o t  OBVIOUS
<1>2. p.what = "fat" /\ p.of = 0 /\ p.needs = TypeNeeds(u) /\ Tags(p.needs) \subseteq p.gives  BY <1>1, FatPieceIs
<1>3. Shaped(u) /\ \A n \in TypeNeeds(u) : n[1] # "struct"
  <2>1. IsType(program, t)  BY DEF RealTypes
  <2> QED  BY <1>1, <2>1, TypeIsShaped, RawNeeds
<1>4. ASSUME NEW n \in p.needs PROVE IsMet(p, n, G)
  <2>1. TypeName(n) /\ n[1] # "struct"  BY <1>2, <1>3, TypeNeedsAre
  <2>2. CASE n[1] = "tag"
    <3>1. n \in Tags(p.needs)  BY <2>2 DEF Tags
    <3> QED  BY <1>2, <2>2, <3>1 DEF IsMet
  <2>3. CASE n[1] # "tag" /\ output = "program"
    <3>1. n \in G \/ Excused(p, n)  BY <1>2, <2>1, <2>3, FatTypeName
    <3> QED  BY <3>1 DEF IsMet
  <2>4. CASE output # "program"
    <3>1. output \in {"library", "host"}  BY <2>4 DEF Outputs
    <3>2. n \in G \/ Excused(p, n)  BY <1>2, <2>1, <3>1, HotTypeName
    <3> QED  BY <3>2 DEF IsMet
  <2> QED  BY <2>2, <2>3, <2>4
<1> QED  BY <1>1, <1>4 DEF AllMet

\* All of them do, and leave those in view declared.
LEMMA FatsFit ==
  ASSUME IsProgram(program), output \in Outputs, NEW H,
         output = "program" => RuntimeIn(H) /\ ProvidedIn("inline", H), output = "library" => ProvidedIn("use", H)
  PROVE  Fitting(FatTypes, H) /\ FatsIn(Given(FatTypes))
<1>1. PICK c : c = FatTypes  OBVIOUS
<1>2. ASSUME NEW k \in 1..Len(c) PROVE AllMet(c[k], Avail(H, c, k))
  <2>1. PICK t : t = Seen(Found)[k]  OBVIOUS
  <2>2. c[k] = FatPiece(t) /\ t \in RealTypes
    <3>1. k \in 1..Len(Seen(Found))  BY <1>1, FatTypesAre
    <3>2. Seen(Found) \in Seq(RealTypes)  BY FatTypesAre
    <3>3. t \in RealTypes  BY <2>1, <3>1, <3>2
    <3> QED  BY <1>1, <2>1, <3>1, <3>3, FatTypesAre
  <2>3. PICK G : G = Avail(H, c, k)  OBVIOUS
  <2>4. H \subseteq G  BY <2>3 DEF Avail
  <2>5. output = "program" => RuntimeIn(G) /\ ProvidedIn("inline", G)  BY <2>4 DEF RuntimeIn, ProvidedIn
  <2>6. output = "library" => ProvidedIn("use", G)  BY <2>4 DEF ProvidedIn
  <2>7. AllMet(FatPiece(t), G)  BY <2>2, <2>5, <2>6, FatPieceFits
  <2> QED  BY <2>2, <2>3, <2>7
<1>3. ASSUME NEW t, Met(t) PROVE Fat(t) \in Given(c) \/ Shared(t)
  BY <1>1, <1>3, FatsWritten DEF Given
<1> QED  BY <1>1, <1>2, <1>3 DEF Fitting, FatsIn

-----------------------------------------------------------------------------
(* The types of a program.                                                 *)
LEMMA TopIs ==
  ASSUME NEW what, NEW of, NEW mentions, NEW needs, NEW gives, NEW p, p = Top(what, of, mentions, needs, gives)
  PROVE  /\ p.what = what /\ p.of = of /\ p.needs = mentions \cup needs
         /\ gives \subseteq p.gives /\ Tags(mentions) \subseteq p.gives
  BY TopFields DEF Holds

\* The prototype of a method.
LEMMA MethodPrototypeIs ==
  ASSUME NEW i, NEW m \in DOMAIN program[i].methods
  PROVE  /\ MethodPrototypes(i)[m].what = "method" /\ MethodPrototypes(i)[m].of = i
         /\ MethodPrototypes(i)[m].needs = Incomplete(TypeNeeds(program[i].methods[m].type))
                                             \cup Incomplete(TypesNeed(Types(program[i].methods[m])))
         /\ <<"method", program[i].methods[m].name>> \in MethodPrototypes(i)[m].gives
<1>1. PICK w, a, b, gives : /\ w = "method" /\ a = Incomplete(TypeNeeds(program[i].methods[m].type))
                            /\ b = Incomplete(TypesNeed(Types(program[i].methods[m])))
                            /\ gives = {<<"method", program[i].methods[m].name>>}
  OBVIOUS
<1>2. PICK p : p = MethodPrototypes(i)[m]  OBVIOUS
<1>3. p = Top(w, i, a, b, gives)  BY <1>1, <1>2 DEF MethodPrototypes
<1>4. p.what = w /\ p.of = i /\ p.needs = a \cup b /\ gives \subseteq p.gives  BY <1>3, TopIs
<1> QED  BY <1>1, <1>2, <1>4

\* An enum.
LEMMA EnumIs ==
  ASSUME NEW i PROVE Enum(i).needs = {} /\ <<"name", program[i].name>> \in Enum(i).gives
<1>1. PICK w, none, gives : w = "enum" /\ none = {} /\ gives = {<<"name", program[i].name>>}  OBVIOUS
<1>2. PICK p : p = Enum(i)  OBVIOUS
<1>3. p = Piece(w, i, none, gives)  BY <1>1, <1>2 DEF Enum
<1>4. p.needs = none /\ p.gives = gives  BY <1>3, PieceFields DEF Holds
<1> QED  BY <1>1, <1>2, <1>4

\* A struct fits behind the types before it.
LEMMA StructFits ==
  ASSUME IsProgram(program), output = "program", NEW i \in Sources, NEW G, FirstIn(G), BeforeIn(i, G)
  PROVE  AllMet(Struct(i), G)
<1>1. PICK p : p = Struct(i)  OBVIOUS
<1>2. p.what = "struct" /\ p.of = i /\ p.needs = TypesNeed(Types(program[i])) /\ Tags(p.needs) \subseteq p.gives
  BY <1>1, StructFields DEF Holds
<1>3. WellCoded(program[i])  BY ProgramFacts, OwnCode
<1>4. ASSUME NEW n \in p.needs PROVE IsMet(p, n, G)
  <2>1. TypeName(n)  BY <1>2, <1>3, TypesNeedAre
  <2>2. CASE n[1] = "tag"
    <3>1. n \in Tags(p.needs)  BY <2>2 DEF Tags
    <3> QED  BY <1>2, <2>2, <3>1 DEF IsMet
  <2>3. CASE n[1] # "tag"
    <3>1. p.what \in {"struct", "error", "method"} /\ p.what # "method"  BY <1>2
    <3>2. n \in G \/ Excused(p, n)  BY <1>2, <2>1, <2>3, <3>1, EarlyTypeName
    <3> QED  BY <3>2 DEF IsMet
  <2> QED  BY <2>2, <2>3
<1> QED  BY <1>1, <1>4 DEF AllMet

\* So does the prototype of a method.
LEMMA MethodPrototypeFits ==
  ASSUME IsProgram(program), output = "program", NEW i \in Sources, NEW m \in DOMAIN program[i].methods,
         NEW G, FirstIn(G), BeforeIn(i, G)
  PROVE  AllMet(MethodPrototypes(i)[m], G)
<1>1. PICK p, d : p = MethodPrototypes(i)[m] /\ d = program[i].methods[m]  OBVIOUS
<1>2. /\ p.what = "method" /\ p.of = i
      /\ p.needs = Incomplete(TypeNeeds(d.type)) \cup Incomplete(TypesNeed(Types(d)))
  <2>1. /\ MethodPrototypes(i)[m].what = "method" /\ MethodPrototypes(i)[m].of = i
        /\ MethodPrototypes(i)[m].needs = Incomplete(TypeNeeds(program[i].methods[m].type))
                                            \cup Incomplete(TypesNeed(Types(program[i].methods[m])))
    BY MethodPrototypeIs
  <2> QED  BY <1>1, <2>1
<1>3. WellCoded(d)  BY <1>1, ProgramFacts, OwnCode
<1>4. ASSUME NEW n \in p.needs PROVE n \in G \/ Excused(p, n)
  <2>1. TypeName(n) /\ n[1] # "struct"  BY <1>2, <1>3, TypesNeedAre
  <2>2. p.what \in {"struct", "error", "method"} /\ p.what # "struct"  BY <1>2
  <2> QED  BY <1>2, <2>1, <2>2, EarlyTypeName
<1> QED  BY <1>1, <1>4, MoreIsMet

\* So does an error.
LEMMA ErrorFits ==
  ASSUME IsProgram(program), output = "program", NEW i \in Sources, NEW G, FirstIn(G), BeforeIn(i, G)
  PROVE  AllMet(Error(i), G)
<1>1. PICK p, d : p = Error(i) /\ d = program[i]  OBVIOUS
<1>2. p.what = "error" /\ p.of = i /\ p.needs = TypesNeed(Types(d)) \cup BodyNeeds(d.body)
  BY <1>1, ErrorFields DEF Holds, ErrorNeeds
<1>3. WellCoded(d)  BY <1>1, ProgramFacts, OwnCode
<1>4. IsBody(program, d.body)  BY <1>3 DEF WellCoded
<1>5. ASSUME NEW n \in p.needs PROVE n \in G \/ Excused(p, n)
  <2>1. n \in TypesNeed(Types(d)) \/ n \in BodyNeeds(d.body)  BY <1>2
  <2>2. CodeName(n)  BY <1>3, <1>4, <2>1, TypesNeedAre, BodyNeedsAre DEF CodeName
  <2> QED  BY <1>2, <2>2, EarlyCodeName
<1> QED  BY <1>1, <1>5, MoreIsMet

EarlierGiven(i, G) == \A j \in 1..i - 1 : \A r : TypePiece(j, r) => r.gives \subseteq G

\* The pieces before declaration i declare what stands before it.
LEMMA BeforeIsGiven ==
  ASSUME output = "program", ProgramIsSeq, NEW i \in Sources, NEW G, EarlierGiven(i, G) PROVE BeforeIn(i, G)
<1>1. ASSUME NEW j \in 1..i - 1, program[j].kind = "struct"
      PROVE  <<"struct", program[j].name>> \in G /\ <<"tag", program[j].name>> \in G
  <2>1. TypePiece(j, Struct(j))  BY <1>1 DEF TypePiece
  <2>2. Struct(j).gives \subseteq G  BY <2>1 DEF EarlierGiven
  <2>3. <<"struct", program[j].name>> \in Struct(j).gives /\ <<"tag", program[j].name>> \in Struct(j).gives
    BY StructFields DEF Holds
  <2> QED  BY <2>2, <2>3
<1>2. ASSUME NEW j \in 1..i - 1, program[j].kind = "enum" PROVE <<"name", program[j].name>> \in G
  <2>1. TypePiece(j, Enum(j))  BY <1>2 DEF TypePiece
  <2>2. Enum(j).gives \subseteq G  BY <2>1 DEF EarlierGiven
  <2> QED  BY <2>2, EnumIs
<1>3. ASSUME NEW j \in 1..i - 1, program[j].kind = "error" PROVE <<"error", program[j].name>> \in G
  <2>1. TypePiece(j, Error(j))  BY <1>3 DEF TypePiece
  <2>2. Error(j).gives \subseteq G  BY <2>1 DEF EarlierGiven
  <2>3. <<"error", program[j].name>> \in Error(j).gives  BY ErrorFields DEF Holds
  <2> QED  BY <2>2, <2>3
<1> QED  BY <1>1, <1>2, <1>3 DEF BeforeIn, Before

\* Each piece of the loop over types fits behind those before it.
LEMMA TypePieceFits ==
  ASSUME IsProgram(program), output = "program", NEW i \in Sources, NEW p, TypePiece(i, p),
         NEW G, FirstIn(G), EarlierGiven(i, G)
  PROVE  AllMet(p, G)
<1>0. BeforeIn(i, G)  BY ProgramFacts, BeforeIsGiven
<1>1. CASE p = Struct(i)  BY <1>0, <1>1, StructFits
<1>2. CASE \E m \in DOMAIN program[i].methods : p = MethodPrototypes(i)[m]  BY <1>0, <1>2, MethodPrototypeFits
<1>3. CASE p = Enum(i)  BY <1>3, EnumIs, NothingNeeded
<1>4. CASE p = Error(i)  BY <1>0, <1>4, ErrorFits
<1> QED  BY <1>1, <1>2, <1>3, <1>4 DEF TypePiece

TypeFits(c, H) ==
    /\ \A i \in Sources : \A p, G : TypePiece(i, p) /\ H \subseteq G /\ EarlierGiven(i, G) => AllMet(p, G)

\* A loop over types fits if each piece does.
LEMMA FittingTypes ==
  ASSUME NEW c, TypesWritten(c), NEW H, TypeFits(c, H)
  PROVE  Fitting(c, H) /\ \A i \in Sources : \A p : TypePiece(i, p) => p.gives \subseteq Given(c)
<1>1. ASSUME NEW k \in 1..Len(c) PROVE AllMet(c[k], Avail(H, c, k))
  <2>1. PICK i \in Sources :
          /\ TypePiece(i, c[k])
          /\ \A j \in 1..i - 1 : \A p : TypePiece(j, p) => \E e \in 1..k - 1 : c[e] = p
    BY DEF TypesWritten
  <2>2. PICK G, p : G = Avail(H, c, k) /\ p = c[k]  OBVIOUS
  <2>3. H \subseteq G  BY <2>2 DEF Avail
  <2>4. EarlierGiven(i, G)
    <3> SUFFICES ASSUME NEW j \in 1..i - 1, NEW r, TypePiece(j, r) PROVE r.gives \subseteq G  BY DEF EarlierGiven
    <3>1. PICK e \in 1..k - 1 : c[e] = r  BY <2>1
    <3> QED  BY <2>2, <3>1 DEF Avail
  <2>5. AllMet(p, G)  BY <2>1, <2>2, <2>3, <2>4 DEF TypeFits
  <2> QED  BY <2>2, <2>5
<1>2. ASSUME NEW i \in Sources, NEW p, TypePiece(i, p) PROVE p.gives \subseteq Given(c)
  <2>1. PICK k \in 1..Len(c) : c[k] = p  BY <1>2 DEF TypesWritten
  <2> QED  BY <2>1 DEF Given
<1> QED  BY <1>1, <1>2 DEF Fitting

\* The types of a program fit, and leave every type declared.
LEMMA TypesFit ==
  ASSUME IsProgram(program), output = "program", NEW H, FirstIn(H)
  PROVE  Fitting(TypeDefinitions, H) /\ DeclaredTypesIn(Given(TypeDefinitions))
<1>1. PICK c : c = TypeDefinitions  OBVIOUS
<1>2. TypesWritten(c)  BY <1>1, ProgramFacts, TypesLists
<1>3. TypeFits(c, H)
  <2> SUFFICES ASSUME NEW i \in Sources, NEW p, NEW G, TypePiece(i, p), H \subseteq G, EarlierGiven(i, G)
               PROVE  AllMet(p, G)
    BY DEF TypeFits
  <2>1. FirstIn(G)  BY DEF FirstIn, RuntimeIn, ProvidedIn, FatsIn
  <2> QED  BY <2>1, TypePieceFits
<1>4. PICK D : D = Given(c)  OBVIOUS
<1>5. Fitting(c, H) /\ \A i \in Sources : \A p : TypePiece(i, p) => p.gives \subseteq D  BY <1>2, <1>3, <1>4, FittingTypes
<1>6. StructsIn(D)
  <2> SUFFICES ASSUME NEW x, Named("struct", x) # {} PROVE <<"struct", x>> \in D /\ <<"tag", x>> \in D  BY DEF StructsIn
  <2>1. PICK i \in Sources : program[i].kind = "struct" /\ program[i].name = x  BY NamesAre
  <2>2. TypePiece(i, Struct(i))  BY <2>1 DEF TypePiece
  <2>3. <<"struct", x>> \in Struct(i).gives /\ <<"tag", x>> \in Struct(i).gives  BY <2>1, StructFields DEF Holds
  <2> QED  BY <1>5, <2>2, <2>3
<1>7. NamedIn("enum", D)
  <2> SUFFICES ASSUME NEW x, Named("enum", x) # {} PROVE <<"name", x>> \in D  BY DEF NamedIn
  <2>1. PICK i \in Sources : program[i].kind = "enum" /\ program[i].name = x  BY NamesAre
  <2>2. TypePiece(i, Enum(i))  BY <2>1 DEF TypePiece
  <2> QED  BY <1>5, <2>1, <2>2, EnumIs
<1>8. ErrorsIn(D)
  <2> SUFFICES ASSUME NEW x, Named("error", x) # {} PROVE <<"error", x>> \in D  BY DEF ErrorsIn
  <2>1. PICK i \in Sources : program[i].kind = "error" /\ program[i].name = x  BY NamesAre
  <2>2. TypePiece(i, Error(i))  BY <2>1 DEF TypePiece
  <2>3. <<"error", x>> \in Error(i).gives  BY <2>1, ErrorFields DEF Holds
  <2> QED  BY <1>5, <2>2, <2>3
<1>9. MethodsDeclared(D)
  <2> SUFFICES ASSUME NEW x \in MethodsIn(program) PROVE <<"method", x>> \in D  BY DEF MethodsDeclared
  <2>1. PICK i \in Sources : x \in IF program[i].kind = "struct"
                                    THEN {program[i].methods[m].name : m \in DOMAIN program[i].methods} ELSE {}
    BY DEF MethodsIn, Sources
  <2>2. PICK m \in DOMAIN program[i].methods : program[i].kind = "struct" /\ x = program[i].methods[m].name  BY <2>1
  <2>3. TypePiece(i, MethodPrototypes(i)[m])  BY <2>2 DEF TypePiece
  <2>4. <<"method", x>> \in MethodPrototypes(i)[m].gives  BY <2>2, MethodPrototypeIs
  <2> QED  BY <1>5, <2>3, <2>4
<1> QED  BY <1>1, <1>4, <1>5, <1>6, <1>7, <1>8, <1>9 DEF DeclaredTypesIn

(* The structs of a hot file.                                              *)
LEMMA HotTypesFit ==
  ASSUME IsProgram(program), output \in {"library", "host"}, NEW H, FatsIn(H),
         output = "library" => ProvidedIn("use", H)
  PROVE  Fitting(TypeDefinitions, H)
<1>1. PICK c : c = TypeDefinitions  OBVIOUS
<1>2. TypesWritten(c)  BY <1>1, ProgramFacts, TypesLists
<1>3. TypeFits(c, H)
  <2> SUFFICES ASSUME NEW i \in Sources, NEW p, NEW G, TypePiece(i, p), H \subseteq G, EarlierGiven(i, G)
               PROVE  AllMet(p, G)
    BY DEF TypeFits
  <2>1. p = Struct(i)  BY DEF TypePiece
  <2>2. p.needs = TypesNeed(Types(program[i]))  BY <2>1, StructFields DEF Holds
  <2>3. WellCoded(program[i])  BY ProgramFacts, OwnCode
  <2>4. ASSUME NEW n \in p.needs PROVE n \in H \/ Excused(p, n)
    <3>1. TypeName(n)  BY <2>2, <2>3, TypesNeedAre
    <3> QED  BY <3>1, HotTypeName
  <2> QED  BY <2>4, MoreIsMet
<1> QED  BY <1>1, <1>2, <1>3, FittingTypes

-----------------------------------------------------------------------------
(* Prototypes, wrappers, globals and the pointers of the host.             *)
LEMMA PrototypeIs ==
  ASSUME NEW i
  PROVE  /\ Prototype(i).of = i
         /\ Prototype(i).needs \subseteq Incomplete(TypeNeeds(program[i].type))
                                            \cup Incomplete(TypesNeed(Types(program[i])))
         /\ <<"name", program[i].name>> \in Prototype(i).gives
<1>1. PICK w, a, b, gives : /\ w = "prototype" /\ a = Incomplete(TypeNeeds(program[i].type))
                            /\ b = (IF HasArgs(program[i]) THEN {} ELSE Incomplete(TypesNeed(Types(program[i]))))
                            /\ gives = {<<"name", program[i].name>>}
  OBVIOUS
<1>2. PICK p : p = Prototype(i)  OBVIOUS
<1>3. p = Top(w, i, a, b, gives)  BY <1>1, <1>2 DEF Prototype
<1>4. p.of = i /\ p.needs = a \cup b /\ gives \subseteq p.gives  BY <1>3, TopIs
<1>5. b \subseteq Incomplete(TypesNeed(Types(program[i])))  BY <1>1
<1> QED  BY <1>1, <1>2, <1>4, <1>5

\* The pointer to a function.
LEMMA PointerIs ==
  ASSUME NEW i
  PROVE  Pointer(i).needs = Incomplete(TypeNeeds(program[i].type)) \cup Incomplete(TypesNeed(Types(program[i])))
<1>1. PICK w, a, b, gives : /\ w = "pointer" /\ a = Incomplete(TypeNeeds(program[i].type))
                            /\ b = Incomplete(TypesNeed(Types(program[i])))
                            /\ gives = {<<"pointer", program[i].name>>}
  OBVIOUS
<1>2. PICK p : p = Pointer(i)  OBVIOUS
<1>3. p = Top(w, i, a, b, gives)  BY <1>1, <1>2 DEF Pointer
<1>4. p.needs = a \cup b  BY <1>3, TopIs
<1> QED  BY <1>1, <1>2, <1>4

\* A global.
LEMMA GlobalIs ==
  ASSUME NEW i
  PROVE  /\ Global(i).what = "global" /\ Global(i).of = i
         /\ Global(i).needs = TypeNeeds(program[i].type) \cup {<<"name", x>> : x \in program[i].init}
         /\ <<"name", program[i].name>> \in Global(i).gives
<1>1. PICK w, a, b, gives : /\ w = "global" /\ a = TypeNeeds(program[i].type)
                            /\ b = {<<"name", x>> : x \in program[i].init}
                            /\ gives = {<<"name", program[i].name>>}
  OBVIOUS
<1>2. PICK p : p = Global(i)  OBVIOUS
<1>3. p = Top(w, i, a, b, gives)  BY <1>1, <1>2 DEF Global
<1>4. p.what = w /\ p.of = i /\ p.needs = a \cup b /\ gives \subseteq p.gives  BY <1>3, TopIs
<1> QED  BY <1>1, <1>2, <1>4

\* The wrapper of an async function.
LEMMA WrapperIs ==
  ASSUME NEW i
  PROVE  /\ Wrapper(i).needs = TypesNeed(Types(program[i])) \cup {<<"name", program[i].name>>}
         /\ Wrapper(i).gives = {<<"wrapper", program[i].name>>}
<1>1. PICK w, a, gives : /\ w = "wrapper" /\ a = TypesNeed(Types(program[i])) \cup {<<"name", program[i].name>>}
                         /\ gives = {<<"wrapper", program[i].name>>}
  OBVIOUS
<1>2. PICK p : p = Wrapper(i)  OBVIOUS
<1>3. p = Piece(w, i, a, gives)  BY <1>1, <1>2 DEF Wrapper
<1>4. p.needs = a /\ p.gives = gives  BY <1>3, PieceFields DEF Holds
<1> QED  BY <1>1, <1>2, <1>4

\* Prototypes fit behind the types, and leave every function declared.
LEMMA PrototypesFit ==
  ASSUME IsProgram(program), output = "program", NEW H, FirstIn(H), DeclaredTypesIn(H)
  PROVE  Fitting(Prototypes, H) /\ NamedIn("fn", Given(Prototypes))
<1>1. PICK f, c : f = [i \in Sources |-> Prototype(i)] /\ c = Prototypes  OBVIOUS
<1>2. Lists(c, Decls("fn"), f)  BY <1>1, ProgramFacts, PrototypesLists
<1>3. PICK T : T = Decls("fn")  OBVIOUS
<1>4. \A i \in T : i \in Sources /\ f[i] = Prototype(i)  BY <1>1, <1>3 DEF Decls, Sources
<1>5. Fits(f, T, H)
  <2> SUFFICES ASSUME NEW i \in T, NEW G, H \subseteq G PROVE AllMet(f[i], G)  BY DEF Fits
  <2>1. WellCoded(program[i])  BY <1>4, ProgramFacts, OwnCode
  <2>2. ASSUME NEW n \in f[i].needs PROVE n \in H \/ Excused(f[i], n)
    <3>1. TypeName(n)  BY <1>4, <2>1, PrototypeIs, TypesNeedAre
    <3> QED  BY <3>1, LaterTypeName DEF DeclaredTypesIn
  <2> QED  BY <2>2, MoreIsMet
<1>6. PICK D : D = Given(c)  OBVIOUS
<1>7. Fitting(c, H) /\ \A i \in T : f[i].gives \subseteq D  BY <1>2, <1>3, <1>5, <1>6, FittingLists
<1>8. NamedIn("fn", D)
  <2> SUFFICES ASSUME NEW x, Named("fn", x) # {} PROVE <<"name", x>> \in D  BY DEF NamedIn
  <2>1. PICK i \in Sources : program[i].kind = "fn" /\ program[i].name = x  BY NamesAre
  <2>2. i \in T  BY <1>3, <2>1 DEF Decls, Sources
  <2> QED  BY <1>4, <1>7, <2>1, <2>2, PrototypeIs
<1> QED  BY <1>1, <1>6, <1>7, <1>8

\* Wrappers fit behind the prototypes, and leave every wrapper declared.
LEMMA WrappersFit ==
  ASSUME IsProgram(program), output = "program", NEW H, FirstIn(H), DeclaredTypesIn(H), NamedIn("fn", H)
  PROVE  Fitting(Wrappers, H) /\ WrappersIn(Given(Wrappers))
<1>1. PICK f, c : f = [i \in Sources |-> Wrapper(i)] /\ c = Wrappers  OBVIOUS
<1>2. Lists(c, Wrapped, f)  BY <1>1, ProgramFacts, WrappersLists
<1>3. \A i \in Wrapped : i \in Sources /\ f[i] = Wrapper(i) /\ program[i].kind = "fn"
  BY <1>1 DEF Wrapped, Decls, Sources
<1>4. Fits(f, Wrapped, H)
  <2> SUFFICES ASSUME NEW i \in Wrapped, NEW G, H \subseteq G PROVE AllMet(f[i], G)  BY DEF Fits
  <2>1. WellCoded(program[i])  BY <1>3, ProgramFacts, OwnCode
  <2>2. ASSUME NEW n \in f[i].needs PROVE n \in H \/ Excused(f[i], n)
    <3>1. n \in TypesNeed(Types(program[i])) \/ n = <<"name", program[i].name>>  BY <1>3, WrapperIs
    <3>2. CASE n \in TypesNeed(Types(program[i]))
      <4>1. TypeName(n)  BY <2>1, <3>2, TypesNeedAre
      <4> QED  BY <4>1, LaterTypeName DEF DeclaredTypesIn
    <3>3. CASE n = <<"name", program[i].name>>
      <4>1. PICK x : x = program[i].name  OBVIOUS
      <4>2. Named("fn", x) # {}  BY <1>3, <4>1, NamesAre
      <4> QED  BY <3>3, <4>1, <4>2 DEF NamedIn
    <3> QED  BY <3>1, <3>2, <3>3
  <2> QED  BY <2>2, MoreIsMet
<1>5. PICK D : D = Given(c)  OBVIOUS
<1>6. Fitting(c, H) /\ \A i \in Wrapped : f[i].gives \subseteq D  BY <1>2, <1>4, <1>5, FittingLists
<1>7. WrappersIn(D)  BY <1>3, <1>6, WrapperIs DEF WrappersIn
<1> QED  BY <1>1, <1>5, <1>6, <1>7

\* Globals fit behind the prototypes, and leave every global declared.
LEMMA GlobalsFit ==
  ASSUME IsProgram(program), output = "program", NEW H, FirstIn(H), DeclaredTypesIn(H), NamedIn("fn", H)
  PROVE  Fitting(Globals, H) /\ NamedIn("var", Given(Globals))
<1>1. PICK f, c : f = [i \in Sources |-> Global(i)] /\ c = Globals  OBVIOUS
<1>2. PICK T : T = Decls("var")  OBVIOUS
<1>3. Lists(c, T, f)  BY <1>1, <1>2, ProgramFacts, GlobalsLists
<1>4. \A i \in T : i \in Sources /\ f[i] = Global(i)  BY <1>1, <1>2 DEF Decls, Sources
<1>5. \A i \in Sources : program[i].kind = "var" => i \in T  BY <1>2 DEF Decls, Sources
<1>6. Fits(f, T, H)
  <2> SUFFICES ASSUME NEW i \in T, NEW G, H \subseteq G, \A j \in T : j < i => f[j].gives \subseteq G PROVE AllMet(f[i], G)
    BY DEF Fits
  <2>0. PICK p : p = f[i]  OBVIOUS
  <2>1. p.what = "global" /\ p.of = i /\ p.needs = TypeNeeds(program[i].type) \cup {<<"name", x>> : x \in program[i].init}
    <3>1. /\ Global(i).what = "global" /\ Global(i).of = i
          /\ Global(i).needs = TypeNeeds(program[i].type) \cup {<<"name", x>> : x \in program[i].init}
      BY GlobalIs
    <3>2. p = Global(i)  BY <1>4, <2>0
    <3> QED  BY <3>1, <3>2
  <2>2. WellCoded(program[i]) /\ program[i].init \subseteq Values(program)
    <3>1. WellCoded(program[i])  BY <1>4, ProgramFacts, OwnCode
    <3>2. program[i].init \subseteq Values(program)  BY <1>4 DEF IsProgram, Sources
    <3> QED  BY <3>1, <3>2
  <2>3. ASSUME NEW n \in p.needs PROVE n \in G \/ Excused(p, n)
    <3>1. CASE n \in TypeNeeds(program[i].type)
      <4>1. TypeName(n)  BY <2>2, <3>1, TypesNeedAre
      <4>2. n \in H \/ Excused(p, n)  BY <4>1, LaterTypeName DEF DeclaredTypesIn
      <4> QED  BY <4>2
    <3>2. CASE n \in {<<"name", x>> : x \in program[i].init}
      <4>1. PICK x \in program[i].init : n = <<"name", x>>  BY <3>2
      <4>2. n[1] = "name" /\ n[2] = x  BY <4>1
      <4>3. \/ Named("fn", x) # {} \/ Named("var", x) # {} \/ Named("enum", x) # {}
            \/ Provided({"use"}, x) \/ Provided({"inline"}, x)
        BY <2>2, NamesAre DEF Values
      <4>4. CASE Named("fn", x) # {} \/ Named("enum", x) # {} \/ Provided({"use"}, x) \/ Provided({"inline"}, x)
        <5>1. n \in H  BY <4>1, <4>4 DEF NamedIn, DeclaredTypesIn, FirstIn, ProvidedIn
        <5> QED  BY <5>1
      <4>5. CASE Named("var", x) # {} /\ Before(i, {"var"}, x)
        <5>1. PICK j \in 1..i - 1 : program[j].kind = "var" /\ program[j].name = x  BY <4>5 DEF Before
        <5>2. j \in Sources /\ j < i
          <6>1. Sources = 1..Len(program) /\ Len(program) \in Nat  BY ProgramFacts DEF ProgramIsSeq
          <6> QED  BY <1>4, <5>1, <6>1
        <5>3. j \in T /\ f[j] = Global(j)  BY <1>4, <1>5, <5>1, <5>2
        <5>4. <<"name", x>> \in f[j].gives  BY <5>1, <5>3, GlobalIs
        <5> QED  BY <4>1, <5>2, <5>3, <5>4
      <4>6. CASE Named("var", x) # {} /\ ~Before(i, {"var"}, x)
        <5>1. Reason(p, n)  BY <2>1, <4>2, <4>6 DEF Reason
        <5> QED  BY <5>1 DEF Excused
      <4> QED  BY <4>3, <4>4, <4>5, <4>6
    <3> QED  BY <2>1, <3>1, <3>2
  <2>4. G \subseteq G  OBVIOUS
  <2> QED  BY <2>0, <2>3, <2>4, MoreIsMet
<1>7. PICK D : D = Given(c)  OBVIOUS
<1>8. Fitting(c, H) /\ \A i \in T : f[i].gives \subseteq D  BY <1>3, <1>6, <1>7, FittingLists
<1>9. NamedIn("var", D)
  <2> SUFFICES ASSUME NEW x, Named("var", x) # {} PROVE <<"name", x>> \in D  BY DEF NamedIn
  <2>1. PICK i \in Sources : program[i].kind = "var" /\ program[i].name = x  BY NamesAre
  <2> QED  BY <1>4, <1>5, <1>8, <2>1, GlobalIs
<1> QED  BY <1>1, <1>7, <1>8, <1>9

-----------------------------------------------------------------------------
(* The definitions.                                                        *)
AllIn(H) == FirstIn(H) /\ DeclaredTypesIn(H) /\ NamedIn("fn", H) /\ WrappersIn(H) /\ NamedIn("var", H)

\* A definition fits behind everything else.
LEMMA DefinitionFits ==
  ASSUME IsProgram(program), output = "program", NEW H, AllIn(H), NEW d, WellCoded(d), NEW body, IsBody(program, body),
         NEW what, NEW i, NEW G, H \subseteq G
  PROVE  AllMet(Definition(what, i, d, body), G)
<1>1. PICK p : p = Definition(what, i, d, body)  OBVIOUS
<1>2. p.needs = TypeNeeds(d.type) \cup CodeNeeds(d, body)  BY <1>1, DefinitionFields DEF Holds
<1>3. ASSUME NEW n \in p.needs PROVE n \in H \/ Excused(p, n)
  <2>1. CodeName(n)  BY <1>2, CodeNeedsAre
  <2> QED  BY <2>1, LaterCodeName DEF AllIn
<1> QED  BY <1>1, <1>3, MoreIsMet

\* In a hot file, behind the fat pointer types and earlier functions.
LEMMA HotDefinitionFits ==
  ASSUME IsProgram(program), output \in {"library", "host"}, NEW H, FatsIn(H),
         output = "library" => ProvidedIn("use", H), NEW d, WellCoded(d), NEW body, IsBody(program, body),
         NEW what, NEW i, NEW G, H \subseteq G, FunctionsBefore(i, G)
  PROVE  AllMet(Definition(what, i, d, body), G)
<1>1. PICK p : p = Definition(what, i, d, body)  OBVIOUS
<1>2. p.needs = TypeNeeds(d.type) \cup CodeNeeds(d, body) /\ p.of = i  BY <1>1, DefinitionFields DEF Holds
<1>3. FatsIn(G) /\ (output = "library" => ProvidedIn("use", G))  BY DEF FatsIn, ProvidedIn
<1>4. ASSUME NEW n \in p.needs PROVE n \in G \/ Excused(p, n)
  <2>1. CodeName(n)  BY <1>2, CodeNeedsAre
  <2> QED  BY <1>2, <1>3, <2>1, HotCodeName
<1> QED  BY <1>1, <1>4, MoreIsMet

\* A definition declares its function.
LEMMA OwnNameGiven ==
  ASSUME NEW what, NEW i, NEW body, what # "methods"
  PROVE  <<"name", program[i].name>> \in Definition(what, i, program[i], body).gives
<1>1. PICK d : d = program[i]  OBVIOUS
<1>2. Definition(what, i, d, body).gives = OwnName(what, d) \cup Tags(TypeNeeds(d.type))  BY DefinitionFields DEF Holds
<1> QED  BY <1>1, <1>2 DEF OwnName

\* The bodies of a program fit.
LEMMA BodiesFit ==
  ASSUME IsProgram(program), output = "program", NEW H, AllIn(H) PROVE Fitting(Bodies, H)
<1>1. PICK f, c : f = [i \in Sources |-> Function(i)] /\ c = Bodies  OBVIOUS
<1>2. Lists(c, Defined, f)  BY <1>1, ProgramFacts, BodiesLists
<1>3. \A i \in Defined : i \in Sources /\ f[i] = Function(i)  BY <1>1 DEF Defined, Decls, Sources
<1>4. Fits(f, Defined, H)
  <2> SUFFICES ASSUME NEW i \in Defined, NEW G, H \subseteq G PROVE AllMet(f[i], G)  BY DEF Fits
  <2>1. PICK d, w : d = program[i] /\ w = "body"  OBVIOUS
  <2>2. WellCoded(d)  BY <1>3, <2>1, ProgramFacts, OwnCode
  <2>3. IsBody(program, d.body)  BY <2>2 DEF WellCoded
  <2>4. f[i] = Definition(w, i, d, d.body)  BY <1>3, <2>1 DEF Function
  <2> QED  BY <2>2, <2>3, <2>4, DefinitionFits
<1> QED  BY <1>1, <1>2, <1>4, FittingLists

\* The methods of a program fit.
LEMMA MethodsFit ==
  ASSUME IsProgram(program), output = "program", NEW H, AllIn(H) PROVE Fitting(Methods, H)
<1>1. PICK c : c = Methods  OBVIOUS
<1>2. MethodsWritten(c)  BY <1>1, ProgramFacts, MethodsLists
<1>3. ASSUME NEW k \in 1..Len(c) PROVE AllMet(c[k], Avail(H, c, k))
  <2>1. PICK i \in Sources : MethodPiece(i, c[k])  BY <1>2 DEF MethodsWritten
  <2>2. PICK m \in DOMAIN program[i].methods : c[k] = MethodsOf(i)[m]  BY <2>1 DEF MethodPiece
  <2>3. PICK w, d : w = "methods" /\ d = program[i].methods[m]  OBVIOUS
  <2>4. c[k] = Definition(w, i, d, d.body)  BY <2>2, <2>3 DEF MethodsOf
  <2>5. WellCoded(d)  BY <2>3, ProgramFacts, OwnCode
  <2>6. IsBody(program, d.body)  BY <2>5 DEF WellCoded
  <2>7. PICK G : G = Avail(H, c, k)  OBVIOUS
  <2>8. H \subseteq G  BY <2>7 DEF Avail
  <2>9. AllMet(Definition(w, i, d, d.body), G)  BY <2>5, <2>6, <2>8, DefinitionFits
  <2> QED  BY <2>4, <2>7, <2>9
<1> QED  BY <1>1, <1>3 DEF Fitting

-----------------------------------------------------------------------------
(* The definitions of the hot files.                                       *)
LEMMA HotBodiesFit ==
  ASSUME IsProgram(program), output = "library", NEW H, FatsIn(H), ProvidedIn("use", H) PROVE Fitting(Bodies, H)
<1>0. output \in {"library", "host"} /\ ProgramIsSeq /\ AllWellCoded  BY ProgramFacts
<1>1. PICK f, c : f = [i \in Sources |-> Function(i)] /\ c = Bodies  OBVIOUS
<1>2. Lists(c, Defined, f)  BY <1>0, <1>1, BodiesLists
<1>3. \A i \in Defined : i \in Sources /\ f[i] = Function(i)  BY <1>1 DEF Defined, Decls, Sources
<1>4. Fits(f, Defined, H)
  <2> SUFFICES ASSUME NEW i \in Defined, NEW G, H \subseteq G, \A j \in Defined : j < i => f[j].gives \subseteq G
               PROVE  AllMet(f[i], G)
    BY DEF Fits
  <2>1. PICK d, w : d = program[i] /\ w = "body"  OBVIOUS
  <2>2. WellCoded(d)  BY <1>0, <1>3, <2>1, OwnCode
  <2>3. IsBody(program, d.body)  BY <2>2 DEF WellCoded
  <2>4. f[i] = Definition(w, i, d, d.body)  BY <1>3, <2>1 DEF Function
  <2>5. FunctionsBefore(i, G)
    <3> SUFFICES ASSUME NEW x, Before(i, {"fn"}, x), ~(x = "main" /\ output = "library") PROVE <<"name", x>> \in G
      BY DEF FunctionsBefore
    <3>1. PICK j \in 1..i - 1 : program[j].kind = "fn" /\ program[j].name = x  BY DEF Before
    <3>2. j \in Sources /\ j < i
      <4>1. Sources = 1..Len(program) /\ Len(program) \in Nat  BY <1>0 DEF ProgramIsSeq
      <4> QED  BY <1>3, <3>1, <4>1
    <3>3. j \in Defined  BY <3>1, <3>2 DEF Defined, Decls, Sources
    <3>4. f[j] = Function(j)  BY <1>3, <3>3
    <3>5. w # "methods"  BY <2>1
    <3>6. <<"name", program[j].name>> \in Definition(w, j, program[j], program[j].body).gives  BY <3>5, OwnNameGiven
    <3>7. f[j] = Definition(w, j, program[j], program[j].body)  BY <2>1, <3>4 DEF Function
    <3> QED  BY <3>1, <3>2, <3>3, <3>6, <3>7
  <2> QED  BY <1>0, <2>2, <2>3, <2>4, <2>5, HotDefinitionFits
<1> QED  BY <1>1, <1>2, <1>4, FittingLists

\* The table of the host fits.
LEMMA TableFits ==
  ASSUME IsProgram(program), output = "host", NEW H, FatsIn(H) PROVE Fitting(Table, H)
<1>0. output \in {"library", "host"} /\ ProgramIsSeq /\ AllWellCoded /\ output # "library"  BY ProgramFacts
<1>1. PICK f, c : f = [i \in Sources |-> Pointer(i)] /\ c = Table  OBVIOUS
<1>2. Lists(c, Pointed, f)  BY <1>0, <1>1, TableLists
<1>3. \A i \in Pointed : i \in Sources /\ f[i] = Pointer(i)  BY <1>1 DEF Pointed, Decls, Sources
<1>4. Fits(f, Pointed, H)
  <2> SUFFICES ASSUME NEW i \in Pointed, NEW G, H \subseteq G PROVE AllMet(f[i], G)  BY DEF Fits
  <2>1. WellCoded(program[i])  BY <1>0, <1>3, OwnCode
  <2>2. ASSUME NEW n \in f[i].needs PROVE n \in H \/ Excused(f[i], n)
    <3>1. TypeName(n)  BY <1>3, <2>1, PointerIs, TypesNeedAre
    <3> QED  BY <1>0, <3>1, HotTypeName
  <2> QED  BY <2>2, MoreIsMet
<1> QED  BY <1>1, <1>2, <1>4, FittingLists

\* A stub is a definition, of main in full.
LEMMA StubIs ==
  ASSUME AllWellCoded, NEW i \in Sources
  PROVE  \E w, body : /\ StubOf(i) = Definition(w, i, program[i], body) /\ IsBody(program, body)
                      /\ w # "methods" /\ <<"name", program[i].name>> \in StubOf(i).gives
<1>1. PICK w, v, none : w = "body" /\ v = "stub" /\ none = <<>>  OBVIOUS
<1>2. w # "methods" /\ v # "methods"  BY <1>1
<1>3. IsBody(program, program[i].body) /\ IsBody(program, none)  BY <1>1, OwnBodies, EmptyBody
<1>4. StubOf(i) = Definition(w, i, program[i], program[i].body) \/ StubOf(i) = Definition(v, i, program[i], none)
  BY <1>1 DEF StubOf, Function
<1> QED  BY <1>2, <1>3, <1>4, OwnNameGiven

\* The stubs of the host fit.
LEMMA StubsFit ==
  ASSUME IsProgram(program), output = "host", NEW H, FatsIn(H) PROVE Fitting(Stubs, H)
<1>0. output \in {"library", "host"} /\ ProgramIsSeq /\ AllWellCoded /\ output # "library"  BY ProgramFacts
<1>1. PICK f, c, T : f = [i \in Sources |-> StubOf(i)] /\ c = Stubs /\ T = Decls("fn")  OBVIOUS
<1>2. Lists(c, T, f)  BY <1>0, <1>1, StubsLists
<1>3. \A i \in T : i \in Sources /\ f[i] = StubOf(i)  BY <1>1 DEF Decls, Sources
<1>4. \A i \in Sources : program[i].kind = "fn" => i \in T  BY <1>1 DEF Decls, Sources
<1>5. Fits(f, T, H)
  <2> SUFFICES ASSUME NEW i \in T, NEW G, H \subseteq G, \A j \in T : j < i => f[j].gives \subseteq G
               PROVE  AllMet(f[i], G)
    BY DEF Fits
  <2>1. PICK d : d = program[i]  OBVIOUS
  <2>2. WellCoded(d)  BY <1>0, <1>3, <2>1, OwnCode
  <2>3. PICK w, body : f[i] = Definition(w, i, d, body) /\ IsBody(program, body)  BY <1>0, <1>3, <2>1, StubIs
  <2>5. FunctionsBefore(i, G)
    <3> SUFFICES ASSUME NEW x, Before(i, {"fn"}, x) PROVE <<"name", x>> \in G
      BY DEF FunctionsBefore
    <3>1. PICK j \in 1..i - 1 : program[j].kind = "fn" /\ program[j].name = x  BY DEF Before
    <3>2. j \in Sources /\ j < i
      <4>1. Sources = 1..Len(program) /\ Len(program) \in Nat  BY <1>0 DEF ProgramIsSeq
      <4> QED  BY <1>3, <3>1, <4>1
    <3>3. j \in T  BY <1>4, <3>1, <3>2
    <3>4. <<"name", x>> \in f[j].gives  BY <1>0, <1>3, <3>1, <3>2, <3>3, StubIs
    <3> QED  BY <3>2, <3>3, <3>4
  <2> QED  BY <1>0, <2>2, <2>3, <2>5, HotDefinitionFits
<1> QED  BY <1>1, <1>2, <1>5, FittingLists

-----------------------------------------------------------------------------
(* What a loop over the declarations leaves declared for the later ones.   *)
Kept(q, G) ==
    /\ q = "preamble" => (output = "program" => RuntimeIn(G))
    /\ q = "inline" => ProvidedIn("inline", G)
    /\ q = "fats" => FatsIn(G)
    /\ q = "uses" => ProvidedIn("use", G)
    /\ q = "types" => (output = "program" => DeclaredTypesIn(G))
    /\ q = "prototypes" => NamedIn("fn", G)
    /\ q = "wrappers" => WrappersIn(G)
    /\ q = "globals" => NamedIn("var", G)
KeptUpTo(n, G) == \A m \in 1..n - 1 : \A q : q = Phases(output)[m] => Kept(q, G)

\* What is left declared stays declared.
LEMMA KeptInMore ==
  ASSUME NEW q, NEW G, NEW H, G \subseteq H, Kept(q, G) PROVE Kept(q, H)
<1>1. RuntimeIn(G) => RuntimeIn(H)  BY DEF RuntimeIn
<1>2. \A kind : ProvidedIn(kind, G) => ProvidedIn(kind, H)  BY DEF ProvidedIn
<1>3. FatsIn(G) => FatsIn(H)  BY DEF FatsIn
<1>4. \A kind : NamedIn(kind, G) => NamedIn(kind, H)  BY DEF NamedIn
<1>5. DeclaredTypesIn(G) => DeclaredTypesIn(H)
  <2>1. StructsIn(G) => StructsIn(H)  BY DEF StructsIn
  <2>2. ErrorsIn(G) => ErrorsIn(H)  BY DEF ErrorsIn
  <2>3. MethodsDeclared(G) => MethodsDeclared(H)  BY DEF MethodsDeclared
  <2> QED  BY <1>4, <2>1, <2>2, <2>3 DEF DeclaredTypesIn
<1>6. WrappersIn(G) => WrappersIn(H)  BY DEF WrappersIn
<1> QED  BY <1>1, <1>2, <1>3, <1>4, <1>5, <1>6 DEF Kept

\* The loops of each file, in their order.
LEMMA PhasesAre ==
  ASSUME NEW p, p = Phases(output)
  PROVE  /\ output = "program" =>
            /\ Len(p) = 10 /\ p[1] = "preamble" /\ p[2] = "inline" /\ p[3] = "fats" /\ p[4] = "uses" /\ p[5] = "types"
            /\ p[6] = "prototypes" /\ p[7] = "wrappers" /\ p[8] = "globals" /\ p[9] = "bodies" /\ p[10] = "methods"
         /\ output = "library" =>
            /\ Len(p) = 5 /\ p[1] = "preamble" /\ p[2] = "uses" /\ p[3] = "fats" /\ p[4] = "types" /\ p[5] = "bodies"
         /\ output = "host" =>
            /\ Len(p) = 5 /\ p[1] = "preamble" /\ p[2] = "fats" /\ p[3] = "types" /\ p[4] = "table" /\ p[5] = "stubs"
  BY DEF Phases

\* What an earlier loop left declared.
LEMMA EarlierKept ==
  ASSUME NEW n \in Nat, NEW H, KeptUpTo(n, H), NEW m \in 1..n - 1, NEW p, p = Phases(output), NEW q, q = p[m]
  PROVE  Kept(q, H)
  BY DEF KeptUpTo

(* A program: each loop finds what it needs.                               *)
LEMMA ProgramFits ==
  ASSUME IsProgram(program), output = "program", NEW n \in 1..10, NEW H, KeptUpTo(n, H),
         NEW q, q = Phases(output)[n]
  PROVE  Fitting(Chunk(q), H) /\ Kept(q, Given(Chunk(q)))
<1>0. ProgramIsSeq /\ output \in Outputs  BY ProgramFacts DEF Outputs
<1>1. PICK p : p = Phases(output)  OBVIOUS
<1>2. /\ p[1] = "preamble" /\ p[2] = "inline" /\ p[3] = "fats" /\ p[4] = "uses" /\ p[5] = "types"
      /\ p[6] = "prototypes" /\ p[7] = "wrappers" /\ p[8] = "globals" /\ p[9] = "bodies" /\ p[10] = "methods"
  BY <1>1, PhasesAre
<1>3. \A m \in 1..n - 1 : Kept(p[m], H)  BY <1>1, EarlierKept
<1>4. q = p[n]  BY <1>1
<1>5. n > 1 => RuntimeIn(H)
  <2>1. n > 1 => Kept(p[1], H)  BY <1>3
  <2> QED  BY <1>2, <2>1 DEF Kept
<1>6. n > 2 => ProvidedIn("inline", H)
  <2>1. n > 2 => Kept(p[2], H)  BY <1>3
  <2> QED  BY <1>2, <2>1 DEF Kept
<1>7. n > 3 => FatsIn(H)
  <2>1. n > 3 => Kept(p[3], H)  BY <1>3
  <2> QED  BY <1>2, <2>1 DEF Kept
<1>8. n > 4 => ProvidedIn("use", H)
  <2>1. n > 4 => Kept(p[4], H)  BY <1>3
  <2> QED  BY <1>2, <2>1 DEF Kept
<1>9. n > 5 => DeclaredTypesIn(H)
  <2>1. n > 5 => Kept(p[5], H)  BY <1>3
  <2> QED  BY <1>2, <2>1 DEF Kept
<1>10. n > 6 => NamedIn("fn", H)
  <2>1. n > 6 => Kept(p[6], H)  BY <1>3
  <2> QED  BY <1>2, <2>1 DEF Kept
<1>11. n > 7 => WrappersIn(H)
  <2>1. n > 7 => Kept(p[7], H)  BY <1>3
  <2> QED  BY <1>2, <2>1 DEF Kept
<1>12. n > 8 => NamedIn("var", H)
  <2>1. n > 8 => Kept(p[8], H)  BY <1>3
  <2> QED  BY <1>2, <2>1 DEF Kept
<1>13. n > 4 => FirstIn(H)  BY <1>5, <1>6, <1>7, <1>8 DEF FirstIn
<1>14. n > 8 => AllIn(H)  BY <1>9, <1>10, <1>11, <1>12, <1>13 DEF AllIn
<1>21. CASE n = 1
  <2>1. q = "preamble"  BY <1>2, <1>4, <1>21
  <2>2. Fitting(Preamble, H) /\ RuntimeIn(Given(Preamble))  BY PreambleFits
  <2>3. Chunk(q) = Preamble  BY <2>1, ChunkIs
  <2> QED  BY <2>1, <2>2, <2>3 DEF Kept
<1>22. CASE n = 2
  <2>1. q = "inline"  BY <1>2, <1>4, <1>22
  <2>2. Fitting(InlineC, H) /\ ProvidedIn("inline", Given(InlineC))  BY <1>0, InlineFits
  <2>3. Chunk(q) = InlineC  BY <2>1, ChunkIs
  <2> QED  BY <2>1, <2>2, <2>3 DEF Kept
<1>23. CASE n = 3
  <2>1. q = "fats"  BY <1>2, <1>4, <1>23
  <2>2. Fitting(FatTypes, H) /\ FatsIn(Given(FatTypes))
    <3>1. RuntimeIn(H) /\ ProvidedIn("inline", H)  BY <1>5, <1>6, <1>23
    <3> QED  BY <1>0, <3>1, FatsFit
  <2>3. Chunk(q) = FatTypes  BY <2>1, ChunkIs
  <2> QED  BY <2>1, <2>2, <2>3 DEF Kept
<1>24. CASE n = 4
  <2>1. q = "uses"  BY <1>2, <1>4, <1>24
  <2>2. Fitting(UseIncludes, H) /\ ProvidedIn("use", Given(UseIncludes))  BY <1>0, UsesFit
  <2>3. Chunk(q) = UseIncludes  BY <2>1, ChunkIs
  <2> QED  BY <2>1, <2>2, <2>3 DEF Kept
<1>25. CASE n = 5
  <2>1. q = "types"  BY <1>2, <1>4, <1>25
  <2>2. Fitting(TypeDefinitions, H) /\ DeclaredTypesIn(Given(TypeDefinitions))  BY <1>13, <1>25, TypesFit
  <2>3. Chunk(q) = TypeDefinitions  BY <2>1, ChunkIs
  <2> QED  BY <2>1, <2>2, <2>3 DEF Kept
<1>26. CASE n = 6
  <2>1. q = "prototypes"  BY <1>2, <1>4, <1>26
  <2>2. Fitting(Prototypes, H) /\ NamedIn("fn", Given(Prototypes))  BY <1>9, <1>13, <1>26, PrototypesFit
  <2>3. Chunk(q) = Prototypes  BY <2>1, ChunkIs
  <2> QED  BY <2>1, <2>2, <2>3 DEF Kept
<1>27. CASE n = 7
  <2>1. q = "wrappers"  BY <1>2, <1>4, <1>27
  <2>2. Fitting(Wrappers, H) /\ WrappersIn(Given(Wrappers))  BY <1>9, <1>10, <1>13, <1>27, WrappersFit
  <2>3. Chunk(q) = Wrappers  BY <2>1, ChunkIs
  <2> QED  BY <2>1, <2>2, <2>3 DEF Kept
<1>28. CASE n = 8
  <2>1. q = "globals"  BY <1>2, <1>4, <1>28
  <2>2. Fitting(Globals, H) /\ NamedIn("var", Given(Globals))  BY <1>9, <1>10, <1>13, <1>28, GlobalsFit
  <2>3. Chunk(q) = Globals  BY <2>1, ChunkIs
  <2> QED  BY <2>1, <2>2, <2>3 DEF Kept
<1>29. CASE n = 9
  <2>1. q = "bodies"  BY <1>2, <1>4, <1>29
  <2>2. Fitting(Bodies, H)  BY <1>14, <1>29, BodiesFit
  <2>3. Chunk(q) = Bodies  BY <2>1, ChunkIs
  <2> QED  BY <2>1, <2>2, <2>3 DEF Kept
<1>30. CASE n = 10
  <2>1. q = "methods"  BY <1>2, <1>4, <1>30
  <2>2. Fitting(Methods, H)  BY <1>14, <1>30, MethodsFit
  <2>3. Chunk(q) = Methods  BY <2>1, ChunkIs
  <2> QED  BY <2>1, <2>2, <2>3 DEF Kept
<1> QED  BY <1>21, <1>22, <1>23, <1>24, <1>25, <1>26, <1>27, <1>28, <1>29, <1>30

(* The hot library and its host.                                           *)
LEMMA LibraryFits ==
  ASSUME IsProgram(program), output = "library", NEW n \in 1..5, NEW H, KeptUpTo(n, H),
         NEW q, q = Phases(output)[n]
  PROVE  Fitting(Chunk(q), H) /\ Kept(q, Given(Chunk(q)))
<1>0. ProgramIsSeq /\ output \in Outputs /\ output # "program" /\ output \in {"library", "host"}
  BY ProgramFacts DEF Outputs
<1>1. PICK p : p = Phases(output)  OBVIOUS
<1>2. p[1] = "preamble" /\ p[2] = "uses" /\ p[3] = "fats" /\ p[4] = "types" /\ p[5] = "bodies"  BY <1>1, PhasesAre
<1>3. \A m \in 1..n - 1 : Kept(p[m], H)  BY <1>1, EarlierKept
<1>4. q = p[n]  BY <1>1
<1>5. n > 2 => ProvidedIn("use", H)
  <2>1. n > 2 => Kept(p[2], H)  BY <1>3
  <2> QED  BY <1>2, <2>1 DEF Kept
<1>6. n > 3 => FatsIn(H)
  <2>1. n > 3 => Kept(p[3], H)  BY <1>3
  <2> QED  BY <1>2, <2>1 DEF Kept
<1>11. CASE n = 1
  <2>1. q = "preamble"  BY <1>2, <1>4, <1>11
  <2>2. Fitting(Preamble, H)  BY PreambleFits
  <2>3. Chunk(q) = Preamble  BY <2>1, ChunkIs
  <2> QED  BY <1>0, <2>1, <2>2, <2>3 DEF Kept
<1>12. CASE n = 2
  <2>1. q = "uses"  BY <1>2, <1>4, <1>12
  <2>2. Fitting(UseIncludes, H) /\ ProvidedIn("use", Given(UseIncludes))  BY <1>0, UsesFit
  <2>3. Chunk(q) = UseIncludes  BY <2>1, ChunkIs
  <2> QED  BY <2>1, <2>2, <2>3 DEF Kept
<1>13. CASE n = 3
  <2>1. q = "fats"  BY <1>2, <1>4, <1>13
  <2>2. Fitting(FatTypes, H) /\ FatsIn(Given(FatTypes))  BY <1>0, <1>5, <1>13, FatsFit
  <2>3. Chunk(q) = FatTypes  BY <2>1, ChunkIs
  <2> QED  BY <2>1, <2>2, <2>3 DEF Kept
<1>14. CASE n = 4
  <2>1. q = "types"  BY <1>2, <1>4, <1>14
  <2>2. Fitting(TypeDefinitions, H)  BY <1>0, <1>5, <1>6, <1>14, HotTypesFit
  <2>3. Chunk(q) = TypeDefinitions  BY <2>1, ChunkIs
  <2> QED  BY <1>0, <2>1, <2>2, <2>3 DEF Kept
<1>15. CASE n = 5
  <2>1. q = "bodies"  BY <1>2, <1>4, <1>15
  <2>2. Fitting(Bodies, H)  BY <1>5, <1>6, <1>15, HotBodiesFit
  <2>3. Chunk(q) = Bodies  BY <2>1, ChunkIs
  <2> QED  BY <2>1, <2>2, <2>3 DEF Kept
<1> QED  BY <1>11, <1>12, <1>13, <1>14, <1>15

\* The host: each loop finds what it needs.
LEMMA HostFits ==
  ASSUME IsProgram(program), output = "host", NEW n \in 1..5, NEW H, KeptUpTo(n, H),
         NEW q, q = Phases(output)[n]
  PROVE  Fitting(Chunk(q), H) /\ Kept(q, Given(Chunk(q)))
<1>0. /\ ProgramIsSeq /\ output \in Outputs /\ output # "program" /\ output # "library"
      /\ output \in {"library", "host"}
  BY ProgramFacts DEF Outputs
<1>1. PICK p : p = Phases(output)  OBVIOUS
<1>2. p[1] = "preamble" /\ p[2] = "fats" /\ p[3] = "types" /\ p[4] = "table" /\ p[5] = "stubs"  BY <1>1, PhasesAre
<1>3. \A m \in 1..n - 1 : Kept(p[m], H)  BY <1>1, EarlierKept
<1>4. q = p[n]  BY <1>1
<1>5. n > 2 => FatsIn(H)
  <2>1. n > 2 => Kept(p[2], H)  BY <1>3
  <2> QED  BY <1>2, <2>1 DEF Kept
<1>11. CASE n = 1
  <2>1. q = "preamble"  BY <1>2, <1>4, <1>11
  <2>2. Fitting(Preamble, H)  BY PreambleFits
  <2>3. Chunk(q) = Preamble  BY <2>1, ChunkIs
  <2> QED  BY <1>0, <2>1, <2>2, <2>3 DEF Kept
<1>12. CASE n = 2
  <2>1. q = "fats"  BY <1>2, <1>4, <1>12
  <2>2. Fitting(FatTypes, H) /\ FatsIn(Given(FatTypes))  BY <1>0, FatsFit
  <2>3. Chunk(q) = FatTypes  BY <2>1, ChunkIs
  <2> QED  BY <2>1, <2>2, <2>3 DEF Kept
<1>13. CASE n = 3
  <2>1. q = "types"  BY <1>2, <1>4, <1>13
  <2>2. Fitting(TypeDefinitions, H)  BY <1>0, <1>5, <1>13, HotTypesFit
  <2>3. Chunk(q) = TypeDefinitions  BY <2>1, ChunkIs
  <2> QED  BY <1>0, <2>1, <2>2, <2>3 DEF Kept
<1>14. CASE n = 4
  <2>1. q = "table"  BY <1>2, <1>4, <1>14
  <2>2. Fitting(Table, H)  BY <1>5, <1>14, TableFits
  <2>3. Chunk(q) = Table  BY <2>1, ChunkIs
  <2> QED  BY <2>1, <2>2, <2>3 DEF Kept
<1>15. CASE n = 5
  <2>1. q = "stubs"  BY <1>2, <1>4, <1>15
  <2>2. Fitting(Stubs, H)  BY <1>5, <1>15, StubsFit
  <2>3. Chunk(q) = Stubs  BY <2>1, ChunkIs
  <2> QED  BY <2>1, <2>2, <2>3 DEF Kept
<1> QED  BY <1>11, <1>12, <1>13, <1>14, <1>15

\* In each file, each loop finds what it needs.
LEMMA ChunkFits ==
  ASSUME InRange, NEW q, NEW c, Writes(q, c), NEW H, KeptUpTo(phase, H)
  PROVE  Fitting(c, H) /\ Kept(q, Given(c))
<1>1. IsProgram(program) /\ output \in Outputs /\ phase \in Nat \ {0}  BY ProgramsAssumption DEF InRange
<1>2. PICK n, p : n = phase /\ p = Phases(output)  OBVIOUS
<1>3. q = p[n] /\ c = Chunk(q) /\ n \in 1..Len(p)
  <2>1. ~(n > Len(p))  BY <1>2 DEF Writes, Done
  <2>2. Len(p) \in Nat  BY <1>1, <1>2, PhasesAre DEF Outputs
  <2> QED  BY <1>1, <1>2, <2>1, <2>2 DEF Writes
<1>4. q = Phases(output)[n] /\ KeptUpTo(n, H)  BY <1>2, <1>3
<1>5. CASE output = "program"
  <2>1. n \in 1..10  BY <1>2, <1>3, <1>5, PhasesAre
  <2> QED  BY <1>1, <1>3, <1>4, <1>5, <2>1, ProgramFits
<1>6. CASE output = "library"
  <2>1. n \in 1..5  BY <1>2, <1>3, <1>6, PhasesAre
  <2> QED  BY <1>1, <1>3, <1>4, <1>6, <2>1, LibraryFits
<1>7. CASE output = "host"
  <2>1. n \in 1..5  BY <1>2, <1>3, <1>7, PhasesAre
  <2> QED  BY <1>1, <1>3, <1>4, <1>7, <2>1, HostFits
<1> QED  BY <1>1, <1>5, <1>6, <1>7 DEF Outputs

-----------------------------------------------------------------------------
(* What holds of the program alone stays as it is when the program does.   *)
Same == program' = program /\ output' = output

\* The names that are declared.
LEMMA DeclsSame ==
  ASSUME Same
  PROVE  /\ \A k, x : (Named(k, x) = {})' <=> Named(k, x) = {}
         /\ \A k, x : Provided(k, x)' <=> Provided(k, x)
         /\ \A i, k, x : Before(i, k, x)' <=> Before(i, k, x)
         /\ NeedsRuntime' <=> NeedsRuntime
<1>1. program' = program  BY DEF Same
<1>2. \A k, x : (Named(k, x) = {})' <=> Named(k, x) = {}  BY <1>1 DEF Named, Decls
<1>3. \A k, x : Provided(k, x)' <=> Provided(k, x)  BY <1>1 DEF Provided
<1>4. \A i, k, x : Before(i, k, x)' <=> Before(i, k, x)  BY <1>1 DEF Before
<1>5. NeedsRuntime' <=> NeedsRuntime  BY <1>1 DEF NeedsRuntime, Decls
<1> QED  BY <1>2, <1>3, <1>4, <1>5

\* The types in view.
LEMMA TypesSame ==
  ASSUME Same
  PROVE  /\ \A t : Met(t)' <=> Met(t)
         /\ \A t : Shared(t)' <=> Shared(t)
<1>1. program' = program  BY DEF Same
<1>2. TypesInView' = TypesInView  BY <1>1 DEF TypesInView, InView, Within, Blocks, Types, TypesIn, Range
<1>3. Inners' = Inners  BY <1>2 DEF Inners
<1>4. \A t : Met(t)' <=> Met(t)  BY <1>3 DEF Met
<1>5. \A t : Shared(t)' <=> Shared(t)  BY <1>3 DEF Shared
<1> QED  BY <1>4, <1>5

\* The methods and wrappers.
LEMMA WrappedSame ==
  ASSUME Same
  PROVE  /\ \A x : (x \in MethodsIn(program))' <=> x \in MethodsIn(program)
         /\ \A i : (i \in Wrapped)' <=> i \in Wrapped
         /\ \A i, n : (n = <<"wrapper", program[i].name>>)' <=> n = <<"wrapper", program[i].name>>
<1>1. program' = program  BY DEF Same
<1>2. \A x : (x \in MethodsIn(program))' <=> x \in MethodsIn(program)  BY <1>1 DEF MethodsIn
<1>3. \A i : (i \in Wrapped)' <=> i \in Wrapped  BY <1>1 DEF Wrapped, Decls, HasWrapper, Types, TypesIn
<1>4. \A i, n : (n = <<"wrapper", program[i].name>>)' <=> n = <<"wrapper", program[i].name>>  BY <1>1
<1> QED  BY <1>2, <1>3, <1>4

\* What is excused.
LEMMA ExcusedSame ==
  ASSUME Same, NEW p, NEW n PROVE Excused(p, n)' <=> Excused(p, n)
<1>1. output' = output  BY DEF Same
<1>2. Reason(p, n)' <=> Reason(p, n)  BY DeclsSame, TypesSame DEF Reason
<1>3. HotReason(p, n)' <=> HotReason(p, n)  BY <1>1, DeclsSame, TypesSame DEF HotReason
<1> QED  BY <1>1, <1>2, <1>3 DEF Excused

\* What is left declared.
LEMMA KeptSame ==
  ASSUME Same, NEW q, NEW G PROVE Kept(q, G)' <=> Kept(q, G)
<1>1. output' = output  BY DEF Same
<1>2. RuntimeIn(G)' <=> RuntimeIn(G)  BY DeclsSame DEF RuntimeIn, Runtime
<1>3. \A kind : ProvidedIn(kind, G)' <=> ProvidedIn(kind, G)  BY DeclsSame DEF ProvidedIn
<1>4. FatsIn(G)' <=> FatsIn(G)  BY TypesSame DEF FatsIn
<1>5. \A kind : NamedIn(kind, G)' <=> NamedIn(kind, G)  BY DeclsSame DEF NamedIn
<1>6. DeclaredTypesIn(G)' <=> DeclaredTypesIn(G)
  <2>1. StructsIn(G)' <=> StructsIn(G)  BY DeclsSame DEF StructsIn
  <2>2. ErrorsIn(G)' <=> ErrorsIn(G)  BY DeclsSame DEF ErrorsIn
  <2>3. MethodsDeclared(G)' <=> MethodsDeclared(G)  BY WrappedSame DEF MethodsDeclared
  <2> QED  BY <1>5, <2>1, <2>2, <2>3 DEF DeclaredTypesIn
<1>7. WrappersIn(G)' <=> WrappersIn(G)  BY WrappedSame DEF WrappersIn
<1> QED  BY <1>1, <1>2, <1>3, <1>4, <1>5, <1>6, <1>7 DEF Kept

-----------------------------------------------------------------------------
(* The invariant: what is missing is excused, and each loop that is over   *)
(* left declared what it is for.                                           *)
MissingIn(f, k) ==
    f[k].needs \ ({n \in f[k].gives : n[1] # "struct"} \cup UNION {f[j].gives : j \in 1..k - 1})
InOrder ==
    /\ InRange
    /\ \A k \in 1..Len(file) : \A p, n : p = file[k] /\ n \in MissingIn(file, k) => Excused(p, n)
    /\ \A m \in 1..phase - 1 : \A q, G : q = Phases(output)[m] /\ G = Given(file) => Kept(q, G)

\* A longer file declares more.
LEMMA MoreGiven ==
  ASSUME NEW h, NEW f, NEW c, Appends(h, f, c) PROVE Given(f) \subseteq Given(h) /\ Given(c) \subseteq Given(h)
<1>1. Len(h) = Len(f) + Len(c) /\ Len(f) \in Nat /\ Len(c) \in Nat  BY DEF Appends
<1>2. \A k \in 1..Len(f) : k \in 1..Len(h) /\ h[k] = f[k]  BY <1>1 DEF Appends
<1>3. \A k \in 1..Len(c) : Len(f) + k \in 1..Len(h) /\ h[Len(f) + k] = c[k]  BY <1>1 DEF Appends
<1>4. Given(f) \subseteq Given(h)  BY <1>2 DEF Given
<1>5. Given(c) \subseteq Given(h)
  <2>1. ASSUME NEW k \in 1..Len(c) PROVE c[k].gives \subseteq Given(h)
    <3>1. PICK e \in 1..Len(h) : h[e] = c[k]  BY <1>3
    <3> QED  BY <3>1 DEF Given
  <2> QED  BY <2>1 DEF Given
<1> QED  BY <1>4, <1>5

(* A piece that is appended misses only what is excused.                   *)
LEMMA MissingExcused ==
  ASSUME NEW h, NEW f, NEW c, Appends(h, f, c), Fitting(c, Given(f)), NEW m \in 1..Len(c), NEW k, k = Len(f) + m,
         NEW n \in MissingIn(h, k)
  PROVE  Excused(h[k], n)
<1>1. Len(h) = Len(f) + Len(c) /\ Len(f) \in Nat /\ Len(c) \in Nat  BY DEF Appends
<1>2. h[k] = c[m]  BY DEF Appends
<1>3. PICK p, G : p = c[m] /\ G = Avail(Given(f), c, m)  OBVIOUS
<1>4. AllMet(p, G)  BY <1>3 DEF Fitting
<1>5. n \in p.needs /\ ~(n \in p.gives /\ n[1] # "struct") /\ \A j \in 1..k - 1 : n \notin h[j].gives
  BY <1>2, <1>3 DEF MissingIn
<1>6. n \notin Given(f)
  <2>1. \A j \in 1..Len(f) : j \in 1..k - 1 /\ h[j] = f[j]  BY <1>1 DEF Appends
  <2> QED  BY <1>5, <2>1 DEF Given
<1>7. \A e \in 1..m - 1 : n \notin c[e].gives
  <2>1. \A e \in 1..m - 1 : Len(f) + e \in 1..k - 1 /\ h[Len(f) + e] = c[e]  BY <1>1 DEF Appends
  <2> QED  BY <1>5, <2>1
<1>8. n \notin G  BY <1>3, <1>6, <1>7 DEF Avail
<1> QED  BY <1>2, <1>3, <1>4, <1>5, <1>8 DEF AllMet, IsMet

\* A step keeps the invariant.
LEMMA InOrderStep ==
  ASSUME InOrder, NEW q, NEW c, Writes(q, c) PROVE InOrder'
<1>1. InRange /\ InRange' /\ Appends(file', file, c)  BY StepInRange DEF InOrder
<1>2. PICK h, D : h = file' /\ D = Given(file)  OBVIOUS
<1>3. Appends(h, file, c) /\ Same /\ phase' = phase + 1 /\ q = Phases(output)[phase] /\ phase \in Nat \ {0}
  BY <1>1, <1>2 DEF Writes, Same, InRange
<1>4. KeptUpTo(phase, D)  BY <1>2 DEF InOrder, KeptUpTo
<1>5. Fitting(c, D) /\ Kept(q, Given(c))  BY <1>1, <1>4, ChunkFits
<1>6. D \subseteq Given(h) /\ Given(c) \subseteq Given(h)  BY <1>2, <1>3, MoreGiven
<1>7. ASSUME NEW k \in 1..Len(h), NEW n \in MissingIn(h, k) PROVE Excused(h[k], n)
  <2>0. Len(h) = Len(file) + Len(c) /\ Len(file) \in Nat /\ Len(c) \in Nat  BY <1>3 DEF Appends
  <2>1. CASE k \in 1..Len(file)
    <3>1. \A j \in 1..k : h[j] = file[j]  BY <1>3, <2>0, <2>1 DEF Appends
    <3>2. h[k] = file[k]  BY <2>1, <3>1
    <3>3. n \in MissingIn(file, k)  BY <2>1, <3>1, <3>2 DEF MissingIn
    <3> QED  BY <2>1, <3>2, <3>3 DEF InOrder
  <2>2. CASE k \notin 1..Len(file)
    <3>1. PICK m : m = k - Len(file)  OBVIOUS
    <3>2. m \in 1..Len(c) /\ k = Len(file) + m  BY <2>0, <2>2, <3>1
    <3> QED  BY <1>2, <1>3, <1>5, <3>2, MissingExcused
  <2> QED  BY <2>1, <2>2
<1>8. ASSUME NEW m \in 1..phase, NEW r, r = Phases(output)[m] PROVE Kept(r, Given(h))
  <2>1. CASE m = phase
    <3>1. Kept(r, Given(c))  BY <1>3, <1>5, <1>8, <2>1
    <3> QED  BY <1>6, <3>1, KeptInMore
  <2>2. CASE m # phase
    <3>1. m \in 1..phase - 1  BY <1>3, <2>2
    <3>2. Kept(r, D)  BY <1>4, <1>8, <3>1 DEF KeptUpTo
    <3> QED  BY <1>6, <3>2, KeptInMore
  <2> QED  BY <2>1, <2>2
<1>9. \A k \in 1..Len(file') : \A p, n : p = file'[k] /\ n \in MissingIn(file', k) => Excused(p, n)'
  BY <1>2, <1>3, <1>7, ExcusedSame
<1>10. \A m \in 1..phase' - 1 : \A r, G : r = Phases(output')[m] /\ G = Given(file') => Kept(r, G)'
  <2>1. output' = output /\ phase' - 1 = phase  BY <1>3 DEF Same
  <2> QED  BY <1>2, <1>3, <1>8, <2>1, KeptSame
<1> QED  BY <1>1, <1>9, <1>10 DEF InOrder

\* The empty file is in order.
LEMMA InOrderInit == ASSUME Init PROVE InOrder
<1>1. IsSeq(file) /\ Len(file) = 0 /\ phase = 1  BY ShortSeqs DEF Init
<1>2. 1..0 = {} /\ 1..phase - 1 = {}  BY <1>1
<1> QED  BY <1>1, <1>2 DEF Init, InOrder, InRange

\* So does a step that changes nothing.
LEMMA InOrderStutter == ASSUME InOrder, UNCHANGED vars PROVE InOrder'
<1>1. Same /\ file' = file /\ phase' = phase  BY DEF vars, Same
<1>2. InRange'  BY DEF InOrder, InRange, vars
<1>3. \A k \in 1..Len(file') : \A p, n : p = file'[k] /\ n \in MissingIn(file', k) => Excused(p, n)'
  BY <1>1, ExcusedSame DEF InOrder
<1>4. \A m \in 1..phase' - 1 : \A r, G : r = Phases(output')[m] /\ G = Given(file') => Kept(r, G)'
  <2>1. output' = output  BY <1>1 DEF Same
  <2> QED  BY <1>1, <2>1, KeptSame DEF InOrder
<1> QED  BY <1>2, <1>3, <1>4 DEF InOrder

(* In every reachable state, each name that the file misses is one of      *)
(* those that Reason or HotReason lists, and the loops that are over left  *)
(* declared what the later ones rely on.                                   *)
THEOREM AlwaysInOrder == Spec => []InOrder
<1>1. Init => InOrder  BY InOrderInit
<1>2. InOrder /\ [Next]_vars => InOrder'
  <2>1. CASE Next  BY <2>1, NextWrites, InOrderStep
  <2>2. CASE UNCHANGED vars
    <3>1. InOrder => InOrder'  BY <2>2, InOrderStutter
    <3> QED  BY <3>1
  <2> QED  BY <2>1, <2>2
<1> QED  BY <1>1, <1>2, PTL DEF Spec

(* Every name in the C of a whole file is declared before it is used, but  *)
(* for the ones that Reason and HotReason list, whatever the program       *)
(* declares, and in whatever order.                                        *)
THEOREM AlwaysDeclaredBeforeUse == Spec => []DeclaredBeforeUse
<1>1. InOrder => DeclaredBeforeUse
  <2> SUFFICES ASSUME InOrder, NEW k \in DOMAIN file, NEW n \in Missing(k)
               PROVE  IF output = "program" THEN Reason(file[k], n) ELSE HotReason(file[k], n)
    BY DEF DeclaredBeforeUse
  <2>1. k \in 1..Len(file)  BY DEF InOrder, InRange, IsSeq
  <2>2. n \in MissingIn(file, k)  BY DEF Missing, MissingIn
  <2>3. Excused(file[k], n)  BY <2>1, <2>2 DEF InOrder
  <2> QED  BY <2>3 DEF Excused
<1> QED  BY <1>1, AlwaysInOrder, PTL
=============================================================================

--------------------------- MODULE ImportsProofs ---------------------------
(***************************************************************************)
(* Proofs about Imports.                                                   *)
(*                                                                         *)
(* 1. Every state is well typed, and in phase "parse" the types known grow *)
(*    from a file to the files it uses (IInv): only the file on top of the *)
(*    stack learns types, a used file starts with those of its user, and   *)
(*    the input with the registry.                                         *)
(* 2. The two readings of the files (TInv): what phase "collect" has read  *)
(*    when it ends is closed under `@use`, so all the types that the parse *)
(*    will meet are registered; and a file that no macro disturbs gives    *)
(*    the same tokens whenever it is read.                                 *)
(* 3. What the parse builds (SInv): a file being parsed has said what the  *)
(*    items before its position say, a used file in the place of its       *)
(*    `@use`, as deep as the stack still has room; a file that waits is at *)
(*    an `@use` of the file above it; so what returns is exactly what      *)
(*    stands for the `@use`.  And a file that declares something is not    *)
(*    visited more often than its declaration is in the program.           *)
(***************************************************************************)
EXTENDS Imports, FiniteSetTheorems, WellFoundedInduction, NaturalsInduction, TLAPS

Known == Words \cup {Gone}
World == disk \in Disks /\ inputs \in CommandLines
IInv  == World /\ TypeOK /\ TypesFlowDown

LEMMA Replace ==
    ASSUME NEW S, NEW q \in Seq(S), NEW k \in 1..Len(q), NEW w \in S
    PROVE  LET r == [q EXCEPT ![k] = w]
           IN  /\ r \in Seq(S) /\ Len(r) = Len(q)
               /\ \A i \in 1..Len(q) : r[i] = IF i = k THEN w ELSE q[i]
  OBVIOUS

LEMMA Push ==
    ASSUME NEW S, NEW q \in Seq(S), NEW w \in S
    PROVE  /\ Append(q, w) \in Seq(S) /\ Len(Append(q, w)) = Len(q) + 1
           /\ Append(q, w)[Len(q) + 1] = w
           /\ \A i \in 1..Len(q) : Append(q, w)[i] = q[i]
  OBVIOUS

LEMMA Cut ==
    ASSUME NEW S, NEW q \in Seq(S), NEW k \in 0..Len(q)
    PROVE  /\ SubSeq(q, 1, k) \in Seq(S) /\ Len(SubSeq(q, 1, k)) = k
           /\ \A i \in 1..k : SubSeq(q, 1, k)[i] = q[i] /\ i \in 1..Len(q)
  OBVIOUS

LEMMA Join ==
    ASSUME NEW S, NEW q \in Seq(S), NEW r \in Seq(S)
    PROVE  q \o r \in Seq(S)
  OBVIOUS

(* What a file on the disk is.                                             *)
LEMMA TextType ==
    ASSUME World, NEW p \in Paths PROVE Text(p) \in Seq(Item) /\ Len(Text(p)) \in Nat
<1>1. disk[p] \in File
  BY DisksAssumption DEF World
<1>2. Text(p) \in Seq(Written) /\ Written \subseteq Item
  BY <1>1 DEF Text, File, Written
<1> QED BY <1>2

LEMMA TopType ==
    ASSUME World, TypeOK, Len(stack) > 0
    PROVE  /\ Len(stack) \in 1..Len(stack) /\ Len(stack) \in Nat
           /\ Top = stack[Len(stack)] /\ Top \in Frame
           /\ Top.path \in Paths /\ Top.lex \in Nat /\ Top.toks \in Seq(Item)
           /\ Top.pos \in Nat /\ Top.types \in SUBSET Known /\ Top.decls \in Seq(Decl)
           /\ Top.lex <= Len(Text(Top.path)) /\ Top.pos <= Len(Top.toks)
<1>1. stack \in Seq(Frame) /\ Len(stack) \in Nat /\ Len(stack) \in 1..Len(stack)
  BY DEF TypeOK
<1>2. Top = stack[Len(stack)] /\ Top \in Frame
  BY <1>1 DEF Top
<1> QED BY <1>1, <1>2 DEF TypeOK, Frame, Known

LEMMA InputType ==
    ASSUME World, TypeOK, Reading
    PROVE  Len(stack) > 0 /\ done \in 1..Len(inputs) /\ Input \in Paths
<1>1. inputs \in Seq(Paths)
  BY LinesAssumption DEF World
<1> QED BY <1>1 DEF TypeOK, Reading, Input

LEMMA TokType ==
    ASSUME World, TypeOK, NEW ks, At(ks)
    PROVE  /\ Reading /\ Len(stack) > 0 /\ Tok \in Item /\ Tok.k \in ks
           /\ Tok.of \in Known /\ Tok.path \in Paths /\ Tok.needs \in SUBSET Known
           /\ Past \in Frame /\ Past = [Top EXCEPT !.pos = Top.pos + 1]
           /\ Top.pos + 1 <= Len(Top.toks)
<1>1. Reading /\ Len(stack) > 0
  BY InputType DEF At, Reading
<1>2. Top \in Frame /\ Top.toks \in Seq(Item) /\ Top.pos \in Nat /\ Top.pos < Len(Top.toks)
  BY <1>1, TopType DEF At
<1>3. Top.pos + 1 \in 1..Len(Top.toks)
  BY <1>2
<1>4. Tok \in Item /\ Tok.k \in ks
  BY <1>2, <1>3 DEF Tok, At
<1>5. Past = [Top EXCEPT !.pos = Top.pos + 1] /\ Past \in Frame
  BY <1>2 DEF Past, Frame
<1> QED BY <1>1, <1>3, <1>4, <1>5 DEF Item, Known

LEMMA ExpandType ==
    ASSUME NEW table, NEW w PROVE Expand(table, w) \in Known
  BY DEF Expand, Known

LEMMA TokenType ==
    ASSUME NEW item \in Item, NEW table PROVE Token(item, table) \in Item
<1>1. Expand(table, item.of) \in Known /\ {Expand(table, w) : w \in item.needs} \subseteq Known
  BY ExpandType
<1> QED BY <1>1 DEF Token, Item, Known
-----------------------------------------------------------------------------
(* The file on top of the stack is replaced by a later state of it.        *)
Later(f) == /\ f \in Frame /\ f.path = Top.path /\ Top.types \subseteq f.types
            /\ f.lex <= Len(Text(f.path)) /\ f.pos <= Len(f.toks)

StackOK(s) == /\ s \in Seq(Frame) /\ Len(s) <= MaxStack
              /\ \A f \in 1..Len(s) : /\ s[f].lex <= Len(Text(s[f].path))
                                      /\ s[f].pos <= Len(s[f].toks)
FlowDown(s) == /\ reg \subseteq s[1].types
               /\ \A f, g \in 1..Len(s) : f <= g => s[f].types \subseteq s[g].types

LEMMA SetTopOK ==
    ASSUME World, TypeOK, TypesFlowDown, Reading, NEW f, Later(f)
    PROVE  /\ StackOK(SetTop(f)) /\ Len(SetTop(f)) = Len(stack)
           /\ SetTop(f)[1].path = stack[1].path
           /\ \A i \in 1..Len(stack) : SetTop(f)[i] = IF i = Len(stack) THEN f ELSE stack[i]
           /\ phase = "parse" => FlowDown(SetTop(f))
<1>1. Len(stack) > 0 /\ Len(stack) \in 1..Len(stack) /\ stack \in Seq(Frame) /\ 1 \in 1..Len(stack)
  BY InputType, TopType DEF TypeOK
<1>2. /\ SetTop(f) \in Seq(Frame) /\ Len(SetTop(f)) = Len(stack)
      /\ \A i \in 1..Len(stack) : SetTop(f)[i] = IF i = Len(stack) THEN f ELSE stack[i]
  BY <1>1, Replace DEF SetTop, Later
<1>3. Top = stack[Len(stack)]
  BY DEF Top
<1>4. StackOK(SetTop(f))
  BY <1>1, <1>2 DEF StackOK, TypeOK, Later
<1>5. SetTop(f)[1].path = stack[1].path
  BY <1>1, <1>2, <1>3 DEF Later
<1>6. ASSUME phase = "parse" PROVE FlowDown(SetTop(f))
  <2>1. reg \subseteq SetTop(f)[1].types
    BY <1>1, <1>2, <1>3, <1>6 DEF TypesFlowDown, Later
  <2>2. ASSUME NEW g \in 1..Len(stack), NEW h \in 1..Len(stack), g <= h
        PROVE  SetTop(f)[g].types \subseteq SetTop(f)[h].types
    <3>1. stack[g].types \subseteq stack[h].types
      BY <1>6, <2>2 DEF TypesFlowDown
    <3>2. g = Len(stack) => h = Len(stack)
      BY <1>1, <2>2
    <3> QED BY <1>2, <1>3, <3>1, <3>2 DEF Later
  <2> QED BY <1>2, <2>1, <2>2 DEF FlowDown
<1> QED BY <1>2, <1>4, <1>5, <1>6

(* Putting the parts of the invariant together after a step that changes   *)
(* the stack and stays in its phase, or ends in "stack overflow".          *)
LEMMA StackStep ==
    ASSUME IInv, Reading, UNCHANGED <<disk, inputs, done, program, mains>>,
           phase' \in {phase, "stack overflow"},
           StackOK(stack'), stack' # <<>>, stack'[1].path = stack[1].path,
           phase' = "parse" => FlowDown(stack') /\ reg' = reg,
           macros' \in [Words -> Words \cup {NoWord}], reg' \subseteq Known,
           errors' \subseteq {"E002", "E005", "E009"}
    PROVE  IInv'
<1>1. World' /\ \A p : Text(p)' = Text(p)
  BY DEF IInv, World, Text
<1>2. TypeOK'
  BY <1>1 DEF IInv, TypeOK, StackOK, Known, Reading, Input, Ends
<1>3. TypesFlowDown'
  BY DEF TypesFlowDown, FlowDown
<1> QED BY <1>1, <1>2, <1>3 DEF IInv
-----------------------------------------------------------------------------
LexedTo(t, n, toks) == [t EXCEPT !.lex = n, !.toks = toks]

LEMMA LexedType ==
    ASSUME NEW t \in Frame, NEW n \in Nat, NEW toks \in Seq(Item)
    PROVE  LET f == LexedTo(t, n, toks)
           IN  /\ f \in Frame /\ f.path = t.path /\ f.types = t.types
               /\ f.lex = n /\ f.toks = toks /\ f.pos = t.pos /\ f.decls = t.decls
<1> DEFINE g == [t EXCEPT !.lex = n]
<1>1. /\ g \in Frame /\ g.path = t.path /\ g.types = t.types /\ g.lex = n /\ g.pos = t.pos
      /\ g.decls = t.decls
  BY DEF Frame
<1>2. LexedTo(t, n, toks) = [g EXCEPT !.toks = toks]
  BY DEF LexedTo
<1> HIDE DEF g
<1> QED BY <1>1, <1>2 DEF Frame

LEMMA LexItemStep == ASSUME IInv, LexItem PROVE IInv'
<1>0. World /\ TypeOK /\ TypesFlowDown /\ Reading
  BY DEF IInv, LexItem, Lexing
<1>1. Len(stack) > 0 /\ Top.lex < Len(Text(Top.path))
  BY <1>0, InputType DEF LexItem, Lexing
<1> DEFINE item == Text(Top.path)[Top.lex + 1]
           toks == IF item.k = "macro" THEN Top.toks ELSE Append(Top.toks, Token(item, macros))
           n    == Top.lex + 1
           f    == LexedTo(Top, n, toks)
<1>2. item \in Item
  <2>1. Text(Top.path) \in Seq(Item) /\ Len(Text(Top.path)) \in Nat /\ Top.lex \in Nat
    BY <1>0, <1>1, TopType, TextType
  <2>2. Top.lex + 1 \in 1..Len(Text(Top.path))
    BY <1>1, <2>1
  <2> QED BY <2>1, <2>2
<1>3. toks \in Seq(Item) /\ Len(Top.toks) <= Len(toks) /\ Len(toks) \in Nat
  <2>1. Token(item, macros) \in Item /\ Top.toks \in Seq(Item)
    BY <1>0, <1>1, <1>2, TokenType, TopType
  <2> QED BY <2>1, Push
<1>4. Later(f)
  <2>1. /\ Top \in Frame /\ Top.lex \in Nat /\ Top.pos \in Nat /\ Top.pos <= Len(Top.toks)
        /\ Len(Top.toks) \in Nat /\ Top.path \in Paths
    BY <1>0, <1>1, TopType
  <2>2. Len(Text(Top.path)) \in Nat
    BY <1>0, <2>1, TextType
  <2> HIDE DEF toks
  <2>3. f \in Frame /\ f.path = Top.path /\ f.types = Top.types /\ f.lex = n
        /\ f.toks = toks /\ f.pos = Top.pos
    <3>1. n \in Nat /\ toks \in Seq(Item) /\ Top \in Frame
      BY <1>3, <2>1
    <3> HIDE DEF n
    <3> QED BY <3>1, LexedType
  <2> QED BY <1>1, <1>3, <2>1, <2>2, <2>3 DEF Later
<1>5. stack' = SetTop(f) /\ UNCHANGED <<disk, inputs, done, program, mains, phase, reg, errors>>
  BY DEF LexItem, LexedTo, result
<1>6. macros' \in [Words -> Words \cup {NoWord}]
  <2>1. macros \in [Words -> Words \cup {NoWord}] /\ item.is \in Words
    BY <1>0, <1>2 DEF TypeOK, Item
  <2>2. macros' = macros \/ macros' = [macros EXCEPT ![item.of] = item.is]
    BY DEF LexItem
  <2> QED BY <2>1, <2>2
<1> HIDE DEF f
<1>7. StackOK(stack') /\ Len(stack') = Len(stack) /\ stack'[1].path = stack[1].path
      /\ (phase = "parse" => FlowDown(stack'))
  BY <1>0, <1>4, <1>5, SetTopOK
<1>8. stack' # <<>>
  BY <1>1, <1>7
<1> QED BY <1>0, <1>5, <1>6, <1>7, <1>8, StackStep DEF TypeOK, Known
-----------------------------------------------------------------------------
(* The token at hand is parsed; types and declarations may be added.       *)
Taught(t, types, decls) == [t EXCEPT !.types = types, !.decls = decls]

LEMMA TaughtType ==
    ASSUME NEW t \in Frame, NEW types \in SUBSET Known, NEW decls \in Seq(Decl)
    PROVE  LET f == Taught(t, types, decls)
           IN  /\ f \in Frame /\ f.path = t.path /\ f.types = types
               /\ f.lex = t.lex /\ f.toks = t.toks /\ f.pos = t.pos /\ f.decls = decls
<1> DEFINE g == [t EXCEPT !.types = types]
<1>1. g \in Frame /\ g.path = t.path /\ g.types = types /\ g.lex = t.lex /\ g.toks = t.toks
      /\ g.pos = t.pos
  BY DEF Frame, Known
<1>2. Taught(t, types, decls) = [g EXCEPT !.decls = decls]
  BY DEF Taught
<1> HIDE DEF g
<1> QED BY <1>1, <1>2 DEF Frame

LEMMA PastParts ==
    ASSUME World, TypeOK, NEW ks, At(ks)
    PROVE  /\ Past \in Frame /\ Past.path = Top.path /\ Past.types = Top.types
           /\ Past.lex = Top.lex /\ Past.toks = Top.toks /\ Past.pos = Top.pos + 1
           /\ Past.decls = Top.decls /\ Past.decls \in Seq(Decl)
<1>1. Past = [Top EXCEPT !.pos = Top.pos + 1] /\ Top \in Frame /\ Past \in Frame
  BY TokType, TopType
<1> QED BY <1>1 DEF Frame

LEMMA PastTaught ==
    ASSUME World, TypeOK, NEW ks, At(ks), NEW types \in SUBSET Known,
           Top.types \subseteq types, NEW decls \in Seq(Decl)
    PROVE  Later(Taught(Past, types, decls))
<1>1. /\ Past \in Frame /\ Past.path = Top.path /\ Past.lex = Top.lex
      /\ Past.toks = Top.toks /\ Past.pos = Top.pos + 1
  BY PastParts
<1>2. Top.lex <= Len(Text(Top.path)) /\ Top.pos + 1 <= Len(Top.toks)
  BY TokType, TopType
<1> QED BY <1>1, <1>2, TaughtType DEF Later

LEMMA PastLater ==
    ASSUME World, TypeOK, NEW ks, At(ks) PROVE Later(Past)
<1>1. Top.lex <= Len(Text(Top.path)) /\ Top.pos + 1 <= Len(Top.toks)
  BY TokType, TopType
<1> QED BY <1>1, PastParts DEF Later

(* A step that leaves a later file on top.                                 *)
LEMMA TopStep ==
    ASSUME IInv, Reading, NEW f, Later(f), stack' = SetTop(f),
           UNCHANGED <<disk, inputs, done, program, mains, phase, macros>>,
           reg' \subseteq Known, phase = "parse" => reg' = reg,
           errors' \subseteq {"E002", "E005", "E009"}
    PROVE  IInv'
<1>0. World /\ TypeOK /\ TypesFlowDown
  BY DEF IInv
<1>1. StackOK(stack') /\ Len(stack') = Len(stack) /\ stack'[1].path = stack[1].path
      /\ (phase = "parse" => FlowDown(stack'))
  BY <1>0, SetTopOK
<1>2. stack' # <<>>
  BY <1>0, <1>1, InputType
<1> QED BY <1>0, <1>1, <1>2, StackStep DEF TypeOK

LEMMA CollectTypeStep == ASSUME IInv, CollectType PROVE IInv'
<1>0. World /\ TypeOK /\ TypesFlowDown /\ Reading /\ At({"type"}) /\ phase = "collect"
  BY DEF IInv, CollectType, Reading
<1> DEFINE types == Top.types \cup {Tok.of}
           f     == Taught(Past, types, Past.decls)
<1>1. Tok.of \in Known /\ Top.types \in SUBSET Known
  BY <1>0, TokType, TopType
<1>2. types \in SUBSET Known
  BY <1>1
<1>3. Past \in Frame /\ Past.decls \in Seq(Decl)
  BY <1>0, PastParts
<1>4. Later(f)
  BY <1>0, <1>2, <1>3, PastTaught
<1>5. [Past EXCEPT !.types = types] = f
  BY <1>3 DEF Taught, Frame
<1>6. stack' = SetTop(f)
  BY <1>5 DEF CollectType
<1>7. /\ UNCHANGED <<disk, inputs, done, program, mains, phase, macros>>
      /\ reg' = reg \cup {Tok.of}
      /\ errors' \subseteq errors \cup {"E002", "E005"}
  BY DEF CollectType, BodyErrors
<1> HIDE DEF f, types
<1> QED BY <1>0, <1>1, <1>4, <1>6, <1>7, TopStep DEF IInv, TypeOK, Known

LEMMA CollectSkipStep == ASSUME IInv, CollectSkip PROVE IInv'
<1>0. World /\ TypeOK /\ Reading /\ At({"use", "fn", "oldfn"})
  BY DEF IInv, CollectSkip, Reading
<1>1. Later(Past)
  BY <1>0, PastLater
<1>2. /\ UNCHANGED <<disk, inputs, done, program, mains, phase, macros, reg>>
      /\ errors' \subseteq errors \cup {"E002"} /\ stack' = SetTop(Past)
  BY DEF CollectSkip
<1> QED BY <1>0, <1>1, <1>2, TopStep DEF TypeOK, Known

LEMMA ParseDeclStep == ASSUME IInv, ParseDecl PROVE IInv'
<1>0. World /\ TypeOK /\ Reading /\ At({"use", "type", "fn", "oldfn"})
  BY DEF IInv, ParseDecl, Reading
<1> DEFINE kind  == IF Tok.k = "oldfn" THEN "fn" ELSE Tok.k
           types == IF kind = "type" THEN Top.types \cup {Tok.of} ELSE Top.types
           decl  == [k |-> kind, of |-> Tok.of, path |-> Tok.path]
           f     == Taught(Past, types, Append(Past.decls, decl))
<1>1. /\ Tok.of \in Known /\ Top.types \in SUBSET Known /\ Tok.path \in Paths
      /\ Tok.k \in {"use", "type", "fn", "oldfn"}
  BY <1>0, TokType, TopType
<1>2. types \in SUBSET Known /\ Top.types \subseteq types /\ decl \in Decl
  BY <1>1 DEF Decl, Known
<1>3. Past \in Frame /\ Past.decls \in Seq(Decl) /\ Append(Past.decls, decl) \in Seq(Decl)
  BY <1>0, <1>2, PastParts, Push
<1>4. Later(f)
  BY <1>0, <1>2, <1>3, PastTaught
<1>5. [Past EXCEPT !.types = types, !.decls = Append(@, decl)] = f
  <2> HIDE DEF types, decl
  <2> QED BY <1>3 DEF Taught, Frame
<1>6. stack' = SetTop(f)
  BY <1>5 DEF ParseDecl
<1>7. /\ UNCHANGED <<disk, inputs, done, program, mains, phase, macros, reg>>
      /\ errors' \subseteq errors \cup {"E002", "E005"}
  BY DEF ParseDecl, BodyErrors
<1> HIDE DEF f, types, decl, kind
<1> QED BY <1>0, <1>4, <1>6, <1>7, TopStep DEF TypeOK, Known
-----------------------------------------------------------------------------
LEMMA OpenType ==
    ASSUME NEW p \in Paths, NEW types \in SUBSET Known
    PROVE  LET f == Open(p, types)
           IN  /\ f \in Frame /\ f.path = p /\ f.types = types
               /\ f.lex = 0 /\ f.pos = 0 /\ f.toks = <<>> /\ f.decls = <<>>
  BY DEF Open, Frame, Known

(* A used file goes on top of its user with the types its user has.        *)
LEMMA ReadUsedStep ==
    ASSUME IInv, At({"@use"}), NEW types \in SUBSET Known, ReadUsed(types),
           phase = "parse" => types = Top.types
    PROVE  IInv'
<1>0. World /\ TypeOK /\ TypesFlowDown /\ Reading
  BY DEF IInv, At
<1> DEFINE used == Resolve(Input, Tok.path)
           base == SetTop(Past)
           s    == Append(base, Open(used, types))
<1>1. used \in Paths
  <2>1. Input \in Paths /\ Tok.path \in Paths
    BY <1>0, InputType, TokType
  <2> QED BY <2>1 DEF Resolve, Paths
<1>2. /\ StackOK(base) /\ Len(base) = Len(stack) /\ base[1].path = stack[1].path
      /\ \A i \in 1..Len(stack) : base[i] = IF i = Len(stack) THEN Past ELSE stack[i]
      /\ phase = "parse" => FlowDown(base)
  BY <1>0, PastLater, SetTopOK
<1>3. Len(stack) \in Nat /\ Len(stack) > 0 /\ Len(stack) \in 1..Len(stack)
  BY <1>0, InputType, TopType
<1> DEFINE new == Open(used, types)
<1>4. /\ new \in Frame /\ new.path = used /\ new.types = types
      /\ new.lex = 0 /\ new.pos = 0 /\ new.toks = <<>>
  BY <1>1, OpenType
<1>5. Len(Text(used)) \in Nat
  BY <1>0, <1>1, TextType
<1> HIDE DEF base, new, used
<1>6. /\ s \in Seq(Frame) /\ Len(s) = Len(stack) + 1 /\ s[Len(stack) + 1] = new
      /\ \A i \in 1..Len(stack) : s[i] = base[i]
  BY <1>2, <1>4, Push DEF StackOK, new
<1> HIDE DEF s
<1>7. /\ UNCHANGED <<disk, inputs, done, program, mains, macros, reg>>
      /\ errors' \subseteq errors \cup {"E009"}
      /\ \/ Len(stack) < MaxStack /\ stack' = s /\ phase' = phase
         \/ phase' = "stack overflow" /\ stack' = stack
  BY DEF ReadUsed, s, base, used
<1>8. CASE stack' = s /\ phase' = phase /\ Len(stack) < MaxStack
  <2>1. StackOK(s)
    <3>1. Len(s) <= MaxStack
      BY <1>3, <1>6, <1>8, BoundAssumption
    <3>2. ASSUME NEW i \in 1..Len(s)
          PROVE  s[i].lex <= Len(Text(s[i].path)) /\ s[i].pos <= Len(s[i].toks)
      <4>1. CASE i = Len(stack) + 1
        BY <1>4, <1>5, <1>6, <4>1
      <4>2. CASE i # Len(stack) + 1
        <5>1. i \in 1..Len(base)
          BY <1>2, <1>3, <1>6, <4>2
        <5> QED BY <1>2, <1>6, <5>1 DEF StackOK
      <4> QED BY <4>1, <4>2
    <3> QED BY <1>6, <3>1, <3>2 DEF StackOK
  <2>2. s[1].path = stack[1].path /\ s # <<>>
    BY <1>2, <1>3, <1>6
  <2>3. ASSUME phase = "parse" PROVE FlowDown(s)
    <3>1. base[Len(stack)].types = types
      BY <1>0, <1>2, <1>3, <2>3, PastParts
    <3>2. reg \subseteq s[1].types
      BY <1>2, <1>3, <1>6, <2>3 DEF FlowDown
    <3>3. ASSUME NEW f \in 1..Len(s), NEW g \in 1..Len(s), f <= g
          PROVE  s[f].types \subseteq s[g].types
      <4>1. ASSUME f \in 1..Len(stack) PROVE s[f].types \subseteq types
        BY <1>2, <1>3, <1>6, <2>3, <3>1, <4>1 DEF FlowDown
      <4>2. CASE g = Len(stack) + 1
        BY <1>3, <1>4, <1>6, <4>1, <4>2
      <4>3. CASE g # Len(stack) + 1
        <5>1. f \in 1..Len(base) /\ g \in 1..Len(base)
          BY <1>2, <1>3, <1>6, <3>3, <4>3
        <5> QED BY <1>2, <1>6, <2>3, <3>3, <5>1 DEF FlowDown
      <4> QED BY <4>2, <4>3
    <3> QED BY <3>2, <3>3 DEF FlowDown
  <2> QED BY <1>0, <1>7, <1>8, <2>1, <2>2, <2>3, StackStep DEF TypeOK, Known
<1>9. CASE phase' = "stack overflow" /\ stack' = stack
  <2>1. StackOK(stack') /\ stack' # <<>>
    BY <1>0, <1>3, <1>9 DEF TypeOK, StackOK
  <2> QED BY <1>0, <1>7, <1>9, <2>1, StackStep DEF TypeOK, Known
<1> QED BY <1>7, <1>8, <1>9

LEMMA CollectUseStep == ASSUME IInv, CollectUse PROVE IInv'
<1>1. {} \in SUBSET Known
  OBVIOUS
<1> QED BY <1>1, ReadUsedStep DEF CollectUse

LEMMA ParseUseStep == ASSUME IInv, ParseUse PROVE IInv'
<1>1. Top.types \in SUBSET Known
  BY TokType, TopType DEF IInv, ParseUse
<1> QED BY <1>1, ReadUsedStep DEF ParseUse
-----------------------------------------------------------------------------
LEMMA DeclsType ==
    ASSUME NEW t \in Frame, NEW decls \in Seq(Decl)
    PROVE  LET f == [t EXCEPT !.decls = decls]
           IN  /\ f \in Frame /\ f.path = t.path /\ f.types = t.types
               /\ f.lex = t.lex /\ f.toks = t.toks /\ f.pos = t.pos /\ f.decls = decls
  BY DEF Frame

(* A used file is left and its user is on top again, with the same types.  *)
LEMMA ReturnStep == ASSUME IInv, Return PROVE IInv'
<1>0. World /\ TypeOK /\ TypesFlowDown /\ Reading /\ Len(stack) > 1
  BY DEF IInv, Return, AtEnd
<1> DEFINE n     == Len(stack) - 1
           decls == IF phase = "parse" THEN Below[n].decls \o Top.decls ELSE Below[n].decls
           user  == [Below[n] EXCEPT !.decls = decls]
<1>1. n \in Nat /\ n \in 1..n /\ n \in 0..Len(stack) /\ n \in 1..Len(stack) /\ n < Len(stack)
  BY <1>0, TopType
<1>2. /\ Below \in Seq(Frame) /\ Len(Below) = n
      /\ \A i \in 1..n : Below[i] = stack[i] /\ i \in 1..Len(stack)
  BY <1>0, <1>1, Cut DEF Below, TypeOK
<1>3. Below[n] \in Frame /\ Below[n].decls \in Seq(Decl) /\ Top.decls \in Seq(Decl)
  <2>1. Below[n] \in Frame
    BY <1>1, <1>2
  <2>2. Below[n].decls \in Seq(Decl)
    BY <2>1 DEF Frame
  <2> QED BY <1>0, <2>1, <2>2, TopType
<1>4. decls \in Seq(Decl)
  BY <1>3, Join
<1> HIDE DEF decls
<1>5. /\ user \in Frame /\ user.path = Below[n].path /\ user.types = Below[n].types
      /\ user.lex = Below[n].lex /\ user.toks = Below[n].toks /\ user.pos = Below[n].pos
  BY <1>3, <1>4, DeclsType
<1>6. stack' = [Below EXCEPT ![n] = user]
  BY <1>1, <1>2, <1>3 DEF Return, decls
<1> HIDE DEF user, n
<1>7. /\ stack' \in Seq(Frame) /\ Len(stack') = n
      /\ \A i \in 1..n : stack'[i] = IF i = n THEN user ELSE Below[i]
  BY <1>1, <1>2, <1>5, <1>6, Replace
<1>8. \A i \in 1..n : /\ stack'[i].path = stack[i].path /\ stack'[i].types = stack[i].types
                      /\ stack'[i].lex = stack[i].lex /\ stack'[i].toks = stack[i].toks
                      /\ stack'[i].pos = stack[i].pos
  BY <1>2, <1>5, <1>7
<1>9. UNCHANGED <<disk, inputs, done, program, mains, macros, reg, phase, errors>>
  BY DEF Return, result
<1>10. StackOK(stack')
  <2>1. n <= MaxStack
    BY <1>0, <1>1, BoundAssumption DEF TypeOK
  <2> QED BY <1>0, <1>2, <1>7, <1>8, <2>1 DEF StackOK, TypeOK
<1>11. stack' # <<>> /\ stack'[1].path = stack[1].path
  BY <1>1, <1>7, <1>8
<1>12. ASSUME phase = "parse" PROVE FlowDown(stack')
  BY <1>0, <1>1, <1>2, <1>7, <1>8, <1>12 DEF TypesFlowDown, FlowDown
<1> QED BY <1>0, <1>9, <1>10, <1>11, <1>12, StackStep DEF TypeOK, Known

LEMMA BeginParseStep == ASSUME IInv, BeginParse PROVE IInv'
<1>0. World /\ TypeOK /\ Len(stack) = 1 /\ phase = "collect" /\ Reading
  BY DEF IInv, BeginParse, Reading
<1> DEFINE g == [Top EXCEPT !.pos = 0]
           f == [Top EXCEPT !.pos = 0, !.types = reg]
<1>1. /\ Top \in Frame /\ Top = stack[1] /\ reg \in SUBSET Known
      /\ Top.lex <= Len(Text(Top.path)) /\ Len(Top.toks) \in Nat
  BY <1>0, TopType DEF TypeOK, Known
<1>2. g \in Frame /\ g.path = Top.path /\ g.lex = Top.lex /\ g.toks = Top.toks /\ g.pos = 0
  BY <1>1 DEF Frame
<1>3. f = [g EXCEPT !.types = reg]
  OBVIOUS
<1> HIDE DEF f, g
<1>4. /\ f \in Frame /\ f.path = Top.path /\ f.lex = Top.lex /\ f.toks = Top.toks
      /\ f.pos = 0 /\ f.types = reg
  BY <1>1, <1>2, <1>3 DEF Frame, Known
<1>5. /\ stack' = <<f>> /\ phase' = "parse"
      /\ UNCHANGED <<disk, inputs, done, macros, result>>
  BY DEF BeginParse, f
<1>6. World' /\ \A p : Text(p)' = Text(p)
  BY <1>0, <1>5 DEF World, Text
<1>7. TypeOK'
  BY <1>0, <1>1, <1>4, <1>5, <1>6, BoundAssumption DEF TypeOK, Reading, Input, result, Ends
<1>8. TypesFlowDown'
  BY <1>4, <1>5 DEF TypesFlowDown, result
<1> QED BY <1>6, <1>7, <1>8 DEF IInv

LEMMA NextInputStep == ASSUME IInv, NextInput PROVE IInv'
<1>0. World /\ TypeOK /\ phase = "next" /\ stack = <<>> /\ done < Len(inputs)
  BY DEF IInv, NextInput, TypeOK
<1> DEFINE p == inputs[done + 1]
           f == Open(p, {})
<1>1. done + 1 \in 1..Len(inputs) /\ p \in Paths
  BY <1>0, LinesAssumption DEF World, TypeOK
<1>2. f \in Frame /\ f.path = p /\ f.lex = 0 /\ f.pos = 0 /\ f.toks = <<>>
  BY <1>1, OpenType
<1>3. Len(Text(p)) \in Nat
  BY <1>0, <1>1, TextType
<1>4. /\ UNCHANGED <<disk, inputs, macros, program, mains, errors>> /\ done' = done + 1
      /\ \/ phase' = "no input" /\ UNCHANGED <<stack, reg>>
         \/ phase' = "collect" /\ stack' = <<f>> /\ reg' = {}
  BY DEF NextInput
<1> HIDE DEF f
<1>5. World' /\ \A q : Text(q)' = Text(q)
  BY <1>0, <1>4 DEF World, Text
<1>6. Input' = p
  BY <1>4 DEF Input
<1>7. CASE phase' = "no input" /\ UNCHANGED <<stack, reg>>
  <2>1. TypeOK'
    <3>1. done' \in 0..Len(inputs)
      <4>1. Len(inputs) \in Nat /\ done \in Nat
        BY <1>0, LinesAssumption DEF World, TypeOK
      <4>2. done + 1 \in 0..Len(inputs)
        BY <1>1, <4>1
      <4>3. done' = done + 1
        BY <1>4
      <4> QED BY <4>2, <4>3
    <3> QED BY <1>0, <1>4, <1>5, <1>7, <3>1 DEF TypeOK, Reading, Ends
  <2> QED BY <1>5, <1>7, <2>1 DEF IInv, TypesFlowDown
<1>8. CASE phase' = "collect" /\ stack' = <<f>> /\ reg' = {}
  <2>1. TypeOK'
    BY <1>0, <1>1, <1>2, <1>3, <1>4, <1>5, <1>6, <1>8, BoundAssumption DEF TypeOK, Reading
  <2> QED BY <1>5, <1>8, <2>1 DEF IInv, TypesFlowDown
<1> QED BY <1>4, <1>7, <1>8

LEMMA MainsType == ASSUME NEW decls \in Seq(Decl) PROVE Mains(decls) \in Nat
<1> DEFINE s == {i \in 1..Len(decls) : decls[i].k = "fn" /\ decls[i].of = "main"}
<1>1. IsFiniteSet(1..Len(decls))
  BY FS_Interval
<1>2. IsFiniteSet(s)
  BY <1>1, FS_Subset
<1> QED BY <1>2, FS_CardinalityType DEF Mains

LEMMA MergeStep == ASSUME IInv, Merge PROVE IInv'
<1>0. World /\ TypeOK /\ Reading
  BY DEF IInv, Merge, AtEnd
<1> DEFINE d  == Top.decls
           ds == [i \in 1..Len(d) |-> [file |-> Input, decl |-> d[i]]]
<1>1. d \in Seq(Decl) /\ Input \in Paths
  BY <1>0, InputType, TopType
<1>2. ds \in Seq([file : Paths, decl : Decl])
  BY <1>1
<1>3. Mains(d) \in Nat
  BY <1>1, MainsType
<1>4. /\ UNCHANGED <<disk, inputs, done, macros, reg, errors>>
      /\ phase' = "next" /\ stack' = <<>>
      /\ program' = program \o ds /\ mains' = mains + Mains(d)
  BY DEF Merge
<1> HIDE DEF d, ds
<1>5. program' \in Seq([file : Paths, decl : Decl]) /\ mains' \in Nat
  BY <1>0, <1>2, <1>3, <1>4 DEF TypeOK
<1>6. World' /\ TypeOK'
  BY <1>0, <1>4, <1>5, BoundAssumption DEF World, TypeOK, Text, Reading
<1> QED BY <1>4, <1>6 DEF IInv, TypesFlowDown

LEMMA LinkStep == ASSUME IInv, Link PROVE IInv'
<1>1. /\ UNCHANGED <<disk, inputs, done, stack, macros, reg, program, mains, errors>>
      /\ phase' \in Ends
  BY DEF Link, reading, result, Ends
<1> QED BY <1>1 DEF IInv, World, TypeOK, TypesFlowDown, Text, Reading, Ends
-----------------------------------------------------------------------------
LEMMA InitIInv == Init => IInv
<1> SUFFICES ASSUME Init PROVE IInv
  OBVIOUS
<1>1. inputs \in Seq(Paths)
  BY LinesAssumption DEF Init
<1> QED BY <1>1, BoundAssumption DEF Init, IInv, World, TypeOK, TypesFlowDown, Reading

LEMMA IInvNext == IInv /\ [Next]_vars => IInv'
<1> SUFFICES ASSUME IInv, [Next]_vars PROVE IInv'
  OBVIOUS
<1>1. CASE UNCHANGED vars
  BY <1>1 DEF IInv, World, TypeOK, TypesFlowDown, Text, Reading, Input, vars, reading, result
<1> QED BY <1>1, NextInputStep, LexItemStep, CollectUseStep, CollectTypeStep, CollectSkipStep,
           BeginParseStep, ParseUseStep, ParseDeclStep, ReturnStep, MergeStep, LinkStep DEF Next

(* Every state the compiler reaches is well typed, whatever the files: the *)
(* tokens are read in bounds and the bottom of the stack is the input.     *)
THEOREM TypeCorrect == Spec => []TypeOK
<1>1. IInv => TypeOK
  BY DEF IInv
<1> QED BY InitIInv, IInvNext, <1>1, PTL DEF Spec

(* While a file is parsed, everything collected for the input and every    *)
(* type its users knew is known to it.                                     *)
THEOREM TypesInherited == Spec => []TypesFlowDown
<1>1. IInv => TypesFlowDown
  BY DEF IInv
<1> QED BY InitIInv, IInvNext, <1>1, PTL DEF Spec
-----------------------------------------------------------------------------
(* Sets of numbers.                                                        *)
LEMMA Least ==
    ASSUME NEW S, S \subseteq Nat, S # {}
    PROVE  \E x \in S : \A y \in S : x <= y
<1>1. PICK x \in S : \A y \in S : <<y, x>> \notin OpToRel(<, Nat)
  BY WFMin, NatLessThanWellFounded
<1>2. \A y \in S : ~ (y < x)
  BY <1>1 DEF OpToRel
<1> QED BY <1>2

LEMMA Greatest ==
    ASSUME NEW n \in Nat, NEW S, S \subseteq 0..n, S # {}
    PROVE  \E x \in S : \A y \in S : y <= x
<1> DEFINE D == {n - y : y \in S}
<1>1. D \subseteq Nat /\ D # {}
  <2>1. D \subseteq Nat
    OBVIOUS
  <2>2. PICK y \in S : TRUE
    OBVIOUS
  <2>3. n - y \in D
    BY <2>2
  <2> QED BY <2>1, <2>3
<1>2. PICK d \in D : \A e \in D : d <= e
  <2> HIDE DEF D
  <2> QED BY <1>1, Least
<1>3. PICK x \in S : d = n - x
  OBVIOUS
<1>4. \A y \in S : n - x <= n - y
  BY <1>2, <1>3
<1> QED BY <1>4

LEMMA UpToAll ==
    ASSUME NEW S, 0 \in S, \A n \in Nat : n \in S => n + 1 \in S
    PROVE  Nat \subseteq S
<1> SUFFICES ASSUME Nat \ S # {} PROVE FALSE
  OBVIOUS
<1>1. PICK n \in Nat \ S : \A m \in Nat \ S : n <= m
  BY Least
<1>2. n # 0 /\ n - 1 \in Nat /\ n - 1 \in S
  BY <1>1
<1> QED BY <1>1, <1>2

(* A function can be iterated: what `f[n \in Nat] == ... f[n - 1] ...`     *)
(* defines exists.  Part holds its beginnings.                             *)
Part(F, w, n, S) == {g \in [0..n -> S] : g[0] = w /\ \A i \in 0..(n - 1) : g[i + 1] = F[g[i]]}

LEMMA PartIs ==
    ASSUME NEW S, NEW F, NEW w, NEW n \in Nat, NEW g \in Part(F, w, n, S)
    PROVE  g[0] = w /\ (\A i \in 0..n : g[i] \in S) /\ \A i \in 0..(n - 1) : g[i + 1] = F[g[i]]
  BY DEF Part

Within(F, S) == \A x \in S : F[x] \in S

LEMMA Iterable ==
    ASSUME NEW S, NEW F, Within(F, S), NEW w \in S
    PROVE  \E f \in [Nat -> S] : f[0] = w /\ \A n \in Nat : f[n + 1] = F[f[n]]
<1> DEFINE A == {n \in Nat : Part(F, w, n, S) # {}}
<1>1. Nat \subseteq A
  <2>1. 0 \in A
    <3>1. [i \in 0..0 |-> w] \in Part(F, w, 0, S)
      BY DEF Part
    <3> QED BY <3>1
  <2>2. ASSUME NEW n \in Nat, n \in A PROVE n + 1 \in A
    <3>1. PICK g : g \in Part(F, w, n, S)
      BY <2>2
    <3> DEFINE h == [i \in 0..(n + 1) |-> IF i = n + 1 THEN F[g[n]] ELSE g[i]]
    <3>2. h \in [0..(n + 1) -> S]
      <4>1. \A i \in 0..n : g[i] \in S
        BY <3>1, PartIs
      <4>2. F[g[n]] \in S
        BY <4>1 DEF Within
      <4>3. ASSUME NEW i \in 0..(n + 1) PROVE (IF i = n + 1 THEN F[g[n]] ELSE g[i]) \in S
        BY <4>1, <4>2
      <4> QED BY <4>3
    <3>3. h[0] = w /\ \A i \in 0..n : h[i + 1] = F[h[i]]
      BY <3>1, PartIs
    <3> HIDE DEF h
    <3>4. h \in Part(F, w, n + 1, S)
      BY <3>2, <3>3 DEF Part
    <3> QED BY <3>4
  <2> HIDE DEF A
  <2> QED BY <2>1, <2>2, UpToAll
<1>2. ASSUME NEW n \in Nat, NEW m \in Nat, n <= m,
             NEW g \in Part(F, w, n, S), NEW h \in Part(F, w, m, S)
      PROVE  g[n] = h[n]
  <2> DEFINE B == {i \in Nat : i <= n => g[i] = h[i]}
  <2>1. 0 \in B
    BY <1>2, PartIs
  <2>2. ASSUME NEW i \in Nat, i \in B PROVE i + 1 \in B
    BY <1>2, <2>2, PartIs
  <2>3. Nat \subseteq B
    <3> HIDE DEF B
    <3> QED BY <2>1, <2>2, UpToAll
  <2> QED BY <2>3
<1> DEFINE c(n) == CHOOSE g : g \in Part(F, w, n, S)
           f    == [n \in Nat |-> c(n)[n]]
<1>3. ASSUME NEW n \in Nat PROVE c(n) \in Part(F, w, n, S)
  BY <1>1
<1> HIDE DEF c
<1>4. f \in [Nat -> S]
  <2>1. ASSUME NEW n \in Nat PROVE c(n)[n] \in S
    <3>1. c(n) \in Part(F, w, n, S)
      BY <1>3
    <3> QED BY <3>1, PartIs
  <2> QED BY <2>1
<1>5. f[0] = w
  <2>1. c(0) \in Part(F, w, 0, S)
    BY <1>3
  <2> QED BY <2>1, PartIs
<1>6. ASSUME NEW n \in Nat PROVE f[n + 1] = F[f[n]]
  <2>1. c(n) \in Part(F, w, n, S) /\ c(n + 1) \in Part(F, w, n + 1, S) /\ n + 1 \in Nat
    BY <1>3
  <2>2. c(n)[n] = c(n + 1)[n]
    BY <1>2, <2>1
  <2>3. c(n + 1)[n + 1] = F[c(n + 1)[n]]
    BY <2>1, PartIs
  <2> QED BY <2>1, <2>2, <2>3
<1> QED BY <1>4, <1>5, <1>6
-----------------------------------------------------------------------------
Tables == [Words -> Words \cup {NoWord}]
Rewrites(table, w) == IF table[w] = NoWord THEN w ELSE table[w]
After(table, w) == CHOOSE after : after = [n \in Nat |->
                      IF n = 0 THEN w ELSE LET v == after[n - 1] IN IF table[v] = NoWord THEN v ELSE table[v]]

LEMMA ExpandIs ==
    ASSUME NEW table, NEW w
    PROVE  LET last == After(table, w)[MaxExpand]
           IN  Expand(table, w) = IF last \in Words /\ table[last] = NoWord THEN last ELSE Gone
  BY DEF Expand, After

LEMMA AfterIs ==
    ASSUME NEW table \in Tables, NEW w \in Words
    PROVE  /\ After(table, w) \in [Nat -> Words] /\ After(table, w)[0] = w
           /\ \A n \in Nat : After(table, w)[n + 1] = Rewrites(table, After(table, w)[n])
<1> DEFINE F == [v \in Words |-> Rewrites(table, v)]
           G(g) == [n \in Nat |-> IF n = 0 THEN w ELSE LET v == g[n - 1] IN IF table[v] = NoWord THEN v ELSE table[v]]
<1>1. Within(F, Words)
  BY DEF Tables, Rewrites, Within
<1>2. PICK f \in [Nat -> Words] : f[0] = w /\ \A n \in Nat : f[n + 1] = F[f[n]]
  <2> HIDE DEF F
  <2> QED BY <1>1, Iterable
<1>3. f = G(f)
  <2>1. ASSUME NEW n \in Nat PROVE f[n] = G(f)[n]
    <3>1. CASE n = 0
      BY <1>2, <3>1
    <3>2. CASE n # 0
      <4>1. n - 1 \in Nat /\ (n - 1) + 1 = n
        BY <3>2
      <4>2. f[n] = F[f[n - 1]] /\ f[n - 1] \in Words
        BY <1>2, <4>1
      <4> QED BY <3>2, <4>2 DEF Rewrites
    <3> QED BY <3>1, <3>2
  <2> QED BY <1>2, <2>1
<1>4. After(table, w) = G(After(table, w))
  <2>1. \E g : g = G(g)
    BY <1>3
  <2> QED BY <2>1 DEF After
<1> DEFINE a == After(table, w)
<1>5. a[0] = w /\ \A n \in Nat : a[n + 1] = Rewrites(table, a[n])
  <2> HIDE DEF a
  <2>1. a = G(a)
    BY <1>4 DEF a
  <2>2. a[0] = w
    BY <2>1
  <2>3. ASSUME NEW n \in Nat PROVE a[n + 1] = Rewrites(table, a[n])
    <3>1. n + 1 \in Nat /\ n + 1 # 0 /\ (n + 1) - 1 = n
      OBVIOUS
    <3> QED BY <2>1, <3>1 DEF Rewrites
  <2> QED BY <2>2, <2>3
<1>6. \A n \in Nat : a[n] \in Words
  <2> DEFINE B == {n \in Nat : a[n] \in Words}
  <2>1. 0 \in B
    BY <1>5
  <2>2. ASSUME NEW n \in Nat, n \in B PROVE n + 1 \in B
    BY <1>5, <2>2 DEF Rewrites, Tables
  <2>3. Nat \subseteq B
    <3> HIDE DEF B
    <3> QED BY <2>1, <2>2, UpToAll
  <2> QED BY <2>3
<1>7. a \in [Nat -> Words]
  BY <1>4, <1>6
<1> QED BY <1>5, <1>7

(* Expansion depends only on the words that can be reached.                *)
LEMMA ExpandAgree ==
    ASSUME NEW s \in Tables, NEW t \in Tables, NEW said \in SUBSET Words, NEW w \in said,
           \A v \in said : s[v] = t[v] /\ (s[v] = NoWord \/ s[v] \in said)
    PROVE  Expand(s, w) = Expand(t, w)
<1> DEFINE a == After(s, w)
           b == After(t, w)
           B == {n \in Nat : a[n] = b[n] /\ a[n] \in said}
<1>1. /\ a[0] = w /\ \A n \in Nat : a[n + 1] = Rewrites(s, a[n])
      /\ b[0] = w /\ \A n \in Nat : b[n + 1] = Rewrites(t, b[n])
  BY AfterIs
<1> HIDE DEF a, b
<1>2. 0 \in B
  BY <1>1
<1>3. ASSUME NEW n \in Nat, n \in B PROVE n + 1 \in B
  BY <1>1, <1>3 DEF Rewrites
<1>4. Nat \subseteq B
  <2> HIDE DEF B
  <2> QED BY <1>2, <1>3, UpToAll
<1>5. a[MaxExpand] = b[MaxExpand] /\ a[MaxExpand] \in said
  BY <1>4, BoundAssumption
<1> QED BY <1>5, ExpandIs DEF a, b

LEMMA ExpandFixed ==
    ASSUME NEW t \in Tables, NEW w \in Words, t[w] = NoWord
    PROVE  Expand(t, w) = w
<1> DEFINE a == After(t, w)
           B == {n \in Nat : a[n] = w}
<1>1. a[0] = w /\ \A n \in Nat : a[n + 1] = Rewrites(t, a[n])
  BY AfterIs
<1> HIDE DEF a
<1>2. 0 \in B
  BY <1>1
<1>3. ASSUME NEW n \in Nat, n \in B PROVE n + 1 \in B
  BY <1>1, <1>3 DEF Rewrites
<1>4. Nat \subseteq B
  <2> HIDE DEF B
  <2> QED BY <1>2, <1>3, UpToAll
<1>5. a[MaxExpand] = w
  BY <1>4, BoundAssumption
<1> QED BY <1>5, ExpandIs DEF a
-----------------------------------------------------------------------------
Spoken(p, n) == {i \in 1..n : Text(p)[i].k # "macro"}
Rank(p, n)   == Cardinality(Spoken(p, n))

LEMMA SpokenType ==
    ASSUME NEW p, NEW n \in Nat
    PROVE  IsFiniteSet(Spoken(p, n)) /\ Rank(p, n) \in Nat
<1>1. IsFiniteSet(1..n) /\ Spoken(p, n) \subseteq 1..n
  BY FS_Interval DEF Spoken
<1>2. IsFiniteSet(Spoken(p, n))
  BY <1>1, FS_Subset
<1> QED BY <1>2, FS_CardinalityType DEF Rank

LEMMA RankStart == ASSUME NEW p PROVE Rank(p, 0) = 0 /\ Spoken(p, 0) = {}
<1>1. Spoken(p, 0) = {}
  BY DEF Spoken
<1> QED BY <1>1, FS_EmptySet DEF Rank

LEMMA RankStep ==
    ASSUME NEW p, NEW n \in Nat
    PROVE  /\ Text(p)[n + 1].k = "macro" => /\ Spoken(p, n + 1) = Spoken(p, n)
                                            /\ Rank(p, n + 1) = Rank(p, n)
           /\ Text(p)[n + 1].k # "macro" => /\ Spoken(p, n + 1) = Spoken(p, n) \cup {n + 1}
                                            /\ Rank(p, n + 1) = Rank(p, n) + 1
<1>1. CASE Text(p)[n + 1].k = "macro"
  <2>1. Spoken(p, n + 1) = Spoken(p, n)
    BY <1>1 DEF Spoken
  <2> QED BY <1>1, <2>1 DEF Rank
<1>2. CASE Text(p)[n + 1].k # "macro"
  <2>1. Spoken(p, n + 1) = Spoken(p, n) \cup {n + 1}
    BY <1>2 DEF Spoken
  <2>2. n + 1 \notin Spoken(p, n)
    BY DEF Spoken
  <2>3. Cardinality(Spoken(p, n) \cup {n + 1}) = Cardinality(Spoken(p, n)) + 1
    BY <2>2, SpokenType, FS_AddElement
  <2> QED BY <1>2, <2>1, <2>3 DEF Rank
<1> QED BY <1>1, <1>2

LEMMA RankGrows ==
    ASSUME NEW p, NEW m \in Nat, NEW n \in Nat, m <= n
    PROVE  Rank(p, m) <= Rank(p, n)
<1>1. Spoken(p, m) \subseteq Spoken(p, n)
  BY DEF Spoken
<1> QED BY <1>1, SpokenType, FS_Subset DEF Rank

LEMMA RankPositive ==
    ASSUME NEW p, NEW n \in Nat, NEW i \in Spoken(p, n)
    PROVE  Rank(p, i) \in 1..Rank(p, n) /\ i \in Nat /\ i <= n
<1>1. i \in Nat /\ i <= n /\ i - 1 \in Nat /\ (i - 1) + 1 = i /\ Text(p)[i].k # "macro"
  BY DEF Spoken
<1>2. Rank(p, i) = Rank(p, i - 1) + 1
  BY <1>1, RankStep
<1>3. Rank(p, i - 1) \in Nat /\ Rank(p, i) <= Rank(p, n) /\ Rank(p, n) \in Nat
  BY <1>1, SpokenType, RankGrows
<1> QED BY <1>1, <1>2, <1>3
-----------------------------------------------------------------------------
Defines(p, j, w) == Text(p)[j].k = "macro" /\ Text(p)[j].of = w
Definers(p, w)   == {j \in 1..Len(Text(p)) : Defines(p, j, w)}
LastIn(p, w)       == CHOOSE j \in Definers(p, w) : \A l \in Definers(p, w) : l <= j
Own(p) == [w \in Words |-> IF Definers(p, w) = {} THEN NoWord ELSE Text(p)[LastIn(p, w)].is]

LEMMA LastIs ==
    ASSUME World, NEW p \in Paths, NEW w, Definers(p, w) # {}
    PROVE  LastIn(p, w) \in Definers(p, w) /\ \A l \in Definers(p, w) : l <= LastIn(p, w)
<1>1. Len(Text(p)) \in Nat
  BY TextType
<1>2. Definers(p, w) \subseteq 0..Len(Text(p))
  BY DEF Definers
<1>3. \E j \in Definers(p, w) : \A l \in Definers(p, w) : l <= j
  BY <1>1, <1>2, Greatest
<1> QED BY <1>3 DEF LastIn

(* What is written holds words only.                                       *)
LEMMA WrittenType ==
    ASSUME World, NEW p \in Paths, NEW i \in 1..Len(Text(p))
    PROVE  LET item == Text(p)[i]
           IN  /\ item \in Item /\ item.of \in Words /\ item.needs \in SUBSET Words
               /\ item.is \in Words /\ item.path \in Paths /\ item.k \in Kinds
<1>1. disk[p] \in File
  BY DisksAssumption DEF World
<1>2. Text(p) \in Seq(Written)
  BY <1>1 DEF Text, File
<1>3. Text(p)[i] \in Written
  BY <1>2
<1> QED BY <1>3 DEF Written, Item

LEMMA OwnType == ASSUME World, NEW p \in Paths PROVE Own(p) \in Tables
<1>1. ASSUME NEW w \in Words, Definers(p, w) # {} PROVE Text(p)[LastIn(p, w)].is \in Words
  <2>1. LastIn(p, w) \in 1..Len(Text(p))
    BY <1>1, LastIs DEF Definers
  <2> QED BY <2>1, WrittenType
<1> QED BY <1>1 DEF Own, Tables

(* What a file mentions.                                                   *)
LEMMA SaysMentioned ==
    ASSUME World, NEW p \in Paths, NEW i \in 1..Len(Text(p)), Text(p)[i].k # "macro"
    PROVE  {Text(p)[i].of} \cup Text(p)[i].needs \subseteq Mentions(p)
<1>1. Text(p)[i].of \in Words /\ Text(p)[i].needs \in SUBSET Words /\ Text(p)[i].k \in Kinds \ {"macro"}
  BY WrittenType
<1>2. Text(p)[i] \in ItemsOf(p, Text(p)[i].k)
  BY DEF ItemsOf
<1>3. {Text(p)[i].of} \cup Text(p)[i].needs \subseteq Says(p)
  BY <1>1, <1>2 DEF Says
<1> QED BY <1>1, <1>3 DEF Mentions

LEMMA MentionsClosed ==
    ASSUME World, NEW p \in Paths, NEW q \in Paths, NEW j, NEW w \in Mentions(p), j \in Definers(q, w)
    PROVE  Text(q)[j].is \in Mentions(p)
<1>1. j \in 1..Len(Text(q)) /\ Text(q)[j].k = "macro" /\ Text(q)[j].of = w
  BY DEF Definers, Defines
<1>2. Text(q)[j].is \in Words
  BY <1>1, WrittenType
<1>3. Text(q)[j] \in MacroItems
  BY <1>1 DEF MacroItems, ItemsOf
<1> QED BY <1>1, <1>2, <1>3 DEF Mentions

(* In a file nothing disturbs the definitions of the words it mentions are *)
(* its own, and come before all else.                                      *)
LEMMA Undisturbed ==
    ASSUME NEW p \in Paths, ~Disturbed(p), NEW w \in Mentions(p),
           NEW q \in Paths, NEW j \in Definers(q, w)
    PROVE  q = p /\ \A i \in 1..Len(Text(p)) : Text(p)[i].k # "macro" => j < i
<1>1. j \in 1..Len(Text(q)) /\ Text(q)[j].k = "macro" /\ Text(q)[j].of = w
  BY DEF Definers, Defines
<1>2. q = p /\ ~\E i \in 1..(j - 1) : Text(p)[i].k # "macro"
  BY <1>1 DEF Disturbed
<1> QED BY <1>1, <1>2

(* Tables in which the words that p mentions mean what p says read it      *)
(* alike.                                                                  *)
LEMMA TokenAgrees ==
    ASSUME World, NEW p \in Paths, NEW i \in 1..Len(Text(p)), Text(p)[i].k # "macro",
           NEW table \in Tables, \A w \in Mentions(p) : table[w] = Own(p)[w]
    PROVE  Token(Text(p)[i], table) = Token(Text(p)[i], Own(p))
<1> DEFINE item == Text(p)[i]
<1>1. Mentions(p) \in SUBSET Words /\ Own(p) \in Tables
  BY OwnType DEF Mentions
<1>2. ASSUME NEW w \in Mentions(p) PROVE Own(p)[w] = NoWord \/ Own(p)[w] \in Mentions(p)
  <2>1. w \in Words
    BY <1>1
  <2>2. CASE Definers(p, w) # {}
    <3>1. LastIn(p, w) \in Definers(p, w)
      BY <2>2, LastIs
    <3>2. Text(p)[LastIn(p, w)].is \in Mentions(p)
      BY <3>1, MentionsClosed
    <3> QED BY <2>1, <2>2, <3>2 DEF Own
  <2> QED BY <2>1, <2>2 DEF Own
<1>3. ASSUME NEW w \in Mentions(p) PROVE Expand(table, w) = Expand(Own(p), w)
  <2>1. \A v \in Mentions(p) : /\ Own(p)[v] = table[v]
                               /\ Own(p)[v] = NoWord \/ Own(p)[v] \in Mentions(p)
    BY <1>2
  <2> QED BY <1>1, <2>1, ExpandAgree
<1>4. item.of \in Mentions(p) /\ item.needs \subseteq Mentions(p)
  BY SaysMentioned
<1>5. {Expand(table, w) : w \in item.needs} = {Expand(Own(p), w) : w \in item.needs}
  BY <1>3, <1>4
<1> QED BY <1>3, <1>4, <1>5 DEF Token
-----------------------------------------------------------------------------
(* toks is what reading the first n items of p makes of them, as a file    *)
(* that is not disturbed always reads.                                     *)
Canon(p, i) == Token(Text(p)[i], Own(p))
Reads(p, n, toks) ==
    /\ Len(toks) = Rank(p, n)
    /\ \A i \in Spoken(p, n) : /\ toks[Rank(p, i)].k = Text(p)[i].k
                               /\ toks[Rank(p, i)].path = Text(p)[i].path
                               /\ ~Disturbed(p) => toks[Rank(p, i)] = Canon(p, i)
    /\ \A k \in 1..Len(toks) : \E i \in Spoken(p, n) : Rank(p, i) = k

LEMMA ReadsStart == ASSUME NEW p PROVE Reads(p, 0, <<>>)
  BY RankStart DEF Reads

LEMMA ReadsMacro ==
    ASSUME NEW p, NEW n \in Nat, Text(p)[n + 1].k = "macro", NEW toks, Reads(p, n, toks)
    PROVE  Reads(p, n + 1, toks)
  BY RankStep DEF Reads

LEMMA ReadsToken ==
    ASSUME NEW p, NEW n \in Nat, Text(p)[n + 1].k # "macro",
           NEW toks \in Seq(Item), Reads(p, n, toks), NEW t \in Item,
           t.k = Text(p)[n + 1].k, t.path = Text(p)[n + 1].path,
           ~Disturbed(p) => t = Canon(p, n + 1)
    PROVE  Reads(p, n + 1, Append(toks, t))
<1> DEFINE new == Append(toks, t)
<1>1. /\ Spoken(p, n + 1) = Spoken(p, n) \cup {n + 1} /\ Rank(p, n + 1) = Rank(p, n) + 1
      /\ Rank(p, n) \in Nat /\ Len(toks) = Rank(p, n)
  BY RankStep, SpokenType DEF Reads
<1>2. Len(new) = Len(toks) + 1 /\ new[Len(toks) + 1] = t /\ \A k \in 1..Len(toks) : new[k] = toks[k]
  BY Push
<1> HIDE DEF new
<1>3. ASSUME NEW i \in Spoken(p, n + 1)
      PROVE  /\ new[Rank(p, i)].k = Text(p)[i].k /\ new[Rank(p, i)].path = Text(p)[i].path
             /\ ~Disturbed(p) => new[Rank(p, i)] = Canon(p, i)
  <2>1. CASE i = n + 1
    BY <1>1, <1>2, <2>1
  <2>2. CASE i \in Spoken(p, n)
    <3>1. Rank(p, i) \in 1..Len(toks)
      BY <1>1, <2>2, RankPositive
    <3> QED BY <1>2, <2>2, <3>1 DEF Reads
  <2> QED BY <1>1, <2>1, <2>2
<1>4. ASSUME NEW k \in 1..Len(new) PROVE \E i \in Spoken(p, n + 1) : Rank(p, i) = k
  <2>1. CASE k = Len(toks) + 1
    BY <1>1, <2>1
  <2>2. CASE k # Len(toks) + 1
    <3>1. k \in 1..Len(toks)
      BY <1>1, <1>2, <2>2
    <3> QED BY <1>1, <3>1 DEF Reads
  <2> QED BY <2>1, <2>2
<1> QED BY <1>1, <1>2, <1>3, <1>4 DEF Reads, new

LEMMA ReadsEqual ==
    ASSUME NEW p, ~Disturbed(p), NEW n \in Nat,
           NEW s \in Seq(Item), Reads(p, n, s), NEW t \in Seq(Item), Reads(p, n, t)
    PROVE  s = t
<1>1. Len(s) = Len(t)
  BY DEF Reads
<1>2. ASSUME NEW k \in 1..Len(s) PROVE s[k] = t[k]
  <2>1. PICK i \in Spoken(p, n) : Rank(p, i) = k
    BY DEF Reads
  <2> QED BY <2>1 DEF Reads
<1> QED BY <1>1, <1>2
-----------------------------------------------------------------------------
LEMMA SameText ==
    ASSUME disk' = disk
    PROVE  /\ \A p : Text(p)' = Text(p)
           /\ \A p, n : Spoken(p, n)' = Spoken(p, n) /\ Rank(p, n)' = Rank(p, n)
           /\ \A p, w : Definers(p, w)' = Definers(p, w)
           /\ \A p, k : ItemsOf(p, k)' = ItemsOf(p, k)
<1>1. \A p : Text(p)' = Text(p)
  BY DEF Text
<1>2. \A p, n : Spoken(p, n)' = Spoken(p, n)
  BY <1>1 DEF Spoken
<1>3. \A p, w : Definers(p, w)' = Definers(p, w)
  BY <1>1 DEF Definers, Defines
<1>4. \A p, k : ItemsOf(p, k)' = ItemsOf(p, k)
  BY <1>1 DEF ItemsOf
<1> QED BY <1>1, <1>2, <1>3, <1>4 DEF Rank

LEMMA SameDisk ==
    ASSUME disk' = disk
    PROVE  /\ \A p : Disturbed(p)' = Disturbed(p) /\ TypesOf(p)' = TypesOf(p)
           /\ \A p, n, toks : Reads(p, n, toks)' = Reads(p, n, toks)
           /\ NoMacros' = NoMacros
<1>1. \A p : Text(p)' = Text(p)
  BY SameText
<1>2. \A p, k : ItemsOf(p, k)' = ItemsOf(p, k)
  BY SameText
<1>3. \A p : Mentions(p)' = Mentions(p)
  <2>1. MacroItems' = MacroItems
    BY <1>2 DEF MacroItems
  <2>2. \A p : Says(p)' = Says(p)
    BY <1>2 DEF Says
  <2> QED BY <2>1, <2>2 DEF Mentions
<1>4. \A p : Disturbed(p)' = Disturbed(p)
  BY <1>1, <1>3 DEF Disturbed
<1>5. \A p : TypesOf(p)' = TypesOf(p)
  <2>1. \A p, q : Uses(p, q)' = Uses(p, q)
    BY <1>2 DEF Uses
  <2>2. \A p, V : Follows(p, V)' = Follows(p, V)
    BY <2>1 DEF Follows
  <2>3. \A p : Reach(p)' = Reach(p)
    BY <2>2 DEF Reach
  <2> QED BY <1>2, <2>3 DEF TypesOf
<1>6. \A p, i : Canon(p, i)' = Canon(p, i)
  <2>1. \A p, w : Definers(p, w)' = Definers(p, w)
    BY SameText
  <2>2. \A p, w : LastIn(p, w)' = LastIn(p, w)
    BY <2>1 DEF LastIn
  <2>3. \A p : Own(p)' = Own(p)
    BY <1>1, <2>1, <2>2 DEF Own
  <2> QED BY <1>1, <2>3 DEF Canon
<1>7. \A p, n, toks : Reads(p, n, toks)' = Reads(p, n, toks)
  BY <1>1, <1>4, <1>6, SameText DEF Reads
<1>8. NoMacros' = NoMacros
  BY <1>1 DEF NoMacros
<1> QED BY <1>4, <1>5, <1>7, <1>8
-----------------------------------------------------------------------------
(* The invariant.                                                          *)

(* Each file being read, and each that phase "collect" has read, is what   *)
(* its items are; one is parsed, and others are read from it, when all of  *)
(* it has been lexed.                                                      *)
SoFar(f, waits) == /\ Reads(f.path, f.lex, f.toks)
                   /\ waits \/ f.pos > 0 => f.lex = Len(Text(f.path))
ReadingsOf(s) == \A f \in 1..Len(s) : SoFar(s[f], f < Len(s))
Readings      == ReadingsOf(stack)
Recorded == /\ lexed \subseteq Paths \X Seq(Item)
            /\ \A e \in lexed : Reads(e[1], Len(Text(e[1])), e[2])

(* A replacement comes from some definition, and that of a word which the  *)
(* file being lexed has defined from the last one in it so far.            *)
Entered == \A w \in Words : macros[w] # NoWord => \E q \in Paths : Definers(q, w) # {}
Latest  == Lexing => \A w \in Words : \A j \in Definers(Top.path, w) :
              /\ j <= Top.lex
              /\ \A l \in Definers(Top.path, w) : l <= Top.lex => l <= j
              => macros[w] = Text(Top.path)[j].is

(* The files that phase "collect" has lexed, or need not lex, and those it *)
(* has begun.                                                              *)
Seen           == {p \in Paths : Text(p) = <<>> \/ \E e \in lexed : e[1] = p}
Begun(s, seen) == seen \cup {s[f].path : f \in 2..Len(s)}

(* Of an item, or of the items parsed so far, the file is among these or   *)
(* the type among those.                                                   *)
Treated(item, files, types) ==
    /\ item.k = "@use" => Resolve(Input, item.path) \in files
    /\ item.k = "type" /\ NoMacros => item.of \in types
Upto(p, pos, files, types) ==
    \A i \in Spoken(p, Len(Text(p))) : Rank(p, i) <= pos => Treated(Text(p)[i], files, types)
Wholly(p, files, types) == \A i \in 1..Len(Text(p)) : Treated(Text(p)[i], files, types)

(* What has been parsed is among these, the files read and what they use. *)
CollectingIn(s, seen, files, types) ==
    /\ \A f \in 1..Len(s) : Upto(s[f].path, s[f].pos, files, types)
    /\ \A f \in 2..Len(s) : s[f].lex = Len(Text(s[f].path)) => s[f].path \in seen
    /\ \A p \in seen : Wholly(p, files, types) \/ \E f \in 2..Len(s) : s[f].path = p
ParsingIn(s, seen, types) ==
    /\ \A p \in seen : Wholly(p, seen, types)
    /\ Wholly(s[1].path, seen, types)
    /\ \A f \in 2..Len(s) : s[f].path \in seen
Collecting == phase = "collect" => CollectingIn(stack, Seen, Begun(stack, Seen), reg)
Parsing    == phase = "parse" => ParsingIn(stack, Seen, reg)

Twice == Readings /\ Recorded /\ Entered /\ Latest /\ Collecting /\ Parsing
TInv  == IInv /\ Twice /\ TypesPreregistered /\ DriftExplained
-----------------------------------------------------------------------------
LEMMA TreatedMore ==
    ASSUME NEW item, NEW f, NEW t, Treated(item, f, t), NEW g, f \subseteq g, NEW u, t \subseteq u
    PROVE  Treated(item, g, u)
  BY DEF Treated

LEMMA UptoMore ==
    ASSUME NEW p, NEW n, NEW f, NEW t, Upto(p, n, f, t), NEW g, f \subseteq g, NEW u, t \subseteq u
    PROVE  Upto(p, n, g, u)
  BY TreatedMore DEF Upto

LEMMA WhollyMore ==
    ASSUME NEW p, NEW f, NEW t, Wholly(p, f, t), NEW g, f \subseteq g, NEW u, t \subseteq u
    PROVE  Wholly(p, g, u)
  BY TreatedMore DEF Wholly

LEMMA SameTreated ==
    ASSUME disk' = disk, Input' = Input
    PROVE  /\ \A p, n, f, t : Upto(p, n, f, t)' = Upto(p, n, f, t)
           /\ \A p, f, t : Wholly(p, f, t)' = Wholly(p, f, t)
<1>1. \A item, f, t : Treated(item, f, t)' = Treated(item, f, t)
  BY SameDisk DEF Treated
<1> QED BY <1>1, SameText DEF Upto, Wholly

(* Without macros tokens are as they are written.                          *)
LEMMA CanonPlain ==
    ASSUME World, NoMacros, NEW p \in Paths, NEW i \in 1..Len(Text(p))
    PROVE  ~Disturbed(p) /\ Canon(p, i).of = Text(p)[i].of
<1>1. ~Disturbed(p)
  BY DEF Disturbed, NoMacros
<1>2. \A w \in Words : Definers(p, w) = {}
  BY DEF Definers, Defines, NoMacros
<1>3. Text(p)[i] \in Item /\ Text(p)[i].of \in Words /\ Own(p) \in Tables
  BY WrittenType, OwnType
<1>4. Own(p)[Text(p)[i].of] = NoWord
  BY <1>2, <1>3 DEF Own
<1>5. Expand(Own(p), Text(p)[i].of) = Text(p)[i].of
  BY <1>3, <1>4, ExpandFixed
<1> QED BY <1>1, <1>3, <1>5 DEF Canon, Token, Item

(* The token at hand is one of the file's items, and which does not matter.*)
LEMMA TokRead ==
    ASSUME World, TypeOK, Readings, NEW ks, At(ks)
    PROVE  LET p == Top.path
           IN  /\ p \in Paths /\ Len(Text(p)) \in Nat /\ Top.pos \in Nat
               /\ \E i \in Spoken(p, Len(Text(p))) : Rank(p, i) = Top.pos + 1
               /\ \A i \in Spoken(p, Len(Text(p))) : Rank(p, i) = Top.pos + 1 =>
                     /\ Tok.k = Text(p)[i].k /\ Tok.path = Text(p)[i].path
                     /\ NoMacros => Tok.of = Text(p)[i].of
<1> DEFINE p == Top.path
<1>1. /\ Reading /\ Len(stack) > 0
      /\ Len(stack) \in 1..Len(stack) /\ Top = stack[Len(stack)] /\ Top.path \in Paths
      /\ Top.toks \in Seq(Item) /\ Top.pos \in Nat /\ Top.lex \in Nat /\ Top.lex <= Len(Text(p))
  BY TokType, TopType
<1>2. Len(Text(p)) \in Nat /\ Top.pos < Len(Top.toks) /\ ~(Top.lex < Len(Text(p)))
  BY <1>1, TextType DEF At, Lexing
<1>3. Reads(p, Len(Text(p)), Top.toks)
  <2>1. Top.lex = Len(Text(p))
    BY <1>1, <1>2
  <2> QED BY <1>1, <2>1 DEF Readings, ReadingsOf, SoFar
<1>4. Top.pos + 1 \in 1..Len(Top.toks) /\ Tok = Top.toks[Top.pos + 1]
  BY <1>1, <1>2 DEF Tok
<1>5. ASSUME NEW i \in Spoken(p, Len(Text(p))), NoMacros
      PROVE  ~Disturbed(p) /\ Canon(p, i).of = Text(p)[i].of
  <2>1. i \in 1..Len(Text(p))
    BY DEF Spoken
  <2> QED BY <1>1, <1>5, <2>1, CanonPlain
<1> QED BY <1>1, <1>2, <1>3, <1>4, <1>5 DEF Reads

LEMMA TokUpto ==
    ASSUME World, TypeOK, Readings, NEW ks, At(ks),
           NEW f, NEW t, Upto(Top.path, Top.pos, f, t), NEW g, f \subseteq g, NEW u, t \subseteq u,
           Tok.k = "@use" => Resolve(Input, Tok.path) \in g,
           Tok.k = "type" => Tok.of \in u
    PROVE  Upto(Top.path, Top.pos + 1, g, u)
<1> DEFINE p == Top.path
<1>1. ASSUME NEW i \in Spoken(p, Len(Text(p))), Rank(p, i) <= Top.pos + 1
      PROVE  Treated(Text(p)[i], g, u)
  <2>0. Top.pos \in Nat /\ Rank(p, i) \in Nat
    <3>1. Len(Text(p)) \in Nat /\ Top.pos \in Nat
      BY TokRead
    <3>2. i \in Nat
      BY <3>1 DEF Spoken
    <3> QED BY <3>1, <3>2, SpokenType
  <2>1. CASE Rank(p, i) <= Top.pos
    BY <2>1, TreatedMore DEF Upto
  <2>2. CASE Rank(p, i) = Top.pos + 1
    BY <2>2, TokRead DEF Treated
  <2> QED BY <1>1, <2>0, <2>1, <2>2
<1> QED BY <1>1 DEF Upto

LEMMA EndUpto ==
    ASSUME World, TypeOK, Readings, AtEnd, NEW f, NEW t, Upto(Top.path, Top.pos, f, t)
    PROVE  Wholly(Top.path, f, t) /\ Top.lex = Len(Text(Top.path))
<1> DEFINE p == Top.path
<1>1. /\ Reading /\ Len(stack) > 0
      /\ Len(stack) \in 1..Len(stack) /\ Top = stack[Len(stack)] /\ Top.path \in Paths
      /\ Top.lex \in Nat /\ Top.lex <= Len(Text(p)) /\ Top.pos = Len(Top.toks)
  BY InputType, TopType DEF AtEnd
<1>2. Len(Text(p)) \in Nat /\ ~(Top.lex < Len(Text(p)))
  BY <1>1, TextType DEF AtEnd, Lexing
<1>3. Top.lex = Len(Text(p))
  BY <1>1, <1>2
<1>4. Top.pos = Rank(p, Len(Text(p)))
  BY <1>1, <1>3 DEF Readings, ReadingsOf, SoFar, Reads
<1>5. ASSUME NEW i \in 1..Len(Text(p)) PROVE Treated(Text(p)[i], f, t)
  <2>1. CASE Text(p)[i].k = "macro"
    BY <2>1 DEF Treated
  <2>2. CASE Text(p)[i].k # "macro"
    <3>1. i \in Spoken(p, Len(Text(p)))
      BY <2>2 DEF Spoken
    <3>2. Rank(p, i) \in 1..Rank(p, Len(Text(p)))
      BY <1>2, <3>1, RankPositive
    <3> QED BY <1>4, <3>1, <3>2 DEF Upto
  <2> QED BY <2>1, <2>2
<1> QED BY <1>3, <1>5 DEF Wholly
-----------------------------------------------------------------------------
(* A step that leaves disk and input alone.                                *)
Same == disk' = disk /\ Input' = Input

LEMMA SameIn ==
    ASSUME Same
    PROVE  /\ ReadingsOf(stack') => Readings'
           /\ phase' = "collect" /\ CollectingIn(stack', Seen', Begun(stack', Seen'), reg') => Collecting'
           /\ phase' = "parse" /\ ParsingIn(stack', Seen', reg') => Parsing'
<1>1. ReadingsOf(stack') => Readings'
  BY SameText, SameDisk DEF Same, Readings, ReadingsOf, SoFar
<1>2. CollectingIn(stack', Seen', Begun(stack', Seen'), reg') => Collecting'
  <2> SUFFICES ASSUME CollectingIn(stack', Seen', Begun(stack', Seen'), reg') PROVE Collecting'
    OBVIOUS
  <2>1. Begun(stack, Seen)' = Begun(stack', Seen')
    BY DEF Begun
  <2> DEFINE files == Begun(stack', Seen')
  <2>2. (\A p : Text(p)' = Text(p)) /\ (\A p, n, f, t : Upto(p, n, f, t)' = Upto(p, n, f, t))
        /\ \A p, f, t : Wholly(p, f, t)' = Wholly(p, f, t)
    BY SameText, SameTreated DEF Same
  <2>3. CollectingIn(stack, Seen, Begun(stack, Seen), reg)'
    BY <2>1, <2>2 DEF CollectingIn
  <2> QED BY <2>3 DEF Collecting
<1>3. ParsingIn(stack', Seen', reg') => Parsing'
  BY SameTreated DEF Same, Parsing, ParsingIn
<1> QED BY <1>1, <1>2, <1>3

(* A file's tokens do not change while it is parsed.                       *)
Kept(f, g) == f.path = g.path /\ f.lex = g.lex /\ f.toks = g.toks

LEMMA SeenKept ==
    ASSUME disk' = disk, lexed' = lexed
    PROVE  Seen' = Seen /\ (Recorded => Recorded')
<1>1. Seen' = Seen
  BY SameText DEF Seen
<1>2. Recorded => Recorded'
  BY SameText, SameDisk DEF Recorded
<1> QED BY <1>1, <1>2

LEMMA EnteredKept ==
    ASSUME disk' = disk, macros' = macros, Entered PROVE Entered'
  BY SameText DEF Entered

(* The types the parse does not know are not those of the input.           *)
LEMMA Registered ==
    ASSUME World, TypeOK, TypesFlowDown, Parsing, NoMacros, phase = "parse"
    PROVE  TypesOf(Input) \subseteq Top.types
<1>1. Len(stack) > 0 /\ Input \in Paths /\ stack[1].path = Input /\ Len(stack) \in 1..Len(stack)
  BY InputType, TopType DEF Reading, TypeOK
<1> DEFINE V == Seen \cup {Input}
<1>2. \A p \in V : Wholly(p, Seen, reg)
  BY <1>1 DEF Parsing, ParsingIn
<1>3. V \in SUBSET Paths
  BY <1>1 DEF Seen
<1>4. Follows(Input, V)
  BY <1>2 DEF Follows, Uses, ItemsOf, Wholly, Treated
<1>5. Reach(Input) \subseteq V
  BY <1>3, <1>4 DEF Reach
<1>6. TypesOf(Input) \subseteq reg
  BY <1>2, <1>5 DEF TypesOf, ItemsOf, Wholly, Treated
<1>7. reg \subseteq stack[1].types /\ stack[1].types \subseteq Top.types
  <2>1. 1 \in 1..Len(stack) /\ Len(stack) \in Nat
    BY <1>1
  <2> QED BY <1>1, <2>1 DEF TypesFlowDown, Top
<1> QED BY <1>6, <1>7

LEMMA UnknownKept ==
    ASSUME disk' = disk, unknown' = unknown, TypesPreregistered PROVE TypesPreregistered'
  BY SameDisk DEF TypesPreregistered

LEMMA DriftKept ==
    ASSUME disk' = disk, drift' = drift, DriftExplained PROVE DriftExplained'
  BY SameDisk DEF DriftExplained
-----------------------------------------------------------------------------
(* The token at hand is parsed: the top of the stack moves on.             *)
LEMMA TopMoved ==
    ASSUME World, TypeOK, TypesFlowDown, NEW ks, At(ks), NEW f, Later(f)
    PROVE  /\ Len(SetTop(f)) = Len(stack) /\ Len(stack) \in 1..Len(stack) /\ Len(stack) \in Nat
           /\ Top = stack[Len(stack)]
           /\ \A i \in 1..Len(stack) : SetTop(f)[i] = IF i = Len(stack) THEN f ELSE stack[i]
<1>1. Reading /\ Len(stack) > 0
  BY TokType
<1> QED BY <1>1, SetTopOK, TopType

LEMMA MoveReadings ==
    ASSUME World, TypeOK, TypesFlowDown, Readings, NEW ks, At(ks),
           NEW f, Later(f), Kept(Top, f)
    PROVE  ReadingsOf(SetTop(f)) /\ f.lex = Len(Text(f.path))
<1>1. /\ Len(SetTop(f)) = Len(stack) /\ Len(stack) \in 1..Len(stack) /\ Len(stack) \in Nat
      /\ Top = stack[Len(stack)]
      /\ \A i \in 1..Len(stack) : SetTop(f)[i] = IF i = Len(stack) THEN f ELSE stack[i]
  BY TopMoved
<1>2. Top.lex = Len(Text(Top.path))
  <2>1. Len(stack) > 0 /\ Reading
    BY TokType
  <2>2. Top.path \in Paths /\ Top.lex \in Nat /\ Top.lex <= Len(Text(Top.path))
    BY <2>1, TopType
  <2>3. Len(Text(Top.path)) \in Nat /\ ~(Top.lex < Len(Text(Top.path)))
    BY <2>1, <2>2, TextType DEF At, Lexing
  <2> QED BY <2>2, <2>3
<1> QED BY <1>1, <1>2 DEF Readings, ReadingsOf, SoFar, Kept

LEMMA MoveBegun ==
    ASSUME World, TypeOK, TypesFlowDown, NEW ks, At(ks),
           NEW f, Later(f), Kept(Top, f), NEW seen
    PROVE  Begun(SetTop(f), seen) = Begun(stack, seen)
<1>1. /\ Len(SetTop(f)) = Len(stack) /\ Len(stack) \in Nat /\ Top = stack[Len(stack)]
      /\ \A i \in 1..Len(stack) : SetTop(f)[i] = IF i = Len(stack) THEN f ELSE stack[i]
  BY TopMoved
<1>2. \A i \in 2..Len(stack) : SetTop(f)[i].path = stack[i].path
  BY <1>1 DEF Kept
<1> QED BY <1>1, <1>2 DEF Begun

LEMMA MoveCollecting ==
    ASSUME World, TypeOK, TypesFlowDown, Readings, NEW ks, At(ks),
           NEW f, Later(f), Kept(Top, f), f.pos = Top.pos + 1,
           NEW seen, NEW types, CollectingIn(stack, seen, Begun(stack, seen), types),
           NEW files, Begun(stack, seen) \subseteq files, NEW more, types \subseteq more,
           Tok.k = "@use" => Resolve(Input, Tok.path) \in files,
           Tok.k = "type" => Tok.of \in more
    PROVE  CollectingIn(SetTop(f), seen, files, more)
<1> DEFINE s == SetTop(f)
<1>1. /\ Len(s) = Len(stack) /\ Len(stack) \in 1..Len(stack) /\ Len(stack) \in Nat
      /\ Top = stack[Len(stack)]
      /\ \A i \in 1..Len(stack) : s[i] = IF i = Len(stack) THEN f ELSE stack[i]
  BY TopMoved
<1> HIDE DEF s
<1>2. \A i \in 1..Len(stack) : s[i].path = stack[i].path /\ s[i].lex = stack[i].lex
  BY <1>1 DEF Kept
<1>3. ASSUME NEW i \in 1..Len(stack) PROVE Upto(s[i].path, s[i].pos, files, more)
  <2>1. Upto(stack[i].path, stack[i].pos, Begun(stack, seen), types)
    BY DEF CollectingIn
  <2>2. CASE i = Len(stack)
    <3>1. Upto(Top.path, Top.pos, Begun(stack, seen), types)
      BY <1>1, <2>1, <2>2
    <3>2. Upto(Top.path, Top.pos + 1, files, more)
      BY <3>1, TokUpto
    <3>3. s[i] = f
      BY <1>1, <2>2
    <3> QED BY <3>2, <3>3 DEF Kept
  <2>3. CASE i # Len(stack)
    <3>1. s[i] = stack[i]
      BY <1>1, <2>3
    <3>2. Upto(stack[i].path, stack[i].pos, files, more)
      BY <2>1, UptoMore
    <3> QED BY <3>1, <3>2
  <2> QED BY <2>2, <2>3
<1>4. \A i \in 2..Len(stack) : s[i].lex = Len(Text(s[i].path)) => s[i].path \in seen
  BY <1>1, <1>2 DEF CollectingIn
<1>5. ASSUME NEW p \in seen
      PROVE  Wholly(p, files, more) \/ \E i \in 2..Len(stack) : s[i].path = p
  <2>1. CASE Wholly(p, Begun(stack, seen), types)
    BY <2>1, WhollyMore
  <2>2. CASE \E i \in 2..Len(stack) : stack[i].path = p
    BY <1>1, <1>2, <2>2
  <2> QED BY <2>1, <2>2 DEF CollectingIn
<1>6. CollectingIn(s, seen, files, more)
  BY <1>1, <1>3, <1>4, <1>5 DEF CollectingIn
<1> QED BY <1>6 DEF s

LEMMA MoveParsing ==
    ASSUME World, TypeOK, TypesFlowDown, NEW ks, At(ks), NEW f, Later(f), Kept(Top, f),
           NEW seen, NEW types, ParsingIn(stack, seen, types)
    PROVE  ParsingIn(SetTop(f), seen, types)
<1>1. /\ Len(SetTop(f)) = Len(stack) /\ Len(stack) \in 1..Len(stack) /\ Len(stack) \in Nat
      /\ Top = stack[Len(stack)]
      /\ \A i \in 1..Len(stack) : SetTop(f)[i] = IF i = Len(stack) THEN f ELSE stack[i]
  BY TopMoved
<1>2. 1 \in 1..Len(stack) /\ \A i \in 1..Len(stack) : SetTop(f)[i].path = stack[i].path
  BY <1>1 DEF Kept
<1> QED BY <1>1, <1>2 DEF ParsingIn

(* In phase "parse" the file of an `@use` is one that phase "collect" has  *)
(* read.                                                                   *)
LEMMA UseSeen ==
    ASSUME World, TypeOK, Readings, At({"@use"}), NEW seen, NEW types, ParsingIn(stack, seen, types)
    PROVE  Resolve(Input, Tok.path) \in seen
<1>1. Len(stack) \in 1..Len(stack) /\ Top = stack[Len(stack)] /\ Tok.k \in {"@use"}
  BY TokType, TopType
<1>2. Wholly(Top.path, seen, types)
  BY <1>1 DEF ParsingIn
<1>3. PICK i \in Spoken(Top.path, Len(Text(Top.path))) : Rank(Top.path, i) = Top.pos + 1
  BY TokRead
<1>4. Text(Top.path)[i].k = "@use" /\ Text(Top.path)[i].path = Tok.path
  BY <1>1, <1>3, TokRead
<1> QED BY <1>2, <1>4 DEF Wholly, Treated, Spoken

(* A used file goes on top.                                                *)
LEMMA PushReadings ==
    ASSUME NEW s, s \in Seq(Frame), ReadingsOf(s), NEW new \in Frame,
           \A f \in 1..Len(s) : s[f].lex = Len(Text(s[f].path)),
           new.lex = 0, new.pos = 0, new.toks = <<>>
    PROVE  ReadingsOf(Append(s, new))
<1>1. /\ Len(Append(s, new)) = Len(s) + 1 /\ Append(s, new)[Len(s) + 1] = new
      /\ \A i \in 1..Len(s) : Append(s, new)[i] = s[i]
  BY Push
<1>2. SoFar(new, FALSE)
  BY ReadsStart DEF SoFar
<1>3. Len(s) \in Nat
  OBVIOUS
<1> QED BY <1>1, <1>2, <1>3 DEF ReadingsOf, SoFar

LEMMA UptoNone ==
    ASSUME World, NEW p \in Paths, NEW f, NEW t PROVE Upto(p, 0, f, t)
<1>1. ASSUME NEW i \in Spoken(p, Len(Text(p))) PROVE ~(Rank(p, i) <= 0)
  <2>1. Len(Text(p)) \in Nat
    BY TextType
  <2>2. Rank(p, i) \in 1..Rank(p, Len(Text(p)))
    BY <2>1, RankPositive
  <2> QED BY <2>2
<1> QED BY <1>1 DEF Upto

LEMMA PushCollecting ==
    ASSUME World, NEW s, s \in Seq(Frame), s # <<>>, NEW new \in Frame, new.pos = 0, new.lex = 0,
           NEW types,
           CollectingIn(s, Seen, Begun(Append(s, new), Seen), types)
    PROVE  CollectingIn(Append(s, new), Seen, Begun(Append(s, new), Seen), types)
<1> DEFINE r     == Append(s, new)
           files == Begun(Append(s, new), Seen)
<1>1. /\ Len(r) = Len(s) + 1 /\ r[Len(s) + 1] = new /\ Len(s) \in Nat /\ Len(s) > 0
      /\ \A i \in 1..Len(s) : r[i] = s[i]
  BY Push
<1> HIDE DEF r, files
<1>2. new.path \in Paths
  BY DEF Frame
<1>3. ASSUME NEW i \in 1..Len(r) PROVE Upto(r[i].path, r[i].pos, files, types)
  <2>1. CASE i = Len(s) + 1
    BY <1>1, <1>2, <2>1, UptoNone
  <2>2. CASE i # Len(s) + 1
    BY <1>1, <2>2 DEF CollectingIn, files
  <2> QED BY <2>1, <2>2
<1>4. ASSUME NEW i \in 2..Len(r), r[i].lex = Len(Text(r[i].path)) PROVE r[i].path \in Seen
  <2>1. CASE i = Len(s) + 1
    <3>1. Len(Text(new.path)) = 0 /\ Text(new.path) \in Seq(Item)
      BY <1>1, <1>2, <1>4, <2>1, TextType
    <3> QED BY <1>1, <1>2, <2>1, <3>1 DEF Seen
  <2>2. CASE i # Len(s) + 1
    BY <1>1, <1>4, <2>2 DEF CollectingIn
  <2> QED BY <2>1, <2>2
<1>5. ASSUME NEW p \in Seen PROVE Wholly(p, files, types) \/ \E i \in 2..Len(r) : r[i].path = p
  <2>1. CASE Wholly(p, files, types)
    BY <2>1
  <2>2. CASE \E i \in 2..Len(s) : s[i].path = p
    BY <1>1, <2>2
  <2> QED BY <2>1, <2>2 DEF CollectingIn, files
<1>6. CollectingIn(r, Seen, files, types)
  BY <1>3, <1>4, <1>5 DEF CollectingIn
<1> QED BY <1>6 DEF r, files
-----------------------------------------------------------------------------
(* A step that parses the token at hand and stays in the file.             *)
LEMMA MoveStep ==
    ASSUME TInv, NEW ks, At(ks), UNCHANGED <<disk, inputs, done, macros, lexed, drift, phase>>,
           NEW f, Later(f), Kept(Top, f), f.pos = Top.pos + 1, stack' = SetTop(f),
           reg \subseteq reg', Tok.k # "@use", Tok.k = "type" => phase = "parse" \/ Tok.of \in reg',
           phase = "parse" => reg' = reg, TypesPreregistered'
    PROVE  Twice' /\ TypesPreregistered' /\ DriftExplained'
<1>0. World /\ TypeOK /\ TypesFlowDown /\ Readings
  BY DEF TInv, Twice, IInv
<1>1. Same
  BY DEF Same, Input
<1>2. Seen' = Seen /\ Recorded' /\ Entered' /\ DriftExplained'
  BY SeenKept, EnteredKept, DriftKept DEF TInv, Twice
<1>3. Readings' /\ f.lex = Len(Text(f.path))
  BY <1>0, <1>1, MoveReadings, SameIn
<1>4. Latest'
  <2>1. Top' = f
    BY <1>0, TopMoved DEF Top
  <2>2. f.lex \in Nat /\ Text(f.path)' = Text(f.path)
    BY SameText DEF Later, Frame
  <2>3. ~Lexing'
    BY <1>3, <2>1, <2>2, SameText DEF Lexing
  <2> QED BY <2>3 DEF Latest
<1>5. Begun(stack', Seen') = Begun(stack, Seen)
  BY <1>0, <1>2, MoveBegun
<1>6. Collecting'
  <2> SUFFICES ASSUME phase = "collect" PROVE Collecting'
    BY DEF Collecting
  <2>1. CollectingIn(stack, Seen, Begun(stack, Seen), reg)
    BY DEF TInv, Twice, Collecting
  <2>2. CollectingIn(SetTop(f), Seen, Begun(stack, Seen), reg')
    BY <1>0, <2>1, MoveCollecting
  <2> QED BY <1>1, <1>2, <1>5, <2>2, SameIn
<1>7. Parsing'
  <2> SUFFICES ASSUME phase = "parse" PROVE Parsing'
    BY DEF Parsing
  <2>1. ParsingIn(stack, Seen, reg)
    BY DEF TInv, Twice, Parsing
  <2>2. ParsingIn(SetTop(f), Seen, reg)
    BY <1>0, <2>1, MoveParsing
  <2> QED BY <1>1, <1>2, <2>2, SameIn
<1> QED BY <1>2, <1>3, <1>4, <1>6, <1>7 DEF Twice

LEMMA CollectSkipTwice ==
    ASSUME TInv, CollectSkip PROVE Twice' /\ TypesPreregistered' /\ DriftExplained'
<1>0. World /\ TypeOK /\ At({"use", "fn", "oldfn"}) /\ phase = "collect"
  BY DEF TInv, IInv, CollectSkip
<1>1. Later(Past) /\ Kept(Top, Past) /\ Past.pos = Top.pos + 1
  BY <1>0, PastLater, PastParts DEF Kept
<1>2. Tok.k \in {"use", "fn", "oldfn"}
  BY <1>0, TokType
<1>3. /\ UNCHANGED <<disk, inputs, done, macros, lexed, drift, phase, reg, unknown>>
      /\ stack' = SetTop(Past)
  BY DEF CollectSkip
<1>4. TypesPreregistered'
  BY <1>3, UnknownKept DEF TInv
<1> QED BY <1>0, <1>1, <1>2, <1>3, <1>4, MoveStep

LEMMA CollectTypeTwice ==
    ASSUME TInv, CollectType PROVE Twice' /\ TypesPreregistered' /\ DriftExplained'
<1>0. World /\ TypeOK /\ At({"type"}) /\ phase = "collect"
  BY DEF TInv, IInv, CollectType
<1> DEFINE types == Top.types \cup {Tok.of}
           f     == Taught(Past, types, Past.decls)
<1>1. types \in SUBSET Known /\ Top.types \subseteq types
  BY <1>0, TokType, TopType
<1>2. /\ Past \in Frame /\ Past.decls \in Seq(Decl) /\ Past.path = Top.path /\ Past.lex = Top.lex
      /\ Past.toks = Top.toks /\ Past.pos = Top.pos + 1
  BY <1>0, PastParts
<1>3. [Past EXCEPT !.types = types] = f
  BY <1>2 DEF Taught, Frame
<1>4. /\ UNCHANGED <<disk, inputs, done, macros, lexed, drift, phase>>
      /\ stack' = SetTop(f) /\ reg' = reg \cup {Tok.of}
      /\ unknown' = unknown \cup Missing(types)
  BY <1>3 DEF CollectType
<1> HIDE DEF types
<1>5. Later(f) /\ Kept(Top, f) /\ f.pos = Top.pos + 1
  BY <1>0, <1>1, <1>2, PastTaught, TaughtType DEF Kept
<1>6. TypesPreregistered'
  <2>1. \A u \in Missing(types) : u.phase = "collect"
    BY <1>0 DEF Missing
  <2> QED BY <1>4, <2>1, SameDisk DEF TypesPreregistered, TInv
<1> HIDE DEF f
<1>7. Tok.k \in {"type"}
  BY <1>0, TokType
<1> QED BY <1>0, <1>4, <1>5, <1>6, <1>7, MoveStep

LEMMA ParseDeclTwice ==
    ASSUME TInv, ParseDecl PROVE Twice' /\ TypesPreregistered' /\ DriftExplained'
<1>0. /\ World /\ TypeOK /\ TypesFlowDown /\ Parsing /\ phase = "parse"
      /\ At({"use", "type", "fn", "oldfn"})
  BY DEF TInv, Twice, IInv, ParseDecl
<1> DEFINE kind  == IF Tok.k = "oldfn" THEN "fn" ELSE Tok.k
           types == IF kind = "type" THEN Top.types \cup {Tok.of} ELSE Top.types
           decl  == [k |-> kind, of |-> Tok.of, path |-> Tok.path]
           f     == Taught(Past, types, Append(Past.decls, decl))
<1>1. /\ Tok.of \in Known /\ Top.types \in SUBSET Known /\ Tok.path \in Paths
      /\ Tok.k \in {"use", "type", "fn", "oldfn"}
  BY <1>0, TokType, TopType
<1>2. types \in SUBSET Known /\ Top.types \subseteq types /\ decl \in Decl
  BY <1>1 DEF Decl, Known
<1>3. /\ Past \in Frame /\ Append(Past.decls, decl) \in Seq(Decl)
      /\ Past.path = Top.path /\ Past.lex = Top.lex
      /\ Past.toks = Top.toks /\ Past.pos = Top.pos + 1
  BY <1>0, <1>2, PastParts, Push
<1>4. [Past EXCEPT !.types = types, !.decls = Append(@, decl)] = f
  <2> HIDE DEF types, decl
  <2> QED BY <1>3 DEF Taught, Frame
<1>5. /\ UNCHANGED <<disk, inputs, done, macros, lexed, drift, phase, reg>>
      /\ stack' = SetTop(f)
      /\ unknown' \subseteq unknown \cup Missing(types)
  BY <1>4 DEF ParseDecl
<1> HIDE DEF types, decl
<1>6. Later(f) /\ Kept(Top, f) /\ f.pos = Top.pos + 1
  BY <1>0, <1>2, <1>3, PastTaught, TaughtType DEF Kept
<1>7. TypesPreregistered'
  <2>1. \A u \in Missing(types) : u.input = Input /\ u.type \notin types
    BY DEF Missing
  <2>2. NoMacros => TypesOf(Input) \subseteq types
    BY <1>0, <1>2, Registered
  <2> QED BY <1>5, <2>1, <2>2, SameDisk DEF TypesPreregistered, TInv
<1> HIDE DEF f, kind
<1> QED BY <1>0, <1>1, <1>5, <1>6, <1>7, MoveStep
-----------------------------------------------------------------------------
LEMMA ReadUsedTwice ==
    ASSUME TInv, At({"@use"}), NEW types \in SUBSET Known, ReadUsed(types)
    PROVE  Twice' /\ TypesPreregistered' /\ DriftExplained'
<1>0. World /\ TypeOK /\ TypesFlowDown /\ Readings /\ Reading
  BY DEF TInv, Twice, IInv, At
<1> DEFINE used == Resolve(Input, Tok.path)
           base == SetTop(Past)
           new  == Open(used, types)
           s    == Append(base, new)
<1>1. used \in Paths
  <2>1. Input \in Paths /\ Tok.path \in Paths
    BY <1>0, InputType, TokType
  <2> QED BY <2>1 DEF Resolve, Paths
<1>2. /\ new \in Frame /\ new.path = used /\ new.lex = 0 /\ new.pos = 0 /\ new.toks = <<>>
  BY <1>1, OpenType
<1>3. Later(Past) /\ Kept(Top, Past) /\ Past.pos = Top.pos + 1
  BY <1>0, PastLater, PastParts DEF Kept
<1>4. Same /\ UNCHANGED <<disk, inputs, done, macros, lexed, drift, reg, unknown>>
  BY DEF ReadUsed, Same, Input
<1>5. Seen' = Seen /\ Recorded' /\ Entered' /\ DriftExplained' /\ TypesPreregistered'
  BY <1>4, SeenKept, EnteredKept, DriftKept, UnknownKept DEF TInv, Twice
<1>6. \/ stack' = s /\ phase' = phase
      \/ stack' = stack /\ phase' = "stack overflow"
  BY DEF ReadUsed
<1>7. CASE stack' = stack /\ phase' = "stack overflow"
  <2>1. Readings'
    BY <1>0, <1>4, <1>7, SameIn DEF Readings
  <2> QED BY <1>5, <1>7, <2>1 DEF Twice, Latest, Lexing, Reading, Collecting, Parsing
<1>8. CASE stack' = s /\ phase' = phase
  <2>1. /\ Len(base) = Len(stack) /\ Len(stack) \in 1..Len(stack) /\ Len(stack) \in Nat
        /\ Top = stack[Len(stack)]
        /\ \A i \in 1..Len(stack) : base[i] = IF i = Len(stack) THEN Past ELSE stack[i]
    BY <1>0, <1>3, TopMoved
  <2>2. base \in Seq(Frame)
    BY <1>0, <1>3, SetTopOK DEF StackOK
  <2>3. ReadingsOf(base) /\ Past.lex = Len(Text(Past.path))
    BY <1>0, <1>3, MoveReadings
  <2>4. \A i \in 1..Len(base) : base[i].lex = Len(Text(base[i].path))
    BY <2>1, <2>3 DEF ReadingsOf, SoFar
  <2> HIDE DEF base, new, used
  <2>5. ReadingsOf(s)
    BY <1>2, <2>2, <2>3, <2>4, PushReadings
  <2>6. /\ Len(s) = Len(base) + 1 /\ s[Len(base) + 1] = new
        /\ \A i \in 1..Len(base) : s[i] = base[i]
    BY <1>2, <2>2, Push
  <2> HIDE DEF s
  <2>7. Readings'
    BY <1>4, <1>8, <2>5, SameIn
  <2>8. Latest'
    <3>1. Top' = new
      BY <1>8, <2>6 DEF Top
    <3> QED BY <1>2, <3>1, SameText, <1>4 DEF Latest, Definers
  <2>9. Collecting'
    <3> SUFFICES ASSUME phase = "collect" PROVE Collecting'
      BY <1>8 DEF Collecting
    <3>1. CollectingIn(stack, Seen, Begun(stack, Seen), reg)
      BY DEF TInv, Twice, Collecting
    <3>2. Begun(base, Seen) = Begun(stack, Seen)
      BY <1>0, <1>3, MoveBegun DEF base
    <3>3. Begun(base, Seen) \subseteq Begun(s, Seen) /\ used \in Begun(s, Seen)
      BY <1>2, <2>1, <2>6 DEF Begun
    <3>4. CollectingIn(base, Seen, Begun(s, Seen), reg)
      <4>1. Tok.k \in {"@use"}
        BY <1>0, TokType
      <4>2. Begun(stack, Seen) \subseteq Begun(s, Seen) /\ Resolve(Input, Tok.path) \in Begun(s, Seen)
        BY <3>2, <3>3 DEF used
      <4> QED BY <1>0, <1>3, <3>1, <4>1, <4>2, MoveCollecting DEF base
    <3>5. base # <<>>
      BY <2>1, <2>2
    <3>6. CollectingIn(s, Seen, Begun(s, Seen), reg)
      BY <1>0, <1>2, <2>2, <3>4, <3>5, PushCollecting DEF s
    <3> QED BY <1>4, <1>5, <1>8, <3>6, SameIn
  <2>10. Parsing'
    <3> SUFFICES ASSUME phase = "parse" PROVE Parsing'
      BY <1>8 DEF Parsing
    <3>1. ParsingIn(stack, Seen, reg)
      BY DEF TInv, Twice, Parsing
    <3>2. used \in Seen
      BY <1>0, <3>1, UseSeen DEF used
    <3>3. ParsingIn(base, Seen, reg)
      BY <1>0, <1>3, <3>1, MoveParsing DEF base
    <3>4. ParsingIn(s, Seen, reg)
      BY <1>2, <2>1, <2>6, <3>2, <3>3 DEF ParsingIn
    <3> QED BY <1>4, <1>5, <1>8, <3>4, SameIn
  <2> QED BY <1>5, <2>7, <2>8, <2>9, <2>10 DEF Twice
<1> QED BY <1>6, <1>7, <1>8

LEMMA CollectUseTwice ==
    ASSUME TInv, CollectUse PROVE Twice' /\ TypesPreregistered' /\ DriftExplained'
<1>1. {} \in SUBSET Known
  OBVIOUS
<1> QED BY <1>1, ReadUsedTwice DEF CollectUse

LEMMA ParseUseTwice ==
    ASSUME TInv, ParseUse PROVE Twice' /\ TypesPreregistered' /\ DriftExplained'
<1>1. Top.types \in SUBSET Known
  BY TokType, TopType DEF TInv, IInv, ParseUse
<1> QED BY <1>1, ReadUsedTwice DEF ParseUse
-----------------------------------------------------------------------------
(* The end of a used file.                                                 *)
LEMMA ReturnTwice ==
    ASSUME TInv, Return PROVE Twice' /\ TypesPreregistered' /\ DriftExplained'
<1>0. World /\ TypeOK /\ Readings /\ Reading /\ AtEnd /\ Len(stack) > 1
  BY DEF TInv, Twice, IInv, Return, AtEnd
<1> DEFINE n     == Len(stack) - 1
           decls == IF phase = "parse" THEN Below[n].decls \o Top.decls ELSE Below[n].decls
           user  == [Below[n] EXCEPT !.decls = decls]
<1>1. /\ n \in Nat /\ n \in 1..n /\ n \in 0..Len(stack) /\ n \in 1..Len(stack)
      /\ Len(stack) = n + 1 /\ Len(stack) \in 1..Len(stack) /\ Top = stack[Len(stack)]
  BY <1>0, TopType
<1>2. /\ Below \in Seq(Frame) /\ Len(Below) = n
      /\ \A i \in 1..n : Below[i] = stack[i] /\ i \in 1..Len(stack)
  BY <1>0, <1>1, Cut DEF Below, TypeOK
<1>3. Below[n] \in Frame /\ Below[n].decls \in Seq(Decl) /\ Top.decls \in Seq(Decl)
  <2>1. Below[n] \in Frame
    BY <1>1, <1>2
  <2>2. Below[n].decls \in Seq(Decl)
    BY <2>1 DEF Frame
  <2> QED BY <1>0, <2>1, <2>2, TopType
<1>4. decls \in Seq(Decl)
  BY <1>3, Join
<1> HIDE DEF decls
<1>5. user \in Frame /\ Kept(Below[n], user) /\ user.pos = Below[n].pos
  BY <1>3, <1>4, DeclsType DEF Kept
<1>6. stack' = [Below EXCEPT ![n] = user]
  BY <1>1, <1>2, <1>3 DEF Return, decls
<1> HIDE DEF user, n
<1>7. /\ stack' \in Seq(Frame) /\ Len(stack') = n
      /\ \A i \in 1..n : stack'[i] = IF i = n THEN user ELSE Below[i]
  BY <1>1, <1>2, <1>5, <1>6, Replace
<1>8. \A i \in 1..n : Kept(stack[i], stack'[i]) /\ stack'[i].pos = stack[i].pos
  BY <1>2, <1>5, <1>7 DEF Kept
<1>9. Same /\ UNCHANGED <<disk, inputs, done, phase, macros, lexed, drift, reg, unknown>>
  BY DEF Return, result, Same, Input
<1>10. Seen' = Seen /\ Recorded' /\ Entered' /\ DriftExplained' /\ TypesPreregistered'
  BY <1>9, SeenKept, EnteredKept, DriftKept, UnknownKept DEF TInv, Twice
<1>11. \A i \in 1..n : SoFar(stack[i], TRUE)
  BY <1>0, <1>1 DEF Readings, ReadingsOf, SoFar
<1>12. Readings'
  <2>1. ReadingsOf(stack')
    BY <1>7, <1>8, <1>11 DEF ReadingsOf, SoFar, Kept
  <2> QED BY <1>9, <2>1, SameIn
<1>13. Latest'
  <2>1. Top' = stack'[n] /\ Top'.lex = Len(Text(Top'.path)) /\ Top'.lex \in Nat
    BY <1>1, <1>5, <1>7, <1>8, <1>11 DEF Top, SoFar, Kept, Frame
  <2>2. ~Lexing'
    BY <1>9, <2>1, SameText DEF Lexing
  <2> QED BY <2>2 DEF Latest
<1>14. Collecting'
  <2> SUFFICES ASSUME phase = "collect" PROVE Collecting'
    BY <1>9 DEF Collecting
  <2>1. CollectingIn(stack, Seen, Begun(stack, Seen), reg)
    BY DEF TInv, Twice, Collecting
  <2>2. Wholly(Top.path, Begun(stack, Seen), reg) /\ Top.path \in Seen
    <3>1. Upto(Top.path, Top.pos, Begun(stack, Seen), reg)
      BY <1>1, <2>1 DEF CollectingIn
    <3>2. Wholly(Top.path, Begun(stack, Seen), reg) /\ Top.lex = Len(Text(Top.path))
      BY <1>0, <3>1, EndUpto
    <3>3. Len(stack) \in 2..Len(stack)
      BY <1>0, <1>1
    <3> QED BY <1>1, <2>1, <3>2, <3>3 DEF CollectingIn
  <2>3. Begun(stack', Seen) = Begun(stack, Seen)
    <3>1. \A i \in 2..Len(stack) : i # Len(stack) => i \in 1..n /\ i \in 2..n
      BY <1>1
    <3>2. \A i \in 2..n : i \in 1..n /\ i \in 2..Len(stack) /\ stack'[i].path = stack[i].path
      BY <1>1, <1>8 DEF Kept
    <3> QED BY <1>1, <1>7, <2>2, <3>1, <3>2 DEF Begun
  <2>4. CollectingIn(stack', Seen, Begun(stack, Seen), reg)
    <3>1. \A i \in 1..n : i \in 1..Len(stack) /\ (i \in 2..n => i \in 2..Len(stack))
      BY <1>1
    <3>2. ASSUME NEW p \in Seen
          PROVE  Wholly(p, Begun(stack, Seen), reg) \/ \E i \in 2..n : stack'[i].path = p
      <4>1. CASE \E i \in 2..Len(stack) : stack[i].path = p
        <5>1. PICK i \in 2..Len(stack) : stack[i].path = p
          BY <4>1
        <5>2. CASE i = Len(stack)
          BY <1>1, <2>2, <5>1, <5>2
        <5>3. CASE i # Len(stack)
          <6>1. i \in 1..n /\ i \in 2..n
            BY <1>1, <5>3
          <6> QED BY <1>8, <5>1, <6>1 DEF Kept
        <5> QED BY <5>2, <5>3
      <4> QED BY <2>1, <4>1 DEF CollectingIn
    <3>3. \A i \in 2..n : i \in 1..n
      BY <1>1
    <3> QED BY <1>7, <1>8, <2>1, <3>1, <3>2, <3>3 DEF CollectingIn, Kept
  <2> QED BY <1>9, <1>10, <2>3, <2>4, SameIn
<1>15. Parsing'
  <2> SUFFICES ASSUME phase = "parse" PROVE Parsing'
    BY <1>9 DEF Parsing
  <2>1. ParsingIn(stack, Seen, reg)
    BY DEF TInv, Twice, Parsing
  <2>2. 1 \in 1..n /\ \A i \in 2..n : i \in 1..n /\ i \in 2..Len(stack)
    BY <1>1
  <2>3. ParsingIn(stack', Seen, reg)
    BY <1>7, <1>8, <2>1, <2>2 DEF ParsingIn, Kept
  <2> QED BY <1>9, <1>10, <2>3, SameIn
<1> QED BY <1>10, <1>12, <1>13, <1>14, <1>15 DEF Twice

LEMMA BeginParseTwice ==
    ASSUME TInv, BeginParse PROVE Twice' /\ TypesPreregistered' /\ DriftExplained'
<1>0. World /\ TypeOK /\ Readings /\ Len(stack) = 1 /\ phase = "collect" /\ Reading /\ AtEnd
  BY DEF TInv, Twice, IInv, BeginParse, Reading
<1> DEFINE g == [Top EXCEPT !.pos = 0]
           f == [Top EXCEPT !.pos = 0, !.types = reg]
<1>1. Top \in Frame /\ Top = stack[1] /\ reg \in SUBSET Known
  BY <1>0, TopType DEF TypeOK, Known
<1>2. g \in Frame /\ Kept(Top, g) /\ g.pos = 0
  BY <1>1 DEF Frame, Kept
<1>3. f = [g EXCEPT !.types = reg]
  OBVIOUS
<1> HIDE DEF f, g
<1>4. f \in Frame /\ Kept(Top, f) /\ f.pos = 0
  BY <1>1, <1>2, <1>3 DEF Frame, Known, Kept
<1>5. /\ stack' = <<f>> /\ phase' = "parse" /\ Same
      /\ UNCHANGED <<disk, inputs, done, macros, lexed, drift, reg, unknown>>
  BY DEF BeginParse, f, result, Same, Input
<1>6. Seen' = Seen /\ Recorded' /\ Entered' /\ DriftExplained' /\ TypesPreregistered'
  BY <1>5, SeenKept, EnteredKept, DriftKept, UnknownKept DEF TInv, Twice
<1>7. CollectingIn(stack, Seen, Begun(stack, Seen), reg)
  BY <1>0 DEF TInv, Twice, Collecting
<1>8. Begun(stack, Seen) = Seen
  BY <1>0 DEF Begun
<1>9. Wholly(Top.path, Seen, reg) /\ Top.lex = Len(Text(Top.path))
  <2>1. Upto(Top.path, Top.pos, Seen, reg)
    BY <1>0, <1>1, <1>7, <1>8 DEF CollectingIn
  <2> QED BY <1>0, <2>1, EndUpto
<1>10. ParsingIn(stack', Seen, reg)
  <2>1. \A p \in Seen : Wholly(p, Seen, reg)
    BY <1>0, <1>7, <1>8 DEF CollectingIn
  <2> QED BY <1>4, <1>5, <1>9, <2>1 DEF ParsingIn, Kept
<1>11. Parsing' /\ Collecting'
  BY <1>5, <1>6, <1>10, SameIn DEF Collecting
<1>12. Readings'
  <2>1. ReadingsOf(stack')
    BY <1>0, <1>1, <1>4, <1>5 DEF Readings, ReadingsOf, SoFar, Kept
  <2> QED BY <1>5, <2>1, SameIn
<1>13. Latest'
  <2>1. Top' = f /\ f.lex = Len(Text(f.path)) /\ f.lex \in Nat
    BY <1>4, <1>5, <1>9 DEF Top, Kept, Frame
  <2>2. ~Lexing'
    BY <1>5, <2>1, SameText DEF Lexing
  <2> QED BY <2>2 DEF Latest
<1> QED BY <1>6, <1>11, <1>12, <1>13 DEF Twice

LEMMA NextInputTwice ==
    ASSUME TInv, NextInput PROVE Twice' /\ TypesPreregistered' /\ DriftExplained'
<1>0. World /\ TypeOK /\ phase = "next" /\ stack = <<>> /\ done < Len(inputs)
  BY DEF TInv, IInv, NextInput, TypeOK
<1>1. PICK p \in Paths : p = inputs[done + 1]
  <2>1. done + 1 \in 1..Len(inputs)
    BY <1>0, LinesAssumption DEF World, TypeOK
  <2> QED BY <1>0, <2>1, LinesAssumption DEF World
<1> DEFINE f == Open(p, {})
<1>2. f \in Frame /\ f.path = p /\ f.lex = 0 /\ f.pos = 0 /\ f.toks = <<>>
  BY <1>1, OpenType
<1>4. /\ UNCHANGED <<disk, inputs, macros, drift, unknown>>
      /\ \/ phase' = "no input" /\ UNCHANGED <<stack, reg, lexed>>
         \/ phase' = "collect" /\ stack' = <<f>> /\ reg' = {} /\ lexed' = {}
  BY <1>1 DEF NextInput
<1> HIDE DEF f
<1>5. Entered' /\ DriftExplained' /\ TypesPreregistered'
  BY <1>4, EnteredKept, DriftKept, UnknownKept DEF TInv, Twice
<1>6. CASE phase' = "no input" /\ UNCHANGED <<stack, reg, lexed>>
  <2>1. Readings'
    <3>1. stack' = <<>>
      BY <1>0, <1>6
    <3> QED BY <3>1 DEF Readings, ReadingsOf
  <2>2. Recorded'
    BY <1>4, <1>6, SeenKept DEF TInv, Twice
  <2> QED BY <1>5, <1>6, <2>1, <2>2 DEF Twice, Latest, Lexing, Reading, Collecting, Parsing
<1>7. CASE phase' = "collect" /\ stack' = <<f>> /\ reg' = {} /\ lexed' = {}
  <2>1. Recorded'
    BY <1>7 DEF Recorded
  <2>2. Readings'
    <3>1. Reads(p, 0, <<>>)'
      BY <1>4, SameDisk, ReadsStart
    <3>2. Len(stack') = 1 /\ stack'[1] = f
      BY <1>7
    <3>3. \A i \in 1..1 : i = 1
      OBVIOUS
    <3> QED BY <1>2, <3>1, <3>2, <3>3 DEF Readings, ReadingsOf, SoFar
  <2>3. Latest'
    <3>1. Top' = f
      BY <1>7 DEF Top
    <3> QED BY <1>2, <3>1 DEF Latest, Definers
  <2>4. Collecting'
    <3>1. World'
      BY <1>0, <1>4 DEF World
    <3>2. \A files, types : Upto(p, 0, files, types)'
      <4>1. ASSUME NEW i \in Spoken(p, Len(Text(p))) PROVE ~(Rank(p, i) <= 0)
        <5>1. Len(Text(p)) \in Nat
          BY <1>0, <1>1, TextType
        <5>2. Rank(p, i) \in 1..Rank(p, Len(Text(p)))
          BY <5>1, RankPositive
        <5> QED BY <5>2
      <4> QED BY <1>4, <4>1, SameText DEF Upto
    <3>3. ASSUME NEW q \in Seen' PROVE \A files, types : Wholly(q, files, types)'
      <4>1. Text(q)' = <<>>
        BY <1>7, <3>3 DEF Seen
      <4> QED BY <4>1 DEF Wholly
    <3>4. Len(stack') = 1 /\ stack'[1] = f
      BY <1>7
    <3>5. (\A i \in 1..1 : i = 1) /\ 2..1 = {}
      OBVIOUS
    <3> QED BY <1>2, <3>2, <3>3, <3>4, <3>5 DEF Collecting, CollectingIn
  <2> QED BY <1>5, <1>7, <2>1, <2>2, <2>3, <2>4 DEF Twice, Parsing
<1> QED BY <1>4, <1>6, <1>7

LEMMA MergeTwice ==
    ASSUME TInv, Merge PROVE Twice' /\ TypesPreregistered' /\ DriftExplained'
<1>1. /\ UNCHANGED <<disk, macros, lexed, drift, unknown>>
      /\ phase' = "next" /\ stack' = <<>>
  BY DEF Merge
<1>2. Recorded' /\ Entered' /\ DriftExplained' /\ TypesPreregistered'
  BY <1>1, SeenKept, EnteredKept, DriftKept, UnknownKept DEF TInv, Twice
<1> QED BY <1>1, <1>2 DEF Twice, Readings, ReadingsOf, Latest, Lexing, Reading, Collecting, Parsing

LEMMA LinkTwice ==
    ASSUME TInv, Link PROVE Twice' /\ TypesPreregistered' /\ DriftExplained'
<1>1. /\ UNCHANGED <<disk, inputs, done, stack, macros, lexed, drift, unknown>>
      /\ phase' \in Ends /\ Same
  BY DEF Link, reading, result, Ends, Same, Input
<1>2. Recorded' /\ Entered' /\ DriftExplained' /\ TypesPreregistered'
  BY <1>1, SeenKept, EnteredKept, DriftKept, UnknownKept DEF TInv, Twice
<1>3. Readings'
  BY <1>1, SameIn DEF TInv, Twice, Readings
<1> QED BY <1>1, <1>2, <1>3 DEF Twice, Latest, Lexing, Reading, Collecting, Parsing, Ends
-----------------------------------------------------------------------------
(* The next item of the file being lexed, and its tokens with it.          *)
NextItem == Text(Top.path)[Top.lex + 1]
Grown    == IF NextItem.k = "macro" THEN Top.toks ELSE Append(Top.toks, Token(NextItem, macros))
Lexed    == LexedTo(Top, Top.lex + 1, Grown)

LEMMA LexShape ==
    ASSUME World, TypeOK, TypesFlowDown, LexItem
    PROVE  /\ Top.path \in Paths /\ Top.lex \in Nat /\ Top.lex + 1 \in 1..Len(Text(Top.path))
           /\ Len(Text(Top.path)) \in Nat /\ Top.pos \in Nat /\ Grown \in Seq(Item)
           /\ Lexed \in Frame /\ Lexed.path = Top.path /\ Lexed.lex = Top.lex + 1
           /\ Lexed.toks = Grown /\ Lexed.pos = Top.pos /\ Lexed.decls = Top.decls
           /\ Len(stack) \in Nat /\ Len(stack) \in 1..Len(stack) /\ Top = stack[Len(stack)]
           /\ stack' \in Seq(Frame) /\ Len(stack') = Len(stack)
           /\ \A i \in 1..Len(stack) : stack'[i] = IF i = Len(stack) THEN Lexed ELSE stack[i]
<1>1. Reading /\ Len(stack) > 0 /\ Top.lex < Len(Text(Top.path))
  BY InputType DEF LexItem, Lexing
<1>2. /\ Len(stack) \in 1..Len(stack) /\ Len(stack) \in Nat /\ Top = stack[Len(stack)] /\ Top \in Frame
      /\ Top.path \in Paths /\ Top.lex \in Nat /\ Top.toks \in Seq(Item) /\ Top.pos \in Nat
      /\ stack \in Seq(Frame)
  BY <1>1, TopType DEF TypeOK
<1>3. Len(Text(Top.path)) \in Nat
  BY <1>2, TextType
<1>4. Top.lex + 1 \in 1..Len(Text(Top.path))
  BY <1>1, <1>2, <1>3
<1>5. NextItem \in Item
  BY <1>2, <1>4, TextType DEF NextItem
<1>6. Grown \in Seq(Item)
  <2>1. Token(NextItem, macros) \in Item
    BY <1>5, TokenType
  <2> QED BY <1>2, <2>1, Push DEF Grown
<1>7. /\ Lexed \in Frame /\ Lexed.path = Top.path /\ Lexed.lex = Top.lex + 1
      /\ Lexed.toks = Grown /\ Lexed.pos = Top.pos /\ Lexed.decls = Top.decls
  <2> DEFINE n == Top.lex + 1
  <2>1. n \in Nat
    BY <1>2
  <2>2. Lexed = LexedTo(Top, n, Grown)
    BY DEF Lexed
  <2> HIDE DEF n
  <2>3. /\ Lexed \in Frame /\ Lexed.path = Top.path /\ Lexed.lex = n
        /\ Lexed.toks = Grown /\ Lexed.pos = Top.pos /\ Lexed.decls = Top.decls
    <3> DEFINE f == LexedTo(Top, n, Grown)
    <3>1. /\ f \in Frame /\ f.path = Top.path /\ f.types = Top.types
          /\ f.lex = n /\ f.toks = Grown /\ f.pos = Top.pos /\ f.decls = Top.decls
      <4>1. Top \in Frame /\ n \in Nat /\ Grown \in Seq(Item)
        BY <1>2, <1>6, <2>1
      <4> QED BY <4>1, LexedType
    <3> HIDE DEF f
    <3> QED BY <2>2, <3>1 DEF f
  <2> QED BY <2>3 DEF n
<1>8. stack' = [stack EXCEPT ![Len(stack)] = Lexed]
  BY DEF LexItem, Lexed, LexedTo, Grown, NextItem, SetTop
<1>9. /\ stack' \in Seq(Frame) /\ Len(stack') = Len(stack)
      /\ \A i \in 1..Len(stack) : stack'[i] = IF i = Len(stack) THEN Lexed ELSE stack[i]
  BY <1>2, <1>7, <1>8, Replace
<1> QED BY <1>2, <1>3, <1>4, <1>6, <1>7, <1>9

(* In a file that is not disturbed the words mean what it has defined.     *)
LEMMA LexAgrees ==
    ASSUME World, Entered, Latest, Lexing, Top.path \in Paths, Top.lex \in Nat,
           Top.lex + 1 \in 1..Len(Text(Top.path)), NextItem.k # "macro", ~Disturbed(Top.path),
           NEW w \in Mentions(Top.path)
    PROVE  macros[w] = Own(Top.path)[w]
<1> DEFINE p == Top.path
<1>1. w \in Words
  BY DEF Mentions
<1>2. CASE Definers(p, w) = {}
  <2>1. \A q \in Paths : \A j \in Definers(q, w) : q = p
    BY Undisturbed
  <2>2. macros[w] = NoWord
    BY <1>1, <1>2, <2>1 DEF Entered
  <2> QED BY <1>1, <1>2, <2>2 DEF Own
<1>3. CASE Definers(p, w) # {}
  <2>1. LastIn(p, w) \in Definers(p, w) /\ \A l \in Definers(p, w) : l <= LastIn(p, w)
    BY <1>3, LastIs
  <2>2. LastIn(p, w) < Top.lex + 1
    BY <2>1, Undisturbed DEF NextItem
  <2>3. LastIn(p, w) <= Top.lex
    <3>1. LastIn(p, w) \in Nat
      BY <2>1 DEF Definers
    <3> QED BY <2>2, <3>1
  <2>4. macros[w] = Text(p)[LastIn(p, w)].is
    BY <1>1, <2>1, <2>3 DEF Latest
  <2> QED BY <1>1, <1>3, <2>4 DEF Own
<1> QED BY <1>2, <1>3

LEMMA LexReads ==
    ASSUME IInv, Twice, LexItem
    PROVE  Reads(Top.path, Top.lex + 1, Grown) /\ Top.pos = 0
<1> DEFINE p == Top.path
<1>0. World /\ TypeOK /\ TypesFlowDown /\ Lexing /\ macros \in Tables
  BY DEF IInv, LexItem, TypeOK, Tables
<1>1. /\ p \in Paths /\ Top.lex \in Nat /\ Top.lex + 1 \in 1..Len(Text(p)) /\ Len(Text(p)) \in Nat
      /\ Top.pos \in Nat /\ Len(stack) \in 1..Len(stack) /\ Top = stack[Len(stack)]
  BY <1>0, LexShape
<1>2. Reads(p, Top.lex, Top.toks) /\ (Top.pos > 0 => Top.lex = Len(Text(p)))
  BY <1>1 DEF Twice, Readings, ReadingsOf, SoFar
<1>3. Top.pos = 0
  BY <1>1, <1>2
<1>4. CASE NextItem.k = "macro"
  BY <1>1, <1>2, <1>3, <1>4, ReadsMacro DEF NextItem, Grown
<1>5. CASE NextItem.k # "macro"
  <2>1. NextItem \in Item
    BY <1>0, <1>1, TextType DEF NextItem
  <2>2. /\ Token(NextItem, macros) \in Item /\ Token(NextItem, macros).k = NextItem.k
        /\ Token(NextItem, macros).path = NextItem.path
    BY <2>1, TokenType DEF Token, Item
  <2>3. ASSUME ~Disturbed(p) PROVE Token(NextItem, macros) = Canon(p, Top.lex + 1)
    <3>1. \A w \in Mentions(p) : macros[w] = Own(p)[w]
      BY <1>0, <1>1, <1>5, <2>3, LexAgrees DEF Twice
    <3> QED BY <1>0, <1>1, <1>5, <3>1, TokenAgrees DEF NextItem, Canon
  <2>4. Top.toks \in Seq(Item)
    BY <1>0, <1>1, TopType
  <2>5. Reads(p, Top.lex + 1, Append(Top.toks, Token(NextItem, macros)))
    BY <1>1, <1>2, <1>5, <2>2, <2>3, <2>4, ReadsToken DEF NextItem
  <2> QED BY <1>3, <1>5, <2>5 DEF Grown
<1> QED BY <1>4, <1>5

LEMMA LexTables ==
    ASSUME World, TypeOK, TypesFlowDown, Entered, Latest, LexItem
    PROVE  Entered' /\ Latest'
<1> DEFINE p == Top.path
           n == Top.lex + 1
<1>0. disk' = disk /\ Lexing /\ macros \in [Words -> Words \cup {NoWord}]
  BY DEF LexItem, TypeOK
<1>1. /\ p \in Paths /\ Top.lex \in Nat /\ n \in 1..Len(Text(p))
      /\ Top' = Lexed /\ Lexed.path = p /\ Lexed.lex = n
  BY LexShape DEF Top
<1>2. NextItem.of \in Words
  BY <1>1, WrittenType DEF NextItem
<1>3. \A w : n \in Definers(p, w) <=> NextItem.k = "macro" /\ NextItem.of = w
  BY <1>1 DEF Definers, Defines, NextItem
<1>4. ASSUME NEW w \in Words
      PROVE  macros'[w] = IF n \in Definers(p, w) THEN NextItem.is ELSE macros[w]
  <2>1. macros' = IF NextItem.k = "macro" THEN [macros EXCEPT ![NextItem.of] = NextItem.is] ELSE macros
    BY DEF LexItem, NextItem
  <2> HIDE DEF n, p
  <2> QED BY <1>0, <1>2, <1>3, <2>1
<1>5. Entered'
  <2>1. ASSUME NEW w \in Words, macros'[w] # NoWord PROVE \E q \in Paths : Definers(q, w) # {}
    BY <1>1, <1>4, <2>1 DEF Entered
  <2> QED BY <1>0, <2>1, SameText DEF Entered
<1>6. ASSUME NEW w \in Words, NEW j \in Definers(p, w), j <= n,
             \A l \in Definers(p, w) : l <= n => l <= j
      PROVE  macros'[w] = Text(p)[j].is
  <2>0. j \in Nat /\ n \in Nat /\ \A l \in Definers(p, w) : l \in Nat
    BY <1>1 DEF Definers
  <2>1. CASE n \in Definers(p, w)
    <3>1. j = n
      BY <1>6, <2>0, <2>1
    <3> QED BY <1>4, <2>1, <3>1 DEF NextItem
  <2>2. CASE n \notin Definers(p, w)
    <3>1. j <= Top.lex /\ \A l \in Definers(p, w) : l <= Top.lex => l <= j
      BY <1>1, <1>6, <2>0, <2>2
    <3> QED BY <1>0, <1>4, <2>2, <3>1 DEF Latest
  <2> QED BY <2>1, <2>2
<1> HIDE DEF p, n
<1>7. Top'.path = p /\ Top'.lex = n
  BY <1>1
<1>8. Latest'
  BY <1>0, <1>6, <1>7, SameText DEF Latest
<1> QED BY <1>5, <1>8
-----------------------------------------------------------------------------
LEMMA LexItemTwice ==
    ASSUME TInv, LexItem PROVE Twice' /\ TypesPreregistered' /\ DriftExplained'
<1> DEFINE p    == Top.path
           last == Top.lex + 1 = Len(Text(p)) /\ Len(stack) > 1
<1>0. World /\ TypeOK /\ TypesFlowDown /\ Reading
  BY DEF TInv, IInv, LexItem, Lexing
<1>1. /\ Same /\ UNCHANGED <<disk, inputs, done, phase, reg, unknown>>
      /\ lexed' = IF last /\ phase = "collect" THEN lexed \cup {<<p, Grown>>} ELSE lexed
      /\ drift' = IF last /\ phase = "parse" /\ <<p, Grown>> \notin lexed THEN drift \cup {p} ELSE drift
  BY DEF LexItem, Grown, NextItem, result, Same, Input
<1>2. /\ p \in Paths /\ Top.lex \in Nat /\ Top.lex + 1 \in 1..Len(Text(p)) /\ Len(Text(p)) \in Nat
      /\ Lexed.path = p /\ Lexed.lex = Top.lex + 1 /\ Lexed.toks = Grown /\ Lexed.pos = Top.pos
      /\ Grown \in Seq(Item) /\ Len(stack) \in Nat /\ Len(stack) \in 1..Len(stack) /\ Top = stack[Len(stack)]
      /\ Len(stack') = Len(stack)
      /\ \A i \in 1..Len(stack) : stack'[i] = IF i = Len(stack) THEN Lexed ELSE stack[i]
  BY <1>0, LexShape
<1>3. Reads(p, Top.lex + 1, Grown) /\ Top.pos = 0
  BY LexReads DEF TInv
<1>4. Entered' /\ Latest'
  BY <1>0, LexTables DEF TInv, Twice
<1>5. Readings /\ Recorded
  BY DEF TInv, Twice
<1>6. Readings'
  <2>1. SoFar(Lexed, FALSE)
    BY <1>2, <1>3 DEF SoFar
  <2>2. ReadingsOf(stack')
    <3>1. ASSUME NEW i \in 1..Len(stack) PROVE SoFar(stack'[i], i < Len(stack))
      <4>1. CASE i = Len(stack)
        BY <1>2, <2>1, <4>1 DEF SoFar
      <4>2. CASE i # Len(stack)
        BY <1>2, <1>5, <4>2 DEF Readings, ReadingsOf
      <4> QED BY <4>1, <4>2
    <3> QED BY <1>2, <3>1 DEF ReadingsOf
  <2> QED BY <1>1, <2>2, SameIn
<1>7. Recorded'
  <2> HIDE DEF last
  <2>1. last => Reads(p, Len(Text(p)), Grown)
    BY <1>3 DEF last
  <2> HIDE DEF p
  <2>2. lexed' \subseteq Paths \X Seq(Item)
    BY <1>1, <1>2, <1>5 DEF Recorded
  <2>3. ASSUME NEW e \in lexed' PROVE Reads(e[1], Len(Text(e[1])), e[2])
    BY <1>1, <1>5, <2>1, <2>3 DEF Recorded
  <2> QED BY <1>1, <2>2, <2>3, SameText, SameDisk DEF Recorded
<1>8. Seen \subseteq Seen' /\ (last /\ phase = "collect" => p \in Seen')
      /\ \A q \in Seen' : q \in Seen \/ (last /\ phase = "collect" /\ q = p)
  <2> HIDE DEF last, p
  <2> QED BY <1>1, <1>2, SameText DEF Seen
<1>9. \A i \in 1..Len(stack) : stack'[i].path = stack[i].path /\ stack'[i].pos = stack[i].pos
  BY <1>2
<1>10. TypesPreregistered'
  BY <1>1, UnknownKept DEF TInv
<1>11. Collecting'
  <2> SUFFICES ASSUME phase = "collect" PROVE Collecting'
    BY <1>1 DEF Collecting
  <2> DEFINE files == Begun(stack, Seen)
             more  == Begun(stack', Seen')
  <2>1. CollectingIn(stack, Seen, files, reg)
    BY DEF TInv, Twice, Collecting
  <2>2. files \subseteq more
    <3>1. \A i \in 2..Len(stack) : i \in 1..Len(stack)
      BY <1>2
    <3> QED BY <1>2, <1>8, <1>9, <3>1 DEF Begun
  <2> HIDE DEF files, more
  <2>3. ASSUME NEW i \in 1..Len(stack') PROVE Upto(stack'[i].path, stack'[i].pos, more, reg)
    <3>1. i \in 1..Len(stack)
      BY <1>2
    <3>2. Upto(stack[i].path, stack[i].pos, files, reg)
      BY <2>1, <3>1 DEF CollectingIn
    <3>3. Upto(stack[i].path, stack[i].pos, more, reg)
      BY <2>2, <3>2, UptoMore
    <3> QED BY <1>9, <3>1, <3>3
  <2>4. ASSUME NEW i \in 2..Len(stack'), stack'[i].lex = Len(Text(stack'[i].path))
        PROVE  stack'[i].path \in Seen'
    <3>1. i \in 1..Len(stack) /\ i \in 2..Len(stack)
      BY <1>2
    <3>2. CASE i = Len(stack)
      <4>1. Len(stack) > 1
        BY <1>2, <3>1, <3>2
      <4>2. Top.lex + 1 = Len(Text(p))
        BY <1>2, <2>4, <3>1, <3>2
      <4> QED BY <1>2, <1>8, <3>1, <3>2, <4>1, <4>2
    <3>3. CASE i # Len(stack)
      BY <1>2, <1>8, <2>1, <2>4, <3>1, <3>3 DEF CollectingIn
    <3> QED BY <3>2, <3>3
  <2>5. ASSUME NEW q \in Seen'
        PROVE  Wholly(q, more, reg) \/ \E i \in 2..Len(stack') : stack'[i].path = q
    <3>1. CASE q \in Seen
      <4>1. CASE Wholly(q, files, reg)
        BY <2>2, <4>1, WhollyMore
      <4>2. CASE \E i \in 2..Len(stack) : stack[i].path = q
        <5>1. PICK i \in 2..Len(stack) : stack[i].path = q
          BY <4>2
        <5>2. i \in 1..Len(stack)
          BY <1>2
        <5> QED BY <1>2, <1>9, <5>1, <5>2
      <4> QED BY <2>1, <3>1, <4>1, <4>2 DEF CollectingIn
    <3>2. CASE last /\ q = p
      <4>1. Len(stack) \in 2..Len(stack')
        BY <1>2, <3>2
      <4>2. stack'[Len(stack)].path = q
        BY <1>2, <3>2
      <4> QED BY <4>1, <4>2
    <3> QED BY <1>8, <3>1, <3>2
  <2>6. CollectingIn(stack', Seen', more, reg)
    BY <2>3, <2>4, <2>5 DEF CollectingIn
  <2>7. reg' = reg
    BY <1>1
  <2> QED BY <1>1, <2>6, <2>7, SameIn DEF more
<1>12. phase = "parse" => Seen' = Seen
  BY <1>1, <1>8
<1>13. Parsing'
  <2> SUFFICES ASSUME phase = "parse" PROVE Parsing'
    BY <1>1 DEF Parsing
  <2>1. ParsingIn(stack, Seen, reg)
    BY DEF TInv, Twice, Parsing
  <2>2. 1 \in 1..Len(stack) /\ \A i \in 2..Len(stack) : i \in 1..Len(stack)
    BY <1>2
  <2>3. ParsingIn(stack', Seen, reg)
    BY <1>2, <1>9, <2>1, <2>2 DEF ParsingIn
  <2>4. reg' = reg /\ Seen' = Seen
    BY <1>1, <1>12
  <2> QED BY <1>1, <2>3, <2>4, SameIn
<1>14. DriftExplained'
  <2>1. ASSUME last, phase = "parse", <<p, Grown>> \notin lexed PROVE Disturbed(p)
    <3> SUFFICES ASSUME ~Disturbed(p) PROVE FALSE
      OBVIOUS
    <3>1. Len(stack) \in 2..Len(stack)
      BY <1>2, <2>1
    <3>2. p \in Seen
      BY <1>2, <2>1, <3>1 DEF TInv, Twice, Parsing, ParsingIn
    <3>3. Text(p) # <<>>
      BY <1>2
    <3>4. PICK e \in lexed : e[1] = p
      BY <3>2, <3>3 DEF Seen
    <3>5. e = <<p, e[2]>> /\ e[2] \in Seq(Item) /\ Reads(p, Len(Text(p)), e[2])
      BY <1>5, <3>4 DEF Recorded
    <3>6. Reads(p, Len(Text(p)), Grown)
      BY <1>3, <2>1
    <3>7. Grown = e[2]
      <4> HIDE DEF p, last
      <4> QED BY <1>2, <3>5, <3>6, ReadsEqual
    <3> QED BY <2>1, <3>4, <3>5, <3>7
  <2> HIDE DEF last, p
  <2>2. \A q \in drift' : Disturbed(q)
    BY <1>1, <2>1 DEF TInv, DriftExplained
  <2> QED BY <1>1, <2>2, SameDisk DEF DriftExplained
<1> QED BY <1>4, <1>6, <1>7, <1>10, <1>11, <1>13, <1>14 DEF Twice

LEMMA InitTInv == Init => TInv
<1> SUFFICES ASSUME Init PROVE TInv
  OBVIOUS
<1>1. IInv
  BY InitIInv
<1>2. Readings /\ Recorded /\ Entered
  BY DEF Init, Readings, ReadingsOf, Recorded, Entered
<1>3. Latest /\ Collecting /\ Parsing
  BY DEF Init, Latest, Lexing, Reading, Collecting, Parsing
<1>4. TypesPreregistered /\ DriftExplained
  BY DEF Init, TypesPreregistered, DriftExplained
<1> QED BY <1>1, <1>2, <1>3, <1>4 DEF TInv, Twice

LEMMA TInvNext == TInv /\ [Next]_vars => TInv'
<1> SUFFICES ASSUME TInv, [Next]_vars PROVE TInv'
  OBVIOUS
<1>1. IInv'
  BY IInvNext DEF TInv
<1>2. Twice' /\ TypesPreregistered' /\ DriftExplained'
  <2>1. CASE UNCHANGED vars
    <3>1. /\ Same /\ UNCHANGED <<disk, phase, stack, macros, reg, lexed, drift, unknown>>
      BY <2>1 DEF vars, reading, result, Same, Input
    <3>2. Seen' = Seen /\ Recorded' /\ Entered' /\ DriftExplained' /\ TypesPreregistered'
      BY <3>1, SeenKept, EnteredKept, DriftKept, UnknownKept DEF TInv, Twice
    <3>3. Readings'
      BY <3>1, SameIn DEF TInv, Twice, Readings
    <3>4. Latest'
      BY <3>1, SameText DEF TInv, Twice, Latest, Lexing, Reading, Top
    <3>5. Collecting'
      <4> SUFFICES ASSUME phase = "collect" PROVE Collecting'
        BY <3>1 DEF Collecting
      <4>1. CollectingIn(stack, Seen, Begun(stack, Seen), reg)
        BY DEF TInv, Twice, Collecting
      <4>2. CollectingIn(stack', Seen', Begun(stack', Seen'), reg')
        BY <3>1, <3>2, <4>1
      <4> QED BY <3>1, <4>2, SameIn
    <3>6. Parsing'
      <4> SUFFICES ASSUME phase = "parse" PROVE Parsing'
        BY <3>1 DEF Parsing
      <4>1. ParsingIn(stack, Seen, reg)
        BY DEF TInv, Twice, Parsing
      <4>2. ParsingIn(stack', Seen', reg')
        BY <3>1, <3>2, <4>1
      <4> QED BY <3>1, <4>2, SameIn
    <3> QED BY <3>2, <3>3, <3>4, <3>5, <3>6 DEF Twice
  <2> QED BY <2>1, NextInputTwice, LexItemTwice, CollectUseTwice, CollectTypeTwice, CollectSkipTwice,
             BeginParseTwice, ParseUseTwice, ParseDeclTwice, ReturnTwice, MergeTwice, LinkTwice DEF Next
<1> QED BY <1>1, <1>2 DEF TInv

(* Without macros no type that an input, or a file it reaches, declares is *)
(* unknown to the parse of the input, wherever it is used.                 *)
THEOREM NoTypeUnknown == Spec => []TypesPreregistered
<1>1. TInv => TypesPreregistered
  BY DEF TInv
<1> QED BY InitTInv, TInvNext, <1>1, PTL DEF Spec

(* The two readings of a file give the same tokens, unless a word it       *)
(* mentions is defined by another file or by its own later text.           *)
THEOREM ReadingsAgree == Spec => []DriftExplained
<1>1. TInv => DriftExplained
  BY DEF TInv
<1> QED BY InitTInv, TInvNext, <1>1, PTL DEF Spec

-----------------------------------------------------------------------------
(* FlattenSeq, as the recursive function it is defined by.                 *)
Flattening(s) == CHOOSE f : f = [i \in 1..Len(s) |-> IF i = 1 THEN s[i] ELSE f[i - 1] \o s[i]]
FlatUpto(g, k) == FlattenSeq([i \in 1..k |-> g[i]])

LEMMA FlattenIs ==
    ASSUME NEW s PROVE FlattenSeq(s) = IF Len(s) = 0 THEN s ELSE Flattening(s)[Len(s)]
  BY DEF FlattenSeq, Flattening

LEMMA Joined ==
    ASSUME NEW S, NEW q \in Seq(S), NEW r \in Seq(S)
    PROVE  /\ q \o r \in Seq(S) /\ Len(q \o r) = Len(q) + Len(r) /\ <<>> \o q = q
           /\ \A i \in 1..Len(q) : (q \o r)[i] = q[i]
           /\ \A i \in 1..Len(r) : (q \o r)[Len(q) + i] = r[i]
  OBVIOUS

(* A name for \o that the provers do not look into.                        *)
Cat(q, r) == q \o r

(* Flattening a sequence of sequences adds one at a time.                  *)
Sums(g, n, S) == {h \in [0..n -> Seq(S)] : h[0] = <<>> /\ \A i \in 1..n : h[i] = Cat(h[i - 1], g[i])}

LEMMA SumsIs ==
    ASSUME NEW g, NEW n \in Nat, NEW S, NEW h \in Sums(g, n, S)
    PROVE  /\ h[0] = <<>> /\ \A i \in 0..n : h[i] \in Seq(S)
           /\ \A i \in 1..n : h[i] = Cat(h[i - 1], g[i]) /\ i - 1 \in 0..n /\ i \in 0..n
  BY DEF Sums

LEMMA SumsExist ==
    ASSUME NEW S, NEW n \in Nat, NEW g, \A i \in 1..n : g[i] \in Seq(S)
    PROVE  Sums(g, n, S) # {}
<1> DEFINE A == {m \in Nat : m <= n => Sums(g, m, S) # {}}
<1>1. 0 \in A
  <2>1. [i \in 0..0 |-> <<>>] \in Sums(g, 0, S)
    BY DEF Sums
  <2> QED BY <2>1
<1>2. ASSUME NEW m \in Nat, m \in A PROVE m + 1 \in A
  <2> SUFFICES ASSUME m + 1 <= n PROVE Sums(g, m + 1, S) # {}
    OBVIOUS
  <2>1. PICK h : h \in Sums(g, m, S)
    BY <1>2
  <2>2. m \in 0..m /\ m + 1 \in 1..n /\ h[m] \in Seq(S) /\ g[m + 1] \in Seq(S)
    BY <2>1, SumsIs
  <2> DEFINE new == Cat(h[m], g[m + 1])
             k   == [i \in 0..(m + 1) |-> IF i = m + 1 THEN new ELSE h[i]]
  <2>3. new \in Seq(S)
    BY <2>2, Joined DEF Cat
  <2>4. k \in [0..(m + 1) -> Seq(S)]
    <3> HIDE DEF new
    <3>1. \A i \in 0..m : h[i] \in Seq(S)
      BY <2>1, SumsIs
    <3> QED BY <2>3, <3>1
  <2>5. k[0] = <<>> /\ \A i \in 1..(m + 1) : k[i] = Cat(k[i - 1], g[i])
    <3>1. k[0] = <<>>
      BY <2>1, SumsIs
    <3>2. ASSUME NEW i \in 1..(m + 1) PROVE k[i] = Cat(k[i - 1], g[i])
      <4>1. CASE i = m + 1
        BY <4>1
      <4>2. CASE i # m + 1
        <5>1. i \in 1..m /\ i \in 0..(m + 1) /\ i - 1 \in 0..(m + 1) /\ i - 1 # m + 1
          BY <4>2
        <5>2. k[i] = h[i] /\ k[i - 1] = h[i - 1]
          BY <4>2, <5>1
        <5> QED BY <2>1, <5>1, <5>2, SumsIs
      <4> QED BY <4>1, <4>2
    <3> QED BY <3>1, <3>2
  <2> HIDE DEF k
  <2>6. k \in Sums(g, m + 1, S)
    BY <2>4, <2>5 DEF Sums
  <2> QED BY <2>6
<1>3. Nat \subseteq A
  <2> HIDE DEF A
  <2> QED BY <1>1, <1>2, UpToAll
<1> QED BY <1>3

LEMMA FlatIs ==
    ASSUME NEW S, NEW n \in Nat, NEW g, NEW h \in Sums(g, n, S), NEW k \in 0..n,
           \A i \in 1..n : g[i] \in Seq(S)
    PROVE  FlatUpto(g, k) = h[k]
<1> DEFINE s == [i \in 1..k |-> g[i]]
<1>1. Len(s) = k /\ k \in Nat /\ \A i \in 1..k : i \in 1..n /\ s[i] = g[i]
  OBVIOUS
<1>2. CASE k = 0
  <2>1. s = <<>>
    BY <1>2
  <2> QED BY <1>1, <1>2, <2>1, FlattenIs, SumsIs DEF FlatUpto
<1>3. CASE k # 0
  <2> DEFINE G(f) == [i \in 1..k |-> IF i = 1 THEN s[i] ELSE Cat(f[i - 1], s[i])]
             c    == [i \in 1..k |-> h[i]]
             f    == Flattening(s)
  <2>1. c = G(c)
    <3>1. ASSUME NEW i \in 1..k PROVE h[i] = IF i = 1 THEN s[i] ELSE Cat(c[i - 1], s[i])
      <4>0. i \in 1..n /\ s[i] = g[i]
        BY <1>1
      <4>1. h[i] = Cat(h[i - 1], g[i]) /\ g[i] \in Seq(S) /\ h[0] = <<>>
        <5> HIDE DEF s, c
        <5> QED BY <4>0, SumsIs
      <4>2. CASE i = 1
        <5>1. h[i] = Cat(<<>>, g[i])
          BY <4>1, <4>2
        <5> HIDE DEF s, c
        <5> QED BY <4>0, <4>1, <4>2, <5>1, Joined DEF Cat
      <4>3. CASE i # 1
        <5>1. i - 1 \in 1..k
          BY <4>3
        <5>2. c[i - 1] = h[i - 1]
          BY <5>1
        <5> HIDE DEF c, s
        <5> QED BY <4>0, <4>1, <4>3, <5>2
      <4> QED BY <4>2, <4>3
    <3> QED BY <3>1
  <2>2. f = G(f)
    <3>1. \E x : x = G(x)
      BY <2>1
    <3>2. f = [i \in 1..Len(s) |-> IF i = 1 THEN s[i] ELSE Cat(f[i - 1], s[i])]
      <4>1. \E x : x = [i \in 1..Len(s) |-> IF i = 1 THEN s[i] ELSE Cat(x[i - 1], s[i])]
        BY <1>1, <3>1
      <4> HIDE DEF s
      <4> QED BY <4>1 DEF Flattening, Cat
    <3> QED BY <1>1, <3>2
  <2> HIDE DEF f, c
  <2> DEFINE A == {i \in Nat : i + 1 \in 1..k => f[i + 1] = h[i + 1]}
  <2>3. 0 \in A
    <3>1. 1 \in 1..k /\ 1 \in 1..n
      BY <1>1, <1>3
    <3>2. f[1] = g[1]
      BY <1>1, <2>2, <3>1
    <3>3. h[1] = Cat(h[0], g[1]) /\ h[0] = <<>> /\ g[1] \in Seq(S)
      BY <3>1, SumsIs
    <3>4. h[1] = g[1]
      BY <3>3, Joined DEF Cat
    <3> QED BY <3>2, <3>4
  <2>4. ASSUME NEW i \in Nat, i \in A PROVE i + 1 \in A
    <3> SUFFICES ASSUME (i + 1) + 1 \in 1..k PROVE f[(i + 1) + 1] = h[(i + 1) + 1]
      OBVIOUS
    <3> DEFINE j == (i + 1) + 1
    <3>1. j \in 1..k /\ j \in 1..n /\ j # 1 /\ j - 1 = i + 1 /\ i + 1 \in 1..k
      BY <1>1
    <3>2. f[j - 1] = h[j - 1]
      BY <2>4, <3>1
    <3>3. h[j] = Cat(h[j - 1], g[j])
      BY <3>1, SumsIs
    <3>4. f[j] = Cat(f[j - 1], g[j])
      <4> HIDE DEF j
      <4> QED BY <1>1, <2>2, <3>1
    <3> QED BY <3>2, <3>3, <3>4
  <2>5. Nat \subseteq A
    <3> HIDE DEF A
    <3> QED BY <2>3, <2>4, UpToAll
  <2>6. k - 1 \in Nat /\ (k - 1) + 1 = k /\ k \in 1..k
    BY <1>1, <1>3
  <2>7. f[k] = h[k]
    BY <2>5, <2>6
  <2>8. FlattenSeq(s) = f[k]
    <3> HIDE DEF s
    <3> QED BY <1>1, <1>3, FlattenIs DEF f
  <2> QED BY <2>7, <2>8 DEF FlatUpto
<1> QED BY <1>2, <1>3

Seqs(g, n, S) == \A i \in 1..n : g[i] \in Seq(S)

LEMMA FlatStep ==
    ASSUME NEW S, NEW n \in Nat, NEW g, Seqs(g, n, S)
    PROVE  /\ FlatUpto(g, 0) = <<>>
           /\ \A k \in 0..n : FlatUpto(g, k) \in Seq(S)
           /\ \A k \in 1..n : FlatUpto(g, k) = Cat(FlatUpto(g, k - 1), g[k])
<1>0. \A i \in 1..n : g[i] \in Seq(S)
  BY DEF Seqs
<1>1. PICK h : h \in Sums(g, n, S)
  BY <1>0, SumsExist
<1>2. \A k \in 0..n : FlatUpto(g, k) = h[k]
  BY <1>0, <1>1, FlatIs
<1>3. \A k \in 1..n : k \in 0..n /\ k - 1 \in 0..n
  OBVIOUS
<1>4. 0 \in 0..n
  OBVIOUS
<1>5. FlatUpto(g, 0) = <<>>
  BY <1>1, <1>2, <1>4, SumsIs
<1>6. ASSUME NEW k \in 0..n PROVE FlatUpto(g, k) \in Seq(S)
  BY <1>1, <1>2, SumsIs
<1>7. ASSUME NEW k \in 1..n PROVE FlatUpto(g, k) = Cat(FlatUpto(g, k - 1), g[k])
  <2>1. h[k] = Cat(h[k - 1], g[k])
    BY <1>1, SumsIs
  <2> QED BY <1>2, <1>3, <2>1
<1> QED BY <1>5, <1>6, <1>7

(* What is said in the place of an item, and the files read for it.        *)
Saids == [k : Kinds, of : Known, path : Paths]
Texts == [Paths -> Seq(Saids)]
Tours == [Paths -> Seq(Paths)]
Pieces(input, p, texts) ==
    [i \in 1..Len(Text(p)) |-> IF Text(p)[i].k = "@use" THEN UsedBy(Text(p)[i], input, texts)
                               ELSE <<Said(Text(p)[i])>>]
Ways(input, p, visits) ==
    [i \in 1..Len(Text(p)) |-> IF Text(p)[i].k = "@use" THEN UsedBy(Text(p)[i], input, visits)
                               ELSE <<>>]
Flats(input) == CHOOSE flat : flat = [n \in Nat |-> [p \in Paths |->
                   IF n = 0 THEN <<>> ELSE InPlace(input, p, flat[n - 1])]]
Visits(input) == CHOOSE visits : visits = [n \in Nat |-> [p \in Paths |->
                   IF n = 0 THEN <<>> ELSE Visiting(input, p, visits[n - 1])]]

LEMMA InlinedIs == ASSUME NEW input PROVE Inlined(input) = Flats(input)[MaxStack][input]
  BY DEF Inlined, Flats

LEMMA VisitedIs == ASSUME NEW input PROVE Visited(input) = Visits(input)[MaxStack][input]
  BY DEF Visited, Visits

LEMMA ResolveType ==
    ASSUME NEW base \in Paths, NEW rel \in Paths PROVE Resolve(base, rel) \in Paths
  BY DEF Resolve, Paths

LEMMA ItemType ==
    ASSUME World, NEW p \in Paths, NEW i \in 1..Len(Text(p)), NEW input \in Paths
    PROVE  /\ Text(p)[i] \in Item /\ Text(p)[i].path \in Paths
           /\ Resolve(input, Text(p)[i].path) \in Paths
           /\ Said(Text(p)[i]) \in Saids
<1>1. Text(p)[i] \in Item
  BY TextType
<1>2. Text(p)[i].path \in Paths /\ Text(p)[i].k \in Kinds /\ Text(p)[i].of \in Known
  BY <1>1 DEF Item, Known
<1>3. Kind(Text(p)[i]) \in Kinds
  BY <1>2 DEF Kind, Kinds
<1> QED BY <1>1, <1>2, <1>3, ResolveType DEF Said, Saids

LEMMA PiecesType ==
    ASSUME World, NEW p \in Paths, NEW input \in Paths, NEW texts \in Texts
    PROVE  /\ Len(Pieces(input, p, texts)) = Len(Text(p)) /\ Len(Text(p)) \in Nat
           /\ \A i \in 1..Len(Text(p)) : Pieces(input, p, texts)[i] \in Seq(Saids)
           /\ InPlace(input, p, texts) = FlatUpto(Pieces(input, p, texts), Len(Text(p)))
           /\ InPlace(input, p, texts) \in Seq(Saids)
<1> DEFINE g == Pieces(input, p, texts)
<1>1. Len(Text(p)) \in Nat
  BY TextType
<1>2. Len(g) = Len(Text(p))
  BY <1>1 DEF Pieces
<1>3. ASSUME NEW i \in 1..Len(Text(p)) PROVE g[i] \in Seq(Saids)
  <2>1. Resolve(input, Text(p)[i].path) \in Paths /\ Said(Text(p)[i]) \in Saids
    BY ItemType
  <2>2. UsedBy(Text(p)[i], input, texts) \in Seq(Saids)
    BY <2>1 DEF Texts, UsedBy
  <2>3. <<Said(Text(p)[i])>> \in Seq(Saids)
    BY <2>1
  <2> QED BY <2>2, <2>3 DEF Pieces
<1>4. InPlace(input, p, texts) = FlatUpto(g, Len(Text(p)))
  <2>1. [i \in 1..Len(Text(p)) |-> g[i]] = g
    BY DEF Pieces
  <2> QED BY <2>1 DEF InPlace, FlatUpto, Pieces
<1>5. FlatUpto(g, Len(Text(p))) \in Seq(Saids)
  <2> HIDE DEF g
  <2>1. Seqs(g, Len(Text(p)), Saids)
    BY <1>3 DEF Seqs
  <2> QED BY <1>1, <2>1, FlatStep
<1> QED BY <1>1, <1>2, <1>3, <1>4, <1>5

LEMMA WaysType ==
    ASSUME World, NEW p \in Paths, NEW input \in Paths, NEW visits \in Tours
    PROVE  /\ Len(Text(p)) \in Nat
           /\ \A i \in 1..Len(Text(p)) : Ways(input, p, visits)[i] \in Seq(Paths)
           /\ Visiting(input, p, visits) = <<p>> \o FlatUpto(Ways(input, p, visits), Len(Text(p)))
           /\ Visiting(input, p, visits) \in Seq(Paths)
<1> DEFINE g == Ways(input, p, visits)
<1>1. Len(Text(p)) \in Nat
  BY TextType
<1>3. ASSUME NEW i \in 1..Len(Text(p)) PROVE g[i] \in Seq(Paths)
  <2>1. Resolve(input, Text(p)[i].path) \in Paths
    BY ItemType
  <2>2. UsedBy(Text(p)[i], input, visits) \in Seq(Paths)
    BY <2>1 DEF Tours, UsedBy
  <2> QED BY <2>2 DEF Ways
<1>4. Visiting(input, p, visits) = <<p>> \o FlatUpto(g, Len(Text(p)))
  <2>1. [i \in 1..Len(Text(p)) |-> g[i]] = g
    BY DEF Ways
  <2> QED BY <2>1 DEF Visiting, FlatUpto, Ways
<1>5. FlatUpto(g, Len(Text(p))) \in Seq(Paths)
  <2> HIDE DEF g
  <2>1. Seqs(g, Len(Text(p)), Paths)
    BY <1>3 DEF Seqs
  <2> QED BY <1>1, <2>1, FlatStep
<1>6. <<p>> \o FlatUpto(g, Len(Text(p))) \in Seq(Paths)
  BY <1>5
<1> QED BY <1>1, <1>3, <1>4, <1>6

LEMMA FlatsAre ==
    ASSUME World, NEW input \in Paths
    PROVE  /\ \A n \in Nat : Flats(input)[n] \in Texts
           /\ \A p \in Paths : Flats(input)[0][p] = <<>>
           /\ \A n \in Nat, p \in Paths :
                 Flats(input)[n + 1][p] = InPlace(input, p, Flats(input)[n])
<1> DEFINE w == [p \in Paths |-> <<>>]
           F == [t \in Texts |-> [p \in Paths |-> InPlace(input, p, t)]]
           G(g) == [n \in Nat |-> [p \in Paths |-> IF n = 0 THEN <<>> ELSE InPlace(input, p, g[n - 1])]]
<1>1. w \in Texts
  BY DEF Texts
<1>2. Within(F, Texts)
  <2>1. ASSUME NEW t \in Texts PROVE [p \in Paths |-> InPlace(input, p, t)] \in Texts
    BY PiecesType DEF Texts
  <2> QED BY <2>1 DEF Within
<1>3. PICK f \in [Nat -> Texts] : f[0] = w /\ \A n \in Nat : f[n + 1] = F[f[n]]
  <2> HIDE DEF F, w
  <2> QED BY <1>1, <1>2, Iterable
<1>4. f = G(f)
  <2>1. ASSUME NEW n \in Nat PROVE f[n] = G(f)[n]
    <3>1. CASE n = 0
      BY <1>3, <3>1
    <3>2. CASE n # 0
      <4>1. n - 1 \in Nat /\ (n - 1) + 1 = n
        BY <3>2
      <4>2. f[n] = F[f[n - 1]] /\ f[n - 1] \in Texts
        BY <1>3, <4>1
      <4>3. f[n] = [p \in Paths |-> InPlace(input, p, f[n - 1])]
        BY <4>2
      <4> QED BY <3>2, <4>3
    <3> QED BY <3>1, <3>2
  <2>2. DOMAIN f = Nat /\ f = [n \in Nat |-> f[n]]
    BY <1>3
  <2> HIDE DEF F, w
  <2> QED BY <2>1, <2>2
<1>5. Flats(input) = G(Flats(input))
  <2>1. \E g : g = G(g)
    BY <1>4
  <2> QED BY <2>1 DEF Flats
<1> DEFINE a == Flats(input)
<1>6. /\ \A p \in Paths : a[0][p] = <<>>
      /\ a[0] = w
      /\ \A n \in Nat : a[n + 1] = [p \in Paths |-> InPlace(input, p, a[n])]
  <2> HIDE DEF a
  <2>1. a = G(a)
    BY <1>5 DEF a
  <2>2. a[0] = w /\ \A p \in Paths : a[0][p] = <<>>
    BY <2>1
  <2>3. ASSUME NEW n \in Nat PROVE a[n + 1] = [p \in Paths |-> InPlace(input, p, a[n])]
    <3>1. n + 1 \in Nat /\ n + 1 # 0 /\ (n + 1) - 1 = n
      OBVIOUS
    <3> QED BY <2>1, <3>1
  <2> QED BY <2>2, <2>3
<1>7. \A n \in Nat : a[n] \in Texts
  <2> DEFINE B == {n \in Nat : a[n] \in Texts}
  <2>1. 0 \in B
    BY <1>1, <1>6
  <2>2. ASSUME NEW n \in Nat, n \in B PROVE n + 1 \in B
    <3>1. a[n + 1] = F[a[n]]
      BY <1>6, <2>2
    <3> HIDE DEF F, a
    <3> QED BY <1>2, <2>2, <3>1 DEF Within
  <2>3. Nat \subseteq B
    <3> HIDE DEF B
    <3> QED BY <2>1, <2>2, UpToAll
  <2> QED BY <2>3
<1> QED BY <1>6, <1>7

LEMMA VisitsAre ==
    ASSUME World, NEW input \in Paths
    PROVE  /\ \A n \in Nat : Visits(input)[n] \in Tours
           /\ \A p \in Paths : Visits(input)[0][p] = <<>>
           /\ \A n \in Nat, p \in Paths :
                 Visits(input)[n + 1][p] = Visiting(input, p, Visits(input)[n])
<1> DEFINE w == [p \in Paths |-> <<>>]
           F == [t \in Tours |-> [p \in Paths |-> Visiting(input, p, t)]]
           G(g) == [n \in Nat |-> [p \in Paths |-> IF n = 0 THEN <<>> ELSE Visiting(input, p, g[n - 1])]]
<1>1. w \in Tours
  BY DEF Tours
<1>2. Within(F, Tours)
  <2>1. ASSUME NEW t \in Tours PROVE [p \in Paths |-> Visiting(input, p, t)] \in Tours
    BY WaysType DEF Tours
  <2> QED BY <2>1 DEF Within
<1>3. PICK f \in [Nat -> Tours] : f[0] = w /\ \A n \in Nat : f[n + 1] = F[f[n]]
  <2> HIDE DEF F, w
  <2> QED BY <1>1, <1>2, Iterable
<1>4. f = G(f)
  <2>1. ASSUME NEW n \in Nat PROVE f[n] = G(f)[n]
    <3>1. CASE n = 0
      BY <1>3, <3>1
    <3>2. CASE n # 0
      <4>1. n - 1 \in Nat /\ (n - 1) + 1 = n
        BY <3>2
      <4>2. f[n] = F[f[n - 1]] /\ f[n - 1] \in Tours
        BY <1>3, <4>1
      <4>3. f[n] = [p \in Paths |-> Visiting(input, p, f[n - 1])]
        BY <4>2
      <4> QED BY <3>2, <4>3
    <3> QED BY <3>1, <3>2
  <2>2. DOMAIN f = Nat /\ f = [n \in Nat |-> f[n]]
    BY <1>3
  <2> HIDE DEF F, w
  <2> QED BY <2>1, <2>2
<1>5. Visits(input) = G(Visits(input))
  <2>1. \E g : g = G(g)
    BY <1>4
  <2> QED BY <2>1 DEF Visits
<1> DEFINE a == Visits(input)
<1>6. /\ \A p \in Paths : a[0][p] = <<>>
      /\ a[0] = w
      /\ \A n \in Nat : a[n + 1] = [p \in Paths |-> Visiting(input, p, a[n])]
  <2> HIDE DEF a
  <2>1. a = G(a)
    BY <1>5 DEF a
  <2>2. a[0] = w /\ \A p \in Paths : a[0][p] = <<>>
    BY <2>1
  <2>3. ASSUME NEW n \in Nat PROVE a[n + 1] = [p \in Paths |-> Visiting(input, p, a[n])]
    <3>1. n + 1 \in Nat /\ n + 1 # 0 /\ (n + 1) - 1 = n
      OBVIOUS
    <3> QED BY <2>1, <3>1
  <2> QED BY <2>2, <2>3
<1>7. \A n \in Nat : a[n] \in Tours
  <2> DEFINE B == {n \in Nat : a[n] \in Tours}
  <2>1. 0 \in B
    BY <1>1, <1>6
  <2>2. ASSUME NEW n \in Nat, n \in B PROVE n + 1 \in B
    <3>1. a[n + 1] = F[a[n]]
      BY <1>6, <2>2
    <3> HIDE DEF F, a
    <3> QED BY <1>2, <2>2, <3>1 DEF Within
  <2>3. Nat \subseteq B
    <3> HIDE DEF B
    <3> QED BY <2>1, <2>2, UpToAll
  <2> QED BY <2>3
<1> QED BY <1>6, <1>7

-----------------------------------------------------------------------------
(* A frame holds what the first k items of its file say.  It is reading    *)
(* another one for the item before its position.                           *)
SaidUpto(f, level, k) == f.decls = FlatUpto(Pieces(Input, f.path, Flats(Input)[level]), k)
Using(f, g) == /\ f.pos \in 1..Len(Text(f.path)) /\ Text(f.path)[f.pos].k = "@use"
               /\ g.path = Resolve(Input, Text(f.path)[f.pos].path)
Waits(f, g, level) == Using(f, g) /\ SaidUpto(f, level, f.pos - 1)
SplicingIn(s) == /\ SaidUpto(s[Len(s)], MaxStack - Len(s), s[Len(s)].pos)
                 /\ \A f \in 1..(Len(s) - 1) : Waits(s[f], s[f + 1], MaxStack - f)
Splicing == NoMacros /\ phase = "parse" => SplicingIn(stack)
Silent   == phase = "collect" => \A f \in 1..Len(stack) : stack[f].decls = <<>>

(* The program is what the inputs merged say.                              *)
Whole(k)    == FlatUpto([n \in 1..Len(inputs) |-> Inlined(inputs[n])], k)
Speech      == [i \in 1..Len(program) |-> Declared(i)]
Merging     == phase \in {"collect", "parse"} => Speech = Whole(done - 1)
Merged      == phase \in {"next", "accepted"} => Speech = Whole(done)
Programmed  == NoMacros => Merging /\ Merged
Linked      == phase = "accepted" => done = Len(inputs) /\ ~Duplicate

Spells == Splicing /\ Silent /\ Programmed /\ Linked
SInv   == TInv /\ Spells
-----------------------------------------------------------------------------
(* Without macros tokens are the items, one for one.                       *)
LEMMA RankPlain ==
    ASSUME World, NoMacros, NEW p \in Paths, NEW n \in 0..Len(Text(p))
    PROVE  Spoken(p, n) = 1..n /\ Rank(p, n) = n
<1>1. Len(Text(p)) \in Nat
  BY TextType
<1>2. Spoken(p, n) = 1..n
  BY <1>1 DEF Spoken, NoMacros
<1>3. n \in Nat
  BY <1>1
<1>4. Cardinality(1..n) = n
  <2>1. Cardinality(1..n) = IF 1 > n THEN 0 ELSE n - 1 + 1
    BY <1>3, FS_Interval
  <2> QED BY <1>3, <2>1
<1> QED BY <1>2, <1>4 DEF Rank

LEMMA TokPlain ==
    ASSUME World, TypeOK, Readings, NoMacros, NEW ks, At(ks)
    PROVE  LET p == Top.path
           IN  /\ p \in Paths /\ Len(Text(p)) \in Nat /\ Top.pos \in Nat
               /\ Top.pos + 1 \in 1..Len(Text(p))
               /\ Tok.k = Text(p)[Top.pos + 1].k /\ Tok.path = Text(p)[Top.pos + 1].path
               /\ Tok.of = Text(p)[Top.pos + 1].of
<1> DEFINE p == Top.path
<1>1. /\ p \in Paths /\ Len(Text(p)) \in Nat /\ Top.pos \in Nat
  BY TokRead
<1>2. PICK i \in Spoken(p, Len(Text(p))) : Rank(p, i) = Top.pos + 1
  BY TokRead
<1>3. i \in 1..Len(Text(p))
  BY <1>2 DEF Spoken
<1>4. i \in 0..Len(Text(p))
  BY <1>1, <1>3
<1>5. i = Top.pos + 1
  BY <1>1, <1>2, <1>4, RankPlain
<1> QED BY <1>1, <1>2, <1>3, <1>5, TokRead

LEMMA EndPlain ==
    ASSUME World, TypeOK, Readings, NoMacros, AtEnd
    PROVE  Top.path \in Paths /\ Len(Text(Top.path)) \in Nat /\ Top.pos = Len(Text(Top.path))
<1> DEFINE p == Top.path
<1>1. /\ Reading /\ Len(stack) > 0
      /\ Len(stack) \in 1..Len(stack) /\ Top = stack[Len(stack)] /\ Top.path \in Paths
      /\ Top.lex \in Nat /\ Top.lex <= Len(Text(p)) /\ Top.pos = Len(Top.toks)
  BY InputType, TopType DEF AtEnd
<1>2. Len(Text(p)) \in Nat /\ ~(Top.lex < Len(Text(p)))
  BY <1>1, TextType DEF AtEnd, Lexing
<1>3. Top.lex = Len(Text(p))
  BY <1>1, <1>2
<1>4. Top.pos = Rank(p, Len(Text(p)))
  BY <1>1, <1>3 DEF Readings, ReadingsOf, SoFar, Reads
<1>5. Len(Text(p)) \in 0..Len(Text(p))
  BY <1>2
<1> QED BY <1>1, <1>2, <1>4, <1>5, RankPlain

(* What a disk says stays as it is.                                        *)
LEMMA SameSplice ==
    ASSUME disk' = disk
    PROVE  /\ \A input, p, texts : Pieces(input, p, texts)' = Pieces(input, p, texts)
           /\ \A input : Flats(input)' = Flats(input) /\ Inlined(input)' = Inlined(input)
<1>1. \A p : Text(p)' = Text(p)
  BY SameText
<1>2. ASSUME NEW input, NEW p, NEW texts PROVE InPlace(input, p, texts)' = InPlace(input, p, texts)
  BY <1>1 DEF InPlace
<1>3. ASSUME NEW input, NEW p, NEW texts PROVE Pieces(input, p, texts)' = Pieces(input, p, texts)
  BY <1>1 DEF Pieces
<1>4. ASSUME NEW input PROVE Flats(input)' = Flats(input)
  BY <1>2 DEF Flats
<1>5. ASSUME NEW input PROVE Inlined(input)' = Inlined(input)
  BY <1>2 DEF Inlined
<1> QED BY <1>3, <1>4, <1>5

LEMMA SameSplicing ==
    ASSUME Same, phase' = "parse", SplicingIn(stack') PROVE Splicing'
<1>1. \A p : Text(p)' = Text(p)
  BY SameText DEF Same
<1>2. \A f, level, k : SaidUpto(f, level, k)' = SaidUpto(f, level, k)
  BY SameSplice DEF Same, SaidUpto
<1>3. \A f, g, level : Waits(f, g, level)' = Waits(f, g, level)
  BY <1>1, <1>2 DEF Same, Waits, Using
<1> QED BY <1>2, <1>3 DEF Splicing, SplicingIn

LEMMA SameProgram ==
    ASSUME disk' = disk, inputs' = inputs
    PROVE  /\ \A k : Whole(k)' = Whole(k)
           /\ program' = program => Speech' = Speech /\ Duplicate' = Duplicate
           /\ NoMacros' = NoMacros
<1>1. NoMacros' = NoMacros
  BY SameDisk
<1>2. \A n : Inlined(inputs[n])' = Inlined(inputs[n])
  BY SameSplice
<1>3. \A k : Whole(k)' = Whole(k)
  BY <1>2 DEF Whole
<1>4. program' = program => Speech' = Speech /\ Duplicate' = Duplicate
  BY DEF Speech, Declared, Duplicate
<1> QED BY <1>1, <1>3, <1>4

(* Steps that leave the program and stay in phase.                         *)
LEMMA ProgramKept ==
    ASSUME Spells, UNCHANGED <<disk, inputs, done, program>>,
           \/ phase' = phase /\ phase # "accepted"
           \/ phase = "collect" /\ phase' = "parse"
           \/ phase' = "stack overflow"
    PROVE  Programmed' /\ Linked'
<1>1. Speech' = Speech /\ NoMacros' = NoMacros /\ \A k : Whole(k)' = Whole(k)
  BY SameProgram
<1> QED BY <1>1 DEF Spells, Programmed, Merging, Merged, Linked

LEMMA OneMore ==
    ASSUME World, NEW p \in Paths, NEW input \in Paths, NEW n \in Nat, NEW k \in 1..Len(Text(p))
    PROVE  LET g == Pieces(input, p, Flats(input)[n])
           IN  FlatUpto(g, k) = Cat(FlatUpto(g, k - 1), g[k]) /\ FlatUpto(g, 0) = <<>>
<1>1. Flats(input)[n] \in Texts
  BY FlatsAre
<1> DEFINE g == Pieces(input, p, Flats(input)[n])
<1>2. Seqs(g, Len(Text(p)), Saids) /\ Len(Text(p)) \in Nat
  BY <1>1, PiecesType DEF Seqs
<1> HIDE DEF g
<1>3. FlatUpto(g, 0) = <<>> /\ FlatUpto(g, k) = Cat(FlatUpto(g, k - 1), g[k])
  BY <1>2, FlatStep
<1> QED BY <1>3 DEF g

LEMMA NoneYet == ASSUME NEW g PROVE FlatUpto(g, 0) = <<>>
<1>1. [i \in 1..0 |-> g[i]] = <<>>
  OBVIOUS
<1> QED BY <1>1, FlattenIs DEF FlatUpto

(* A step that leaves the frames below the top and what they wait for.     *)
LEMMA SplicingTop ==
    ASSUME NEW s, NEW t, SplicingIn(s), Len(t) = Len(s), Len(s) \in Nat, Len(s) > 0,
           \A i \in 1..Len(s) : i # Len(s) => t[i] = s[i],
           t[Len(s)].path = s[Len(s)].path,
           SaidUpto(t[Len(s)], MaxStack - Len(s), t[Len(s)].pos)
    PROVE  SplicingIn(t)
<1>1. ASSUME NEW f \in 1..(Len(s) - 1) PROVE Waits(t[f], t[f + 1], MaxStack - f)
  <2>1. f \in 1..Len(s) /\ f + 1 \in 1..Len(s) /\ f # Len(s)
    OBVIOUS
  <2>2. t[f] = s[f] /\ t[f + 1].path = s[f + 1].path
    <3>1. CASE f + 1 = Len(s)
      BY <2>1, <3>1
    <3>2. CASE f + 1 # Len(s)
      BY <2>1, <3>2
    <3> QED BY <3>1, <3>2
  <2>3. Waits(s[f], s[f + 1], MaxStack - f)
    BY DEF SplicingIn
  <2> QED BY <2>2, <2>3 DEF Waits, Using
<1> QED BY <1>1 DEF SplicingIn

LEMMA LexItemSpells == ASSUME SInv, LexItem PROVE Spells'
<1>0. World /\ TypeOK /\ TypesFlowDown /\ Reading
  BY DEF SInv, TInv, IInv, LexItem, Lexing
<1>1. /\ Lexed.path = Top.path /\ Lexed.pos = Top.pos /\ Lexed.decls = Top.decls
      /\ Len(stack) \in Nat /\ Len(stack) \in 1..Len(stack) /\ Top = stack[Len(stack)]
      /\ Len(stack') = Len(stack)
      /\ \A i \in 1..Len(stack) : stack'[i] = IF i = Len(stack) THEN Lexed ELSE stack[i]
  BY <1>0, LexShape
<1>2. Same /\ phase' = phase /\ UNCHANGED <<disk, inputs, done, program>>
  BY DEF LexItem, Same, Input, result
<1>3. Splicing'
  <2> SUFFICES ASSUME NoMacros', phase = "parse" PROVE Splicing'
    BY <1>2 DEF Splicing
  <2>1. SplicingIn(stack)
    BY <1>2, SameDisk DEF SInv, Spells, Splicing
  <2>2. SaidUpto(Lexed, MaxStack - Len(stack), Lexed.pos)
    BY <1>1, <2>1 DEF SplicingIn, SaidUpto
  <2>3. SplicingIn(stack')
    <3>1. Len(stack) > 0
      BY <1>1
    <3>2. stack'[Len(stack)] = Lexed /\ stack'[Len(stack)].path = stack[Len(stack)].path
      BY <1>1
    <3> DEFINE t == stack'
    <3>3. Len(t) = Len(stack) /\ \A i \in 1..Len(stack) : i # Len(stack) => t[i] = stack[i]
      BY <1>1
    <3>4. t[Len(stack)].path = stack[Len(stack)].path
          /\ SaidUpto(t[Len(stack)], MaxStack - Len(stack), t[Len(stack)].pos)
      BY <2>2, <3>2
    <3> HIDE DEF t
    <3>5. SplicingIn(t)
      BY <1>1, <2>1, <3>1, <3>3, <3>4, SplicingTop
    <3> QED BY <3>5 DEF t
  <2> QED BY <1>2, <2>3, SameSplicing
<1>4. Silent'
  BY <1>1, <1>2 DEF SInv, Spells, Silent
<1>5. Programmed' /\ Linked'
  BY <1>0, <1>2, ProgramKept DEF SInv, Reading
<1> QED BY <1>3, <1>4, <1>5 DEF Spells

(* A step of phase "collect" at a token that stays in the file.            *)
LEMMA CollectSpells ==
    ASSUME SInv, phase = "collect", NEW ks, At(ks), NEW f, Later(f), f.decls = Top.decls,
           stack' = SetTop(f), UNCHANGED <<disk, inputs, done, program, phase>>
    PROVE  Spells'
<1>0. World /\ TypeOK /\ TypesFlowDown
  BY DEF SInv, TInv, IInv
<1>1. /\ Len(stack') = Len(stack) /\ Top = stack[Len(stack)] /\ Len(stack) \in 1..Len(stack)
      /\ \A i \in 1..Len(stack) : stack'[i] = IF i = Len(stack) THEN f ELSE stack[i]
  BY <1>0, TopMoved
<1>2. Silent'
  BY <1>1 DEF SInv, Spells, Silent
<1>3. Programmed' /\ Linked'
  BY ProgramKept DEF SInv
<1> QED BY <1>2, <1>3 DEF Spells, Splicing

LEMMA CollectSkipSpells == ASSUME SInv, CollectSkip PROVE Spells'
<1>0. World /\ TypeOK /\ At({"use", "fn", "oldfn"}) /\ phase = "collect"
  BY DEF SInv, TInv, IInv, CollectSkip
<1>1. Later(Past) /\ Past.decls = Top.decls
  BY <1>0, PastLater, PastParts
<1>2. stack' = SetTop(Past) /\ UNCHANGED <<disk, inputs, done, program, phase>>
  BY DEF CollectSkip
<1> QED BY <1>0, <1>1, <1>2, CollectSpells

LEMMA CollectTypeSpells == ASSUME SInv, CollectType PROVE Spells'
<1>0. World /\ TypeOK /\ At({"type"}) /\ phase = "collect"
  BY DEF SInv, TInv, IInv, CollectType
<1> DEFINE types == Top.types \cup {Tok.of}
           f     == Taught(Past, types, Past.decls)
<1>1. types \in SUBSET Known /\ Top.types \subseteq types
  BY <1>0, TokType, TopType
<1>2. Past \in Frame /\ Past.decls \in Seq(Decl) /\ Past.decls = Top.decls
  BY <1>0, PastParts
<1>3. [Past EXCEPT !.types = types] = f
  BY <1>2 DEF Taught, Frame
<1>4. stack' = SetTop(f) /\ UNCHANGED <<disk, inputs, done, program, phase>>
  BY <1>3 DEF CollectType
<1> HIDE DEF types
<1>5. Later(f) /\ f.decls = Top.decls
  BY <1>0, <1>1, <1>2, PastTaught, TaughtType
<1> HIDE DEF f
<1> QED BY <1>0, <1>4, <1>5, CollectSpells

LEMMA ParseDeclSpells == ASSUME SInv, ParseDecl PROVE Spells'
<1>0. /\ World /\ TypeOK /\ TypesFlowDown /\ Readings /\ Reading /\ phase = "parse"
      /\ At({"use", "type", "fn", "oldfn"})
  BY DEF SInv, TInv, Twice, IInv, ParseDecl, Reading
<1> DEFINE kind  == IF Tok.k = "oldfn" THEN "fn" ELSE Tok.k
           types == IF kind = "type" THEN Top.types \cup {Tok.of} ELSE Top.types
           decl  == [k |-> kind, of |-> Tok.of, path |-> Tok.path]
           f     == Taught(Past, types, Append(Past.decls, decl))
<1>1. /\ Tok.of \in Known /\ Top.types \in SUBSET Known /\ Tok.path \in Paths
      /\ Tok.k \in {"use", "type", "fn", "oldfn"}
  BY <1>0, TokType, TopType
<1>2. types \in SUBSET Known /\ Top.types \subseteq types /\ decl \in Decl
  BY <1>1 DEF Decl, Known
<1>3. /\ Past \in Frame /\ Append(Past.decls, decl) \in Seq(Decl) /\ Past.decls = Top.decls
      /\ Past.path = Top.path /\ Past.pos = Top.pos + 1 /\ Top.decls \in Seq(Decl)
  BY <1>0, <1>2, PastParts, Push
<1>4. [Past EXCEPT !.types = types, !.decls = Append(@, decl)] = f
  <2> HIDE DEF types, decl
  <2> QED BY <1>3 DEF Taught, Frame
<1>5. stack' = SetTop(f) /\ UNCHANGED <<disk, inputs, done, program, phase>>
  BY <1>4 DEF ParseDecl
<1>6. /\ f.path = Top.path /\ f.pos = Top.pos + 1 /\ f.decls = Append(Top.decls, decl)
      /\ Later(f)
  <2> DEFINE decls == Append(Past.decls, decl)
  <2> HIDE DEF types, decl
  <2>1. Later(f)
    BY <1>0, <1>2, <1>3, PastTaught
  <2>2. decls \in Seq(Decl) /\ decls = Append(Top.decls, decl) /\ f = Taught(Past, types, decls)
    BY <1>3
  <2> HIDE DEF decls, f
  <2>3. f.path = Past.path /\ f.pos = Past.pos /\ f.decls = decls
    BY <1>2, <1>3, <2>2, TaughtType
  <2> QED BY <1>3, <2>1, <2>2, <2>3
<1> HIDE DEF f, types
<1>7. Same
  BY <1>5 DEF Same, Input
<1>8. Splicing'
  <2> SUFFICES ASSUME NoMacros' PROVE Splicing'
    BY DEF Splicing
  <2>0. NoMacros
    BY <1>5, SameDisk
  <2>1. SplicingIn(stack)
    BY <1>0, <2>0 DEF SInv, Spells, Splicing
  <2>2. /\ Len(SetTop(f)) = Len(stack) /\ Len(stack) \in 1..Len(stack) /\ Len(stack) \in Nat
        /\ Top = stack[Len(stack)]
        /\ \A i \in 1..Len(stack) : SetTop(f)[i] = IF i = Len(stack) THEN f ELSE stack[i]
    BY <1>0, <1>6, TopMoved
  <2> DEFINE p == Top.path
             k == Top.pos + 1
             n == MaxStack - Len(stack)
             g == Pieces(Input, p, Flats(Input)[n])
  <2>3. /\ p \in Paths /\ k \in 1..Len(Text(p)) /\ Top.pos \in Nat /\ k - 1 = Top.pos
        /\ Tok.k = Text(p)[k].k /\ Tok.path = Text(p)[k].path /\ Tok.of = Text(p)[k].of
    BY <1>0, <2>0, TokPlain
  <2>4. n \in Nat /\ Input \in Paths
    BY <1>0, <2>2, InputType, BoundAssumption DEF TypeOK
  <2>5. g[k] = <<decl>>
    <3>1. Text(p)[k].k # "@use" /\ Said(Text(p)[k]) = decl
      BY <1>1, <2>3 DEF Said, Kind
    <3> HIDE DEF decl, k
    <3> QED BY <2>3, <3>1 DEF Pieces
  <2>6. Top.decls = FlatUpto(g, Top.pos)
    BY <2>1, <2>2 DEF SplicingIn, SaidUpto
  <2>7. FlatUpto(g, k) = Cat(FlatUpto(g, k - 1), g[k])
    <3> HIDE DEF k, p, n
    <3> QED BY <1>0, <2>3, <2>4, OneMore
  <2>8. FlatUpto(g, k) = Append(Top.decls, decl)
    <3> HIDE DEF g, k, decl
    <3> QED BY <1>3, <2>3, <2>5, <2>6, <2>7 DEF Cat
  <2>9. SaidUpto(f, n, f.pos)
    BY <1>6, <2>8 DEF SaidUpto
  <2>10. SplicingIn(stack')
    <3> DEFINE t == SetTop(f)
    <3>1. Len(stack) > 0 /\ Len(t) = Len(stack) /\ \A i \in 1..Len(stack) : i # Len(stack) => t[i] = stack[i]
      BY <2>2
    <3>2. t[Len(stack)].path = stack[Len(stack)].path
          /\ SaidUpto(t[Len(stack)], MaxStack - Len(stack), t[Len(stack)].pos)
      BY <1>6, <2>2, <2>9
    <3> HIDE DEF t
    <3>3. SplicingIn(t)
      BY <2>1, <2>2, <3>1, <3>2, SplicingTop
    <3> QED BY <1>5, <3>3 DEF t
  <2> QED BY <1>0, <1>5, <1>7, <2>10, SameSplicing
<1>9. Silent'
  BY <1>0, <1>5 DEF Silent
<1>10. Programmed' /\ Linked'
  BY <1>0, <1>5, ProgramKept DEF SInv
<1> QED BY <1>8, <1>9, <1>10 DEF Spells

(* A used file goes on top: its user waits for it, at the item before its  *)
(* new position.                                                           *)
LEMMA ReadUsedSpells ==
    ASSUME SInv, At({"@use"}), NEW types \in SUBSET Known, ReadUsed(types)
    PROVE  Spells'
<1>0. World /\ TypeOK /\ TypesFlowDown /\ Readings /\ Reading
  BY DEF SInv, TInv, Twice, IInv, At
<1> DEFINE used == Resolve(Input, Tok.path)
           base == SetTop(Past)
           new  == Open(used, types)
           s    == Append(base, new)
<1>1. used \in Paths
  BY <1>0, InputType, TokType, ResolveType
<1>2. new \in Frame /\ new.path = used /\ new.pos = 0 /\ new.decls = <<>>
  BY <1>1, OpenType
<1>3. /\ Later(Past) /\ Past.path = Top.path /\ Past.pos = Top.pos + 1 /\ Past.decls = Top.decls
  BY <1>0, PastLater, PastParts
<1>4. Same /\ UNCHANGED <<disk, inputs, done, program>>
  BY DEF ReadUsed, Same, Input
<1>5. \/ stack' = s /\ phase' = phase
      \/ stack' = stack /\ phase' = "stack overflow"
  BY DEF ReadUsed
<1>6. Programmed' /\ Linked'
  BY <1>0, <1>4, <1>5, ProgramKept DEF SInv, Reading
<1>7. CASE phase' = "stack overflow"
  BY <1>6, <1>7 DEF Spells, Splicing, Silent
<1>8. CASE stack' = s /\ phase' = phase
  <2>1. /\ Len(base) = Len(stack) /\ Len(stack) \in 1..Len(stack) /\ Len(stack) \in Nat
        /\ Top = stack[Len(stack)]
        /\ \A i \in 1..Len(stack) : base[i] = IF i = Len(stack) THEN Past ELSE stack[i]
    BY <1>0, <1>3, TopMoved
  <2>2. base \in Seq(Frame)
    BY <1>0, <1>3, SetTopOK DEF StackOK
  <2> HIDE DEF base, new, used
  <2>3. /\ Len(s) = Len(stack) + 1 /\ s[Len(stack) + 1] = new
        /\ \A i \in 1..Len(stack) : s[i] = base[i]
    BY <1>2, <2>1, <2>2, Push
  <2> HIDE DEF s
  <2>4. Silent'
    <3>1. ASSUME phase = "collect", NEW i \in 1..(Len(stack) + 1) PROVE s[i].decls = <<>>
      <4>1. \A j \in 1..Len(stack) : stack[j].decls = <<>>
        BY <3>1 DEF SInv, Spells, Silent
      <4>2. CASE i = Len(stack) + 1
        BY <1>2, <2>3, <4>2
      <4>3. CASE i # Len(stack) + 1
        BY <1>3, <2>1, <2>3, <4>1, <4>3
      <4> QED BY <4>2, <4>3
    <3> QED BY <1>8, <2>3, <3>1 DEF Silent
  <2>5. Splicing'
    <3> SUFFICES ASSUME NoMacros', phase = "parse" PROVE Splicing'
      BY <1>8 DEF Splicing
    <3>0. NoMacros
      BY <1>4, SameDisk
    <3>1. SplicingIn(stack)
      BY <3>0 DEF SInv, Spells, Splicing
    <3>2. /\ Top.pos + 1 \in 1..Len(Text(Top.path)) /\ Top.pos \in Nat
          /\ Text(Top.path)[Top.pos + 1].k = "@use" /\ Tok.path = Text(Top.path)[Top.pos + 1].path
      <4>1. Tok.k \in {"@use"}
        BY <1>0, TokType
      <4> QED BY <1>0, <3>0, <4>1, TokPlain
    <3>3. Waits(Past, new, MaxStack - Len(stack))
      <4>1. Using(Past, new)
        BY <1>2, <1>3, <3>2 DEF Using, used
      <4>2. SaidUpto(Top, MaxStack - Len(stack), Top.pos)
        BY <2>1, <3>1 DEF SplicingIn
      <4>3. Past.pos - 1 = Top.pos
        BY <1>3, <3>2
      <4>4. SaidUpto(Past, MaxStack - Len(stack), Past.pos - 1)
        BY <1>3, <4>2, <4>3 DEF SaidUpto
      <4> QED BY <4>1, <4>4 DEF Waits
    <3>4. ASSUME NEW f \in 1..Len(stack) PROVE Waits(s[f], s[f + 1], MaxStack - f)
      <4>1. CASE f = Len(stack)
        BY <2>1, <2>3, <3>3, <4>1
      <4>2. CASE f # Len(stack)
        <5>1. f \in 1..(Len(stack) - 1) /\ f + 1 \in 1..Len(stack)
          BY <2>1, <4>2
        <5>2. Waits(stack[f], stack[f + 1], MaxStack - f)
          BY <3>1, <5>1 DEF SplicingIn
        <5>3. s[f] = stack[f]
          BY <2>1, <2>3, <4>2
        <5>4. s[f + 1].path = stack[f + 1].path
          BY <1>3, <2>1, <2>3, <5>1
        <5> QED BY <5>2, <5>3, <5>4 DEF Waits, Using
      <4> QED BY <4>1, <4>2
    <3>5. SaidUpto(new, MaxStack - Len(s), new.pos)
      BY <1>2, NoneYet DEF SaidUpto
    <3>6. SplicingIn(s)
      <4>1. Len(s) - 1 = Len(stack)
        BY <2>1, <2>3
      <4> QED BY <2>3, <3>4, <3>5, <4>1 DEF SplicingIn
    <3> QED BY <1>4, <1>8, <3>6, SameSplicing
  <2> QED BY <1>6, <2>4, <2>5 DEF Spells
<1> QED BY <1>5, <1>7, <1>8

LEMMA CollectUseSpells == ASSUME SInv, CollectUse PROVE Spells'
<1>1. {} \in SUBSET Known
  OBVIOUS
<1> QED BY <1>1, ReadUsedSpells DEF CollectUse

LEMMA ParseUseSpells == ASSUME SInv, ParseUse PROVE Spells'
<1>1. Top.types \in SUBSET Known
  BY TokType, TopType DEF SInv, TInv, IInv, ParseUse
<1> QED BY <1>1, ReadUsedSpells DEF ParseUse

(* A file that has been parsed says what stands for it in its user.        *)
LEMMA FileSaid ==
    ASSUME World, TypeOK, Readings, NoMacros, AtEnd, Input \in Paths,
           NEW m \in Nat, SaidUpto(Top, m, Top.pos)
    PROVE  Top.decls = Flats(Input)[m + 1][Top.path] /\ Top.path \in Paths
<1>1. Top.path \in Paths /\ Top.pos = Len(Text(Top.path))
  BY EndPlain
<1>2. Flats(Input)[m] \in Texts /\ Flats(Input)[m + 1][Top.path] = InPlace(Input, Top.path, Flats(Input)[m])
  BY <1>1, FlatsAre
<1>3. InPlace(Input, Top.path, Flats(Input)[m]) = FlatUpto(Pieces(Input, Top.path, Flats(Input)[m]), Top.pos)
  BY <1>1, <1>2, PiecesType
<1> QED BY <1>1, <1>2, <1>3 DEF SaidUpto

LEMMA ReturnSpells == ASSUME SInv, Return PROVE Spells'
<1>0. World /\ TypeOK /\ Readings /\ Reading /\ AtEnd /\ Len(stack) > 1 /\ Input \in Paths
  BY InputType DEF SInv, TInv, Twice, IInv, Return, AtEnd
<1> DEFINE n     == Len(stack) - 1
           decls == IF phase = "parse" THEN Below[n].decls \o Top.decls ELSE Below[n].decls
           user  == [Below[n] EXCEPT !.decls = decls]
<1>1. /\ n \in Nat /\ n \in 1..n /\ n \in 0..Len(stack) /\ n \in 1..Len(stack)
      /\ Len(stack) = n + 1 /\ Len(stack) \in 1..Len(stack) /\ Top = stack[Len(stack)]
  BY <1>0, TopType
<1>2. /\ Below \in Seq(Frame) /\ Len(Below) = n
      /\ \A i \in 1..n : Below[i] = stack[i] /\ i \in 1..Len(stack)
  BY <1>0, <1>1, Cut DEF Below, TypeOK
<1>3. Below[n] \in Frame /\ Below[n].decls \in Seq(Decl) /\ Top.decls \in Seq(Decl)
  <2>1. Below[n] \in Frame
    BY <1>1, <1>2
  <2>2. Below[n].decls \in Seq(Decl)
    BY <2>1 DEF Frame
  <2> QED BY <1>0, <2>1, <2>2, TopType
<1>4. decls \in Seq(Decl)
  BY <1>3, Join
<1>4a. /\ phase = "parse" => decls = Cat(Below[n].decls, Top.decls)
       /\ phase # "parse" => decls = Below[n].decls
  BY DEF Cat
<1> HIDE DEF decls
<1>5. user \in Frame /\ user.path = Below[n].path /\ user.pos = Below[n].pos /\ user.decls = decls
  BY <1>3, <1>4, DeclsType
<1>6. stack' = [Below EXCEPT ![n] = user]
  BY <1>1, <1>2, <1>3 DEF Return, decls
<1> HIDE DEF user, n
<1>7. Len(stack') = n /\ \A i \in 1..n : stack'[i] = IF i = n THEN user ELSE stack[i]
  BY <1>1, <1>2, <1>5, <1>6, Replace
<1>8. Same /\ phase' = phase /\ UNCHANGED <<disk, inputs, done, program>>
  BY DEF Return, result, Same, Input
<1>9. Programmed' /\ Linked'
  BY <1>0, <1>8, ProgramKept DEF SInv, Reading
<1>10. Silent'
  <2>1. ASSUME phase = "collect", NEW i \in 1..n PROVE stack'[i].decls = <<>>
    <3>1. \A j \in 1..Len(stack) : stack[j].decls = <<>>
      BY <2>1 DEF SInv, Spells, Silent
    <3> QED BY <1>1, <1>2, <1>4a, <1>5, <1>7, <2>1, <3>1
  <2> QED BY <1>7, <1>8, <2>1 DEF Silent
<1>11. Splicing'
  <2> SUFFICES ASSUME NoMacros', phase = "parse" PROVE Splicing'
    BY <1>8 DEF Splicing
  <2>0. NoMacros
    BY <1>8, SameDisk
  <2>1. SplicingIn(stack)
    BY <2>0 DEF SInv, Spells, Splicing
  <2> DEFINE m == MaxStack - Len(stack)
             p == stack[n].path
             k == stack[n].pos
             g == Pieces(Input, p, Flats(Input)[m + 1])
  <2>2. m \in Nat /\ m + 1 \in Nat /\ MaxStack - n = m + 1
    BY <1>0, <1>1, BoundAssumption DEF TypeOK
  <2>3. Top.decls = Flats(Input)[m + 1][Top.path]
    <3>1. SaidUpto(Top, m, Top.pos)
      BY <1>1, <2>1 DEF SplicingIn
    <3> HIDE DEF m
    <3> QED BY <1>0, <2>0, <2>2, <3>1, FileSaid
  <2>4. Using(stack[n], Top) /\ SaidUpto(stack[n], m + 1, k - 1)
    <3>1. n \in 1..(Len(stack) - 1) /\ stack[n + 1] = Top
      BY <1>1
    <3>2. Waits(stack[n], stack[n + 1], MaxStack - n)
      BY <2>1, <3>1 DEF SplicingIn
    <3> QED BY <2>2, <3>1, <3>2 DEF Waits
  <2>5. p \in Paths
    <3>1. stack[n] \in Frame
      BY <1>1, <1>2, <1>3
    <3> QED BY <3>1 DEF Frame
  <2>6. k \in 1..Len(Text(p)) /\ Text(p)[k].k = "@use" /\ Top.path = Resolve(Input, Text(p)[k].path)
    BY <2>4 DEF Using
  <2>7. g[k] = Top.decls
    <3> HIDE DEF p, k, m
    <3> QED BY <2>3, <2>6 DEF Pieces, UsedBy
  <2>8. FlatUpto(g, k) = Cat(FlatUpto(g, k - 1), g[k])
    <3> HIDE DEF p, k, m
    <3> QED BY <1>0, <2>2, <2>5, <2>6, OneMore
  <2>9. SaidUpto(user, m + 1, user.pos)
    <3>1. Below[n] = stack[n]
      BY <1>1, <1>2
    <3>2. stack[n].decls = FlatUpto(g, k - 1)
      BY <2>4 DEF SaidUpto
    <3>3. user.decls = FlatUpto(g, k)
      <4> HIDE DEF g, k, m
      <4> QED BY <1>4a, <1>5, <2>7, <2>8, <3>1, <3>2
    <3> QED BY <1>5, <3>1, <3>3 DEF SaidUpto
  <2>10. ASSUME NEW f \in 1..(n - 1) PROVE Waits(stack'[f], stack'[f + 1], MaxStack - f)
    <3>1. f \in 1..(Len(stack) - 1) /\ f \in 1..n /\ f + 1 \in 1..n /\ f # n
      BY <1>1
    <3>2. Waits(stack[f], stack[f + 1], MaxStack - f)
      BY <2>1, <3>1 DEF SplicingIn
    <3>3. stack'[f] = stack[f]
      BY <1>7, <3>1
    <3>4. stack'[f + 1].path = stack[f + 1].path
      BY <1>1, <1>2, <1>5, <1>7, <3>1
    <3> QED BY <3>2, <3>3, <3>4 DEF Waits, Using
  <2>11. SplicingIn(stack')
    <3>1. stack'[n] = user
      BY <1>1, <1>7
    <3> HIDE DEF m
    <3>2. SaidUpto(stack'[n], MaxStack - n, stack'[n].pos)
      BY <2>2, <2>9, <3>1
    <3> QED BY <1>7, <2>10, <3>2 DEF SplicingIn
  <2> QED BY <1>8, <2>11, SameSplicing
<1> QED BY <1>9, <1>10, <1>11 DEF Spells

LEMMA BeginParseSpells == ASSUME SInv, BeginParse PROVE Spells'
<1>0. World /\ TypeOK /\ Len(stack) = 1 /\ phase = "collect"
  BY DEF SInv, TInv, IInv, BeginParse
<1> DEFINE g == [Top EXCEPT !.pos = 0]
           f == [Top EXCEPT !.pos = 0, !.types = reg]
<1>1. Top \in Frame /\ Top = stack[1] /\ Top.decls = <<>>
  <2>1. 1 \in 1..Len(stack)
    BY <1>0
  <2> QED BY <1>0, <2>1, TopType DEF SInv, Spells, Silent
<1>2. g \in Frame /\ g.pos = 0 /\ g.decls = <<>>
  BY <1>1 DEF Frame
<1>3. f = [g EXCEPT !.types = reg]
  OBVIOUS
<1> HIDE DEF f, g
<1>4. f.pos = 0 /\ f.decls = <<>>
  BY <1>2, <1>3 DEF Frame
<1>5. /\ stack' = <<f>> /\ phase' = "parse" /\ Same
      /\ UNCHANGED <<disk, inputs, done, program>>
  BY DEF BeginParse, f, result, Same, Input
<1>6. Splicing'
  <2>1. SaidUpto(f, MaxStack - 1, f.pos)
    BY <1>4, NoneYet DEF SaidUpto
  <2>2. SplicingIn(stack')
    <3>1. Len(stack') = 1 /\ stack'[1] = f
      BY <1>5
    <3> QED BY <2>1, <3>1 DEF SplicingIn
  <2> QED BY <1>5, <2>2, SameSplicing
<1>7. Silent'
  BY <1>5 DEF Silent
<1>8. Programmed' /\ Linked'
  BY <1>0, <1>5, ProgramKept DEF SInv
<1> QED BY <1>6, <1>7, <1>8 DEF Spells

LEMMA NextInputSpells == ASSUME SInv, NextInput PROVE Spells'
<1>0. World /\ TypeOK /\ phase = "next" /\ done \in Nat /\ done < Len(inputs)
  <2>1. World /\ TypeOK /\ phase = "next" /\ done < Len(inputs)
    BY DEF SInv, TInv, IInv, NextInput
  <2>2. inputs \in Seq(Paths) /\ done \in 0..Len(inputs)
    BY <2>1, LinesAssumption DEF World, TypeOK
  <2> QED BY <2>1, <2>2
<1>1. inputs[done + 1] \in Paths
  <2>1. done + 1 \in 1..Len(inputs)
    BY <1>0, LinesAssumption DEF World, TypeOK
  <2> QED BY <1>0, <2>1, LinesAssumption DEF World
<1> DEFINE f == Open(inputs[done + 1], {})
<1>2. f.decls = <<>>
  BY <1>1, OpenType
<1>3. /\ UNCHANGED <<disk, inputs, program>> /\ done' = done + 1
      /\ \/ phase' = "no input"
         \/ phase' = "collect" /\ stack' = <<f>>
  BY DEF NextInput
<1> HIDE DEF f
<1>4. Silent'
  <2>1. ASSUME stack' = <<f>> PROVE Len(stack') = 1 /\ stack'[1] = f /\ \A i \in 1..1 : i = 1
    BY <2>1
  <2> QED BY <1>2, <1>3, <2>1 DEF Silent
<1>5. Programmed'
  <2>1. Speech' = Speech /\ NoMacros' = NoMacros /\ \A k : Whole(k)' = Whole(k)
    BY <1>3, SameProgram
  <2>2. PICK k \in Nat : k = done /\ done' - 1 = k
    <3>1. done' = done + 1
      BY <1>3
    <3> QED BY <1>0, <3>1
  <2>3. NoMacros => Speech = Whole(done)
    BY <1>0 DEF SInv, Spells, Programmed, Merged
  <2>4. Whole(done - 1)' = Whole(k)
    <3>1. Whole(done - 1)' = Whole(k)'
      BY <2>2 DEF Whole
    <3> QED BY <2>1, <3>1
  <2> QED BY <1>3, <2>1, <2>2, <2>3, <2>4 DEF Programmed, Merging, Merged
<1> QED BY <1>3, <1>4, <1>5 DEF Spells, Splicing, Linked

LEMMA InputsSaid ==
    ASSUME World
    PROVE  LET g == [n \in 1..Len(inputs) |-> Inlined(inputs[n])]
           IN  /\ Len(inputs) \in Nat /\ Seqs(g, Len(inputs), Saids)
               /\ \A k \in 1..Len(inputs) : g[k] = Flats(inputs[k])[MaxStack][inputs[k]]
<1> DEFINE g == [n \in 1..Len(inputs) |-> Inlined(inputs[n])]
<1>1. inputs \in Seq(Paths) /\ Len(inputs) \in Nat
  BY LinesAssumption DEF World
<1>2. ASSUME NEW k \in 1..Len(inputs)
      PROVE  g[k] = Flats(inputs[k])[MaxStack][inputs[k]] /\ g[k] \in Seq(Saids)
  <2>1. inputs[k] \in Paths /\ MaxStack \in Nat
    BY <1>1, BoundAssumption
  <2>2. Flats(inputs[k])[MaxStack] \in Texts
    BY <2>1, FlatsAre
  <2>3. g[k] = Flats(inputs[k])[MaxStack][inputs[k]]
    BY InlinedIs
  <2> QED BY <2>1, <2>2, <2>3 DEF Texts
<1> QED BY <1>1, <1>2 DEF Seqs

(* An entry of the merged program.                                         *)
Entries == [file : Paths, decl : Decl]

LEMMA MergeSpells == ASSUME SInv, Merge PROVE Spells'
<1>0. /\ World /\ TypeOK /\ Readings /\ Reading /\ AtEnd /\ phase = "parse" /\ Len(stack) = 1
      /\ Input \in Paths /\ done \in 1..Len(inputs) /\ stack[1].path = Input
  BY InputType DEF SInv, TInv, Twice, IInv, Merge, Reading, TypeOK
<1> DEFINE d  == Top.decls
           ds == [i \in 1..Len(d) |-> [file |-> Input, decl |-> d[i]]]
<1>1. d \in Seq(Decl) /\ Top = stack[1] /\ program \in Seq(Entries)
  BY <1>0, TopType DEF TypeOK, Entries
<1>2. ds \in Seq(Entries) /\ Len(ds) = Len(d) /\ Len(d) \in Nat
      /\ \A i \in 1..Len(d) : ds[i].decl = d[i]
  BY <1>0, <1>1 DEF Entries
<1>3. /\ UNCHANGED <<disk, inputs, done>> /\ phase' = "next" /\ stack' = <<>>
      /\ program' = program \o ds
  BY DEF Merge
<1> HIDE DEF d, ds
<1>4. Programmed'
  <2> SUFFICES ASSUME NoMacros' PROVE Speech' = Whole(done)
    <3>1. Whole(done)' = Whole(done)
      BY <1>3, SameProgram DEF Whole
    <3> QED BY <1>3, <3>1 DEF Programmed, Merging, Merged
  <2>0. NoMacros
    BY <1>3, SameDisk
  <2>1. Speech = Whole(done - 1)
    BY <1>0, <2>0 DEF SInv, Spells, Programmed, Merging
  <2>2. Speech' = Cat(Speech, d)
    <3>1. Speech' = [i \in 1..Len(program') |-> program'[i].decl]
      BY DEF Speech, Declared
    <3>2. Speech = [i \in 1..Len(program) |-> program[i].decl]
      BY DEF Speech, Declared
    <3>3. Speech \in Seq(Decl) /\ Len(Speech) = Len(program) /\ Len(program) \in Nat
      <4>1. Len(program) \in Nat /\ \A i \in 1..Len(program) : program[i].decl \in Decl
        <5>1. Len(program) \in Nat /\ \A i \in 1..Len(program) : program[i] \in Entries
          BY <1>1
        <5> QED BY <5>1 DEF Entries
      <4> QED BY <3>2, <4>1
    <3>4. Len(program') = Len(program) + Len(d)
      <4>1. Len(program \o ds) = Len(program) + Len(ds)
        BY <1>1, <1>2
      <4> QED BY <1>2, <1>3, <4>1
    <3>5. Cat(Speech, d) \in Seq(Decl) /\ Len(Cat(Speech, d)) = Len(program) + Len(d)
      BY <1>1, <3>3, Joined DEF Cat
    <3>6. ASSUME NEW i \in 1..Len(program') PROVE Cat(Speech, d)[i] = program'[i].decl
      <4>1. CASE i <= Len(program)
        <5>1. i \in 1..Len(program) /\ i \in 1..Len(Speech)
          BY <3>3, <4>1
        <5>2. Cat(Speech, d)[i] = Speech[i] /\ program'[i] = program[i]
          BY <1>1, <1>2, <1>3, <3>3, <5>1, Joined DEF Cat
        <5> QED BY <3>2, <5>1, <5>2
      <4>2. CASE ~(i <= Len(program))
        <5>1. PICK j \in 1..Len(d) : i = Len(program) + j
          <6>1. i - Len(program) \in 1..Len(d)
            BY <1>2, <3>3, <3>4, <4>2
          <6>2. i = Len(program) + (i - Len(program))
            BY <3>3
          <6> QED BY <6>1, <6>2
        <5>2. Cat(Speech, d)[i] = d[j]
          BY <1>1, <3>3, <5>1, Joined DEF Cat
        <5>3. program'[i] = ds[j]
          BY <1>1, <1>2, <1>3, <5>1, Joined
        <5> QED BY <1>2, <5>2, <5>3
      <4> QED BY <4>1, <4>2
    <3>7. Cat(Speech, d) = [i \in 1..Len(Cat(Speech, d)) |-> Cat(Speech, d)[i]]
      BY <3>5
    <3> QED BY <3>1, <3>4, <3>5, <3>6, <3>7
  <2>3. d = Flats(Input)[MaxStack][Input]
    <3>1. SplicingIn(stack)
      BY <1>0, <2>0 DEF SInv, Spells, Splicing
    <3>2. PICK m \in Nat : m + 1 = MaxStack /\ m = MaxStack - 1
      BY BoundAssumption
    <3>3. SaidUpto(Top, m, Top.pos)
      BY <1>0, <1>1, <3>1, <3>2 DEF SplicingIn
    <3>4. Top.decls = Flats(Input)[m + 1][Top.path]
      BY <1>0, <2>0, <3>3, FileSaid
    <3> QED BY <1>0, <1>1, <3>2, <3>4 DEF d
  <2>4. Whole(done) = Cat(Whole(done - 1), d)
    <3> DEFINE g == [n \in 1..Len(inputs) |-> Inlined(inputs[n])]
    <3>1. Len(inputs) \in Nat /\ Seqs(g, Len(inputs), Saids) /\ g[done] = d
      BY <1>0, <2>3, InputsSaid DEF Input
    <3> HIDE DEF g
    <3>2. FlatUpto(g, done) = Cat(FlatUpto(g, done - 1), g[done])
      BY <1>0, <3>1, FlatStep
    <3> QED BY <3>1, <3>2 DEF Whole, g
  <2> QED BY <2>1, <2>2, <2>4
<1> QED BY <1>3, <1>4 DEF Spells, Splicing, Silent, Linked

LEMMA LinkSpells == ASSUME SInv, Link PROVE Spells'
<1>1. /\ UNCHANGED <<disk, inputs, done, program>> /\ phase = "next" /\ done = Len(inputs)
      /\ phase' \in Ends /\ (phase' = "accepted" => ~Duplicate)
  BY DEF Link, result, Ends
<1>2. Speech' = Speech /\ NoMacros' = NoMacros /\ Duplicate' = Duplicate /\ \A k : Whole(k)' = Whole(k)
  BY <1>1, SameProgram
<1>3. NoMacros => Speech = Whole(done)
  BY <1>1 DEF SInv, Spells, Programmed, Merged
<1>4. Programmed'
  BY <1>1, <1>2, <1>3 DEF Programmed, Merging, Merged, Ends
<1>5. Linked'
  BY <1>1, <1>2 DEF Linked
<1> QED BY <1>1, <1>4, <1>5 DEF Spells, Splicing, Silent, Ends

LEMMA InitSInv == Init => SInv
<1> SUFFICES ASSUME Init PROVE SInv
  OBVIOUS
<1>1. TInv
  BY InitTInv
<1>2. Speech = Whole(done)
  <2>1. Whole(done) = <<>>
    BY NoneYet DEF Whole, Init
  <2>2. Speech = <<>>
    BY DEF Speech, Init
  <2> QED BY <2>1, <2>2
<1> QED BY <1>1, <1>2 DEF SInv, Spells, Splicing, Silent, Programmed, Merging, Merged, Linked, Init

LEMMA SInvNext == SInv /\ [Next]_vars => SInv'
<1> SUFFICES ASSUME SInv, [Next]_vars PROVE SInv'
  OBVIOUS
<1>1. TInv'
  BY TInvNext DEF SInv
<1>2. CASE UNCHANGED vars
  <2>1. Same /\ UNCHANGED <<disk, inputs, done, phase, stack, program>>
    BY <1>2 DEF vars, reading, result, Same, Input
  <2>2. Splicing'
    <3>1. phase = "parse" /\ NoMacros => SplicingIn(stack')
      BY <2>1 DEF SInv, Spells, Splicing
    <3> QED BY <2>1, <3>1, SameSplicing, SameDisk DEF Splicing
  <2>3. Silent'
    BY <2>1 DEF SInv, Spells, Silent
  <2>4. Speech' = Speech /\ NoMacros' = NoMacros /\ Duplicate' = Duplicate /\ \A k : Whole(k)' = Whole(k)
    BY <2>1, SameProgram
  <2>5. Programmed' /\ Linked'
    BY <2>1, <2>4 DEF SInv, Spells, Programmed, Merging, Merged, Linked
  <2> QED BY <1>1, <2>2, <2>3, <2>5 DEF SInv, Spells
<1>3. CASE Next
  <2>1. Spells'
    BY <1>3, NextInputSpells, LexItemSpells, CollectUseSpells, CollectTypeSpells, CollectSkipSpells,
       BeginParseSpells, ParseUseSpells, ParseDeclSpells, ReturnSpells, MergeSpells, LinkSpells DEF Next
  <2> QED BY <1>1, <2>1 DEF SInv
<1> QED BY <1>2, <1>3

(* Without macros the program is the text of the inputs, in order, with    *)
(* every used file in the place of its `@use`, however the files use each  *)
(* other.                                                                  *)
THEOREM ProgramIsInlined == Spec => []Spliced
<1>1. SInv => Spliced
  <2> SUFFICES ASSUME SInv, NoMacros, phase = "next" PROVE Speech = FlattenSeq([n \in 1..done |-> Inlined(inputs[n])])
    BY DEF Spliced, Speech
  <2>1. Speech = Whole(done)
    BY DEF SInv, Spells, Programmed, Merged
  <2>2. Len(inputs) \in Nat /\ done \in 0..Len(inputs)
    BY LinesAssumption DEF SInv, TInv, IInv, World, TypeOK
  <2>3. [n \in 1..done |-> [i \in 1..Len(inputs) |-> Inlined(inputs[i])][n]] = [n \in 1..done |-> Inlined(inputs[n])]
    BY <2>2
  <2> QED BY <2>1, <2>3 DEF Whole, FlatUpto
<1> QED BY InitSInv, SInvNext, <1>1, PTL DEF Spec

-----------------------------------------------------------------------------
(* How often something occurs in a sequence.                               *)
Places(s, x) == {i \in 1..Len(s) : s[i] = x}
Count(s, x)  == Cardinality(Places(s, x))

LEMMA CountType ==
    ASSUME NEW S, NEW s \in Seq(S), NEW x
    PROVE  IsFiniteSet(Places(s, x)) /\ Count(s, x) \in Nat
<1>1. IsFiniteSet(1..Len(s)) /\ Places(s, x) \subseteq 1..Len(s)
  BY FS_Interval DEF Places
<1>2. IsFiniteSet(Places(s, x))
  BY <1>1, FS_Subset
<1> QED BY <1>2, FS_CardinalityType DEF Count

LEMMA CountNone == ASSUME NEW x PROVE Count(<<>>, x) = 0
<1>1. Places(<<>>, x) = {}
  BY DEF Places
<1> QED BY <1>1, FS_EmptySet DEF Count

LEMMA CountOne ==
    ASSUME NEW y, NEW x PROVE Count(<<y>>, x) = IF y = x THEN 1 ELSE 0
<1>1. Places(<<y>>, x) = IF y = x THEN {1} ELSE {}
  BY DEF Places
<1> QED BY <1>1, FS_EmptySet, FS_Singleton DEF Count

LEMMA CountCat ==
    ASSUME NEW S, NEW s \in Seq(S), NEW t \in Seq(S), NEW x
    PROVE  Count(Cat(s, t), x) = Count(s, x) + Count(t, x)
<1> DEFINE A == Places(s, x)
           B == Places(t, x)
           C == {Len(s) + i : i \in B}
           f == [i \in B |-> Len(s) + i]
<1>1. Len(s) \in Nat /\ Len(t) \in Nat /\ IsFiniteSet(A) /\ IsFiniteSet(B) /\ B \subseteq Nat
  <2>1. Len(s) \in Nat /\ Len(t) \in Nat
    OBVIOUS
  <2>2. IsFiniteSet(A) /\ IsFiniteSet(B)
    BY CountType
  <2> QED BY <2>1, <2>2 DEF Places
<1>2. f \in Bijection(B, C)
  <2>1. f \in [B -> C]
    OBVIOUS
  <2>2. \A i, j \in B : f[i] = f[j] => i = j
    <3>1. ASSUME NEW i \in B, NEW j \in B, f[i] = f[j] PROVE i = j
      <4>1. Len(s) + i = Len(s) + j /\ i \in Nat /\ j \in Nat
        <5> HIDE DEF B
        <5> QED BY <1>1, <3>1
      <4> QED BY <1>1, <4>1
    <3> QED BY <3>1
  <2>3. \A c \in C : \E i \in B : f[i] = c
    OBVIOUS
  <2> HIDE DEF f, C, B
  <2> QED BY <2>1, <2>2, <2>3 DEF Bijection, Injection, Surjection, IsInjective
<1>3. IsFiniteSet(C) /\ Cardinality(C) = Cardinality(B)
  <2> HIDE DEF f, C, B
  <2>1. B # {} \/ B = {}
    OBVIOUS
  <2> QED BY <1>1, <1>2, FS_Bijection DEF ExistsBijection
<1>4. Places(Cat(s, t), x) = A \cup C
  <2>1. Len(Cat(s, t)) = Len(s) + Len(t) /\ (\A i \in 1..Len(s) : Cat(s, t)[i] = s[i])
        /\ \A i \in 1..Len(t) : Cat(s, t)[Len(s) + i] = t[i]
    BY Joined DEF Cat
  <2>2. ASSUME NEW i \in Places(Cat(s, t), x) PROVE i \in A \cup C
    <3>1. i \in 1..(Len(s) + Len(t)) /\ Cat(s, t)[i] = x
      BY <2>1 DEF Places
    <3>2. CASE i <= Len(s)
      <4>1. i \in 1..Len(s)
        BY <1>1, <3>1, <3>2
      <4> QED BY <2>1, <3>1, <4>1 DEF Places
    <3>3. CASE ~(i <= Len(s))
      <4>1. PICK j \in 1..Len(t) : i = Len(s) + j
        <5>1. i - Len(s) \in 1..Len(t) /\ i = Len(s) + (i - Len(s))
          BY <1>1, <3>1, <3>3
        <5> QED BY <5>1
      <4>2. j \in B
        BY <2>1, <3>1, <4>1 DEF Places
      <4> QED BY <4>1, <4>2
    <3> QED BY <3>2, <3>3
  <2>3. ASSUME NEW i \in A PROVE i \in Places(Cat(s, t), x)
    BY <1>1, <2>1 DEF Places
  <2>4. ASSUME NEW j \in B PROVE Len(s) + j \in Places(Cat(s, t), x)
    <3>1. j \in 1..Len(t) /\ t[j] = x
      BY DEF Places
    <3>2. Len(s) + j \in 1..(Len(s) + Len(t))
      BY <1>1, <3>1
    <3> QED BY <2>1, <3>1, <3>2 DEF Places
  <2> QED BY <2>2, <2>3, <2>4
<1>5. A \cap C = {}
  BY <1>1 DEF Places
<1>6. Cardinality(A \cup C) = Cardinality(A) + Cardinality(C)
  <2> HIDE DEF A, C
  <2>1. Cardinality(A \cup C) = Cardinality(A) + Cardinality(C) - Cardinality(A \cap C)
    BY <1>1, <1>3, FS_Union
  <2>2. Cardinality(A) \in Nat /\ Cardinality(C) \in Nat /\ Cardinality(A \cap C) = 0
    BY <1>1, <1>3, <1>5, FS_EmptySet, FS_CardinalityType
  <2> QED BY <2>1, <2>2
<1> QED BY <1>3, <1>4, <1>6 DEF Count

LEMMA CountTwo ==
    ASSUME NEW S, NEW s \in Seq(S), NEW x, NEW i \in Places(s, x), NEW j \in Places(s, x), i # j
    PROVE  Count(s, x) >= 2
<1>1. IsFiniteSet({i}) /\ Cardinality({i}) = 1
  BY FS_Singleton
<1>2. IsFiniteSet({i} \cup {j}) /\ Cardinality({i} \cup {j}) = 2
  <2>1. j \notin {i}
    OBVIOUS
  <2> DEFINE one == {i}
  <2>2. IsFiniteSet(one) /\ Cardinality(one) = 1 /\ j \notin one
    BY <1>1, <2>1
  <2> HIDE DEF one
  <2>3. IsFiniteSet(one \cup {j}) /\ Cardinality(one \cup {j}) = 2
    BY <2>2, FS_AddElement
  <2> QED BY <2>3 DEF one
<1>3. {i} \cup {j} \subseteq Places(s, x)
  OBVIOUS
<1>4. Cardinality({i} \cup {j}) <= Cardinality(Places(s, x))
  BY <1>3, CountType, FS_Subset
<1> QED BY <1>2, <1>4, CountType DEF Count

LEMMA TwoPlaces ==
    ASSUME NEW S, NEW s \in Seq(S), NEW x, Count(s, x) >= 2
    PROVE  \E i, j \in Places(s, x) : i # j
<1> SUFFICES ASSUME \A i, j \in Places(s, x) : i = j PROVE FALSE
  OBVIOUS
<1>1. PICK a : Places(s, x) \subseteq {a}
  OBVIOUS
<1>2. IsFiniteSet({a}) /\ Cardinality({a}) = 1
  BY FS_Singleton
<1>3. Cardinality(Places(s, x)) <= 1
  BY <1>1, <1>2, FS_Subset
<1> QED BY <1>3, CountType DEF Count

(* Where each part counts no more so does the whole, and less if one does. *)
LEMMA CountUpto ==
    ASSUME NEW n \in Nat, NEW S, NEW g, Seqs(g, n, S), NEW T, NEW h, Seqs(h, n, T),
           NEW q, NEW x, \A k \in 1..n : Count(g[k], q) <= Count(h[k], x),
           NEW l \in 0..n, l # 0 => Count(g[l], q) + 1 <= Count(h[l], x)
    PROVE  /\ Count(FlatUpto(g, n), q) <= Count(FlatUpto(h, n), x)
           /\ l # 0 => Count(FlatUpto(g, n), q) + 1 <= Count(FlatUpto(h, n), x)
<1> DEFINE C(k) == Count(FlatUpto(g, k), q)
           D(k) == Count(FlatUpto(h, k), x)
           A    == {k \in Nat : k <= n => C(k) <= D(k) /\ (l # 0 /\ l <= k => C(k) + 1 <= D(k))}
<1>1. ASSUME NEW k \in 0..n PROVE C(k) \in Nat /\ D(k) \in Nat
  <2>1. FlatUpto(g, k) \in Seq(S) /\ FlatUpto(h, k) \in Seq(T)
    BY FlatStep
  <2> QED BY <2>1, CountType
<1>2. ASSUME NEW k \in 1..n
      PROVE  /\ C(k) = C(k - 1) + Count(g[k], q) /\ D(k) = D(k - 1) + Count(h[k], x)
             /\ Count(g[k], q) \in Nat /\ Count(h[k], x) \in Nat
  <2>1. k - 1 \in 0..n
    OBVIOUS
  <2>2. /\ FlatUpto(g, k - 1) \in Seq(S) /\ g[k] \in Seq(S)
        /\ FlatUpto(g, k) = Cat(FlatUpto(g, k - 1), g[k])
    BY <2>1, FlatStep DEF Seqs
  <2>3. /\ FlatUpto(h, k - 1) \in Seq(T) /\ h[k] \in Seq(T)
        /\ FlatUpto(h, k) = Cat(FlatUpto(h, k - 1), h[k])
    BY <2>1, FlatStep DEF Seqs
  <2>4. C(k) = C(k - 1) + Count(g[k], q) /\ Count(g[k], q) \in Nat
    BY <2>2, CountCat, CountType
  <2>5. D(k) = D(k - 1) + Count(h[k], x) /\ Count(h[k], x) \in Nat
    BY <2>3, CountCat, CountType
  <2> QED BY <2>4, <2>5
<1>3. C(0) = 0 /\ D(0) = 0
  BY NoneYet, CountNone
<1> HIDE DEF C, D
<1>4. 0 \in A
  BY <1>3
<1>5. ASSUME NEW k \in Nat, k \in A PROVE k + 1 \in A
  <2> SUFFICES ASSUME k + 1 <= n
               PROVE  C(k + 1) <= D(k + 1) /\ (l # 0 /\ l <= k + 1 => C(k + 1) + 1 <= D(k + 1))
    OBVIOUS
  <2>1. k + 1 \in 1..n /\ k \in 0..n /\ (k + 1) - 1 = k /\ k + 1 \in 0..n
    OBVIOUS
  <2> DEFINE a == Count(g[k + 1], q)
             b == Count(h[k + 1], x)
  <2>2. /\ C(k + 1) = C(k) + a /\ D(k + 1) = D(k) + b /\ a \in Nat /\ b \in Nat /\ a <= b
    BY <1>2, <2>1
  <2>3. C(k) <= D(k) /\ (l # 0 /\ l <= k => C(k) + 1 <= D(k)) /\ C(k) \in Nat /\ D(k) \in Nat
    BY <1>1, <1>5, <2>1
  <2>4. l # 0 /\ l = k + 1 => a + 1 <= b
    OBVIOUS
  <2>5. l \in Nat
    OBVIOUS
  <2> HIDE DEF a, b
  <2> QED BY <2>2, <2>3, <2>4, <2>5
<1>6. n \in A
  <2> HIDE DEF A
  <2> QED BY <1>4, <1>5, UpToAll
<1> QED BY <1>6 DEF C, D

(* However deep, a file that declares something is not visited more often  *)
(* than its declaration is in the text.                                    *)
LEMMA VisitsCounted ==
    ASSUME World, NEW input \in Paths, NEW q \in Paths, NEW l \in 1..Len(Text(q)),
           Text(q)[l].k \in {"type", "fn"}, NEW n \in Nat, NEW p \in Paths
    PROVE  Count(Visits(input)[n][p], q) <= Count(Flats(input)[n][p], Said(Text(q)[l]))
<1> DEFINE x    == Said(Text(q)[l])
           V(m) == Visits(input)[m]
           F(m) == Flats(input)[m]
           A    == {m \in Nat : \A r \in Paths : Count(V(m)[r], q) <= Count(F(m)[r], x)}
<1>1. ASSUME NEW m \in Nat
      PROVE  /\ V(m) \in Tours /\ F(m) \in Texts
             /\ \A r \in Paths : /\ V(m)[r] \in Seq(Paths) /\ F(m)[r] \in Seq(Saids)
                                 /\ V(m + 1)[r] = Visiting(input, r, V(m))
                                 /\ F(m + 1)[r] = InPlace(input, r, F(m))
  <2>1. V(m) \in Tours /\ F(m) \in Texts
    BY FlatsAre, VisitsAre
  <2> QED BY <2>1, FlatsAre, VisitsAre DEF Tours, Texts
<1>2. \A r \in Paths : V(0)[r] = <<>> /\ F(0)[r] = <<>>
  BY FlatsAre, VisitsAre
<1> HIDE DEF V, F, x
<1>3. 0 \in A
  BY <1>2, CountNone
<1>4. ASSUME NEW m \in Nat, m \in A PROVE m + 1 \in A
  <2>1. ASSUME NEW r \in Paths PROVE Count(V(m + 1)[r], q) <= Count(F(m + 1)[r], x)
    <3> DEFINE g == Ways(input, r, V(m))
               h == Pieces(input, r, F(m))
               k == Len(Text(r))
               at == IF r = q THEN l ELSE 0
    <3>1. k \in Nat /\ Seqs(g, k, Paths) /\ Seqs(h, k, Saids)
      BY <1>1, PiecesType, WaysType DEF Seqs
    <3>2. V(m + 1)[r] = Cat(<<r>>, FlatUpto(g, k)) /\ F(m + 1)[r] = FlatUpto(h, k)
      <4>1. Visiting(input, r, V(m)) = Cat(<<r>>, FlatUpto(g, k))
        BY <1>1, WaysType DEF Cat
      <4>2. InPlace(input, r, F(m)) = FlatUpto(h, k)
        BY <1>1, PiecesType
      <4> QED BY <1>1, <4>1, <4>2
    <3>3. ASSUME NEW i \in 1..k PROVE Count(g[i], q) <= Count(h[i], x)
      <4>1. CASE Text(r)[i].k = "@use"
        <5>1. Resolve(input, Text(r)[i].path) \in Paths
          BY ItemType
        <5>2. g[i] = V(m)[Resolve(input, Text(r)[i].path)] /\ h[i] = F(m)[Resolve(input, Text(r)[i].path)]
          BY <4>1 DEF Ways, Pieces, UsedBy
        <5> HIDE DEF g, h
        <5> QED BY <1>4, <5>1, <5>2
      <4>2. CASE Text(r)[i].k # "@use"
        <5>1. g[i] = <<>>
          BY <4>2 DEF Ways
        <5>2. Count(h[i], x) \in Nat
          <6>1. h[i] \in Seq(Saids)
            BY <1>1, PiecesType
          <6> HIDE DEF h
          <6> QED BY <6>1, CountType
        <5> HIDE DEF g, h
        <5> QED BY <5>1, <5>2, CountNone
      <4> QED BY <4>1, <4>2
    <3>4. ASSUME r = q PROVE l \in 1..k /\ Count(g[l], q) = 0 /\ Count(h[l], x) = 1
      <4>1. g[l] = <<>> /\ h[l] = <<x>>
        BY <3>4 DEF Ways, Pieces, x
      <4> HIDE DEF g, h
      <4> QED BY <3>4, <4>1, CountNone, CountOne
    <3>5. at \in 0..k /\ (at # 0 => Count(g[at], q) + 1 <= Count(h[at], x))
      <4> HIDE DEF g, h, k
      <4> QED BY <3>1, <3>4
    <3>6. FlatUpto(g, k) \in Seq(Paths)
      <4> HIDE DEF g, h, k
      <4>1. k \in 0..k
        BY <3>1
      <4>2. k \in Nat /\ Seqs(g, k, Paths)
        BY <3>1
      <4>3. \A j \in 0..k : FlatUpto(g, j) \in Seq(Paths)
        BY <4>2, FlatStep
      <4> QED BY <4>1, <4>3
    <3> HIDE DEF g, h, k, at
    <3>7. /\ Count(FlatUpto(g, k), q) <= Count(FlatUpto(h, k), x)
          /\ at # 0 => Count(FlatUpto(g, k), q) + 1 <= Count(FlatUpto(h, k), x)
      BY <3>1, <3>3, <3>5, CountUpto
    <3>8. Count(Cat(<<r>>, FlatUpto(g, k)), q) = Count(<<r>>, q) + Count(FlatUpto(g, k), q)
      <4>1. <<r>> \in Seq(Paths)
        OBVIOUS
      <4> QED BY <3>6, <4>1, CountCat
    <3>9. Count(FlatUpto(g, k), q) \in Nat
      BY <3>6, CountType
    <3>10. CASE r = q
      <4>1. at # 0
        BY <3>10 DEF at
      <4> QED BY <3>2, <3>7, <3>8, <3>9, <3>10, <4>1, CountOne
    <3>11. CASE r # q
      BY <3>2, <3>7, <3>8, <3>9, <3>11, CountOne
    <3> QED BY <3>10, <3>11
  <2> QED BY <2>1
<1>5. n \in A
  <2> HIDE DEF A
  <2> QED BY <1>3, <1>4, UpToAll
<1> QED BY <1>5 DEF V, F, x

(* Without macros every file with declarations that goes into an accepted  *)
(* program has been read once: one that is reached along two paths, or     *)
(* given twice, is rejected.                                               *)
THEOREM DeclaredOnce == Spec => []ReadOnce
<1>1. SInv => ReadOnce
  <2> SUFFICES ASSUME SInv, NoMacros, phase = "accepted" PROVE ReadOnce
    BY DEF ReadOnce
  <2> DEFINE m == Len(inputs)
             g == [n \in 1..m |-> Visited(inputs[n])]
             h == [n \in 1..m |-> Inlined(inputs[n])]
             visited == FlattenSeq(g)
  <2>1. World /\ done = m /\ ~Duplicate /\ Speech = Whole(m)
    BY DEF SInv, TInv, IInv, Spells, Linked, Programmed, Merged
  <2>2. inputs \in Seq(Paths) /\ m \in Nat /\ MaxStack \in Nat
    BY <2>1, LinesAssumption, BoundAssumption DEF World
  <2>3. Seqs(g, m, Paths)
    <3>1. ASSUME NEW k \in 1..m PROVE g[k] \in Seq(Paths)
      <4>1. inputs[k] \in Paths /\ Visits(inputs[k])[MaxStack] \in Tours
        BY <2>1, <2>2, VisitsAre
      <4>2. g[k] = Visits(inputs[k])[MaxStack][inputs[k]]
        BY VisitedIs
      <4> QED BY <4>1, <4>2 DEF Tours
    <3> QED BY <3>1 DEF Seqs
  <2>4. Seqs(h, m, Saids)
    BY <2>1, InputsSaid
  <2>5. visited = FlatUpto(g, m) /\ Speech = FlatUpto(h, m)
    <3>1. [n \in 1..m |-> g[n]] = g
      OBVIOUS
    <3> QED BY <2>1, <3>1 DEF Whole, FlatUpto
  <2>6. visited \in Seq(Paths) /\ Speech \in Seq(Saids)
    <3> HIDE DEF g, h, m
    <3>1. FlatUpto(g, m) \in Seq(Paths) /\ FlatUpto(h, m) \in Seq(Saids)
      BY <2>2, <2>3, <2>4, FlatStep
    <3> QED BY <2>5, <3>1
  <2>7. ASSUME NEW q \in Paths, NEW l \in 1..Len(Text(q)), Text(q)[l].k \in {"type", "fn"}
        PROVE  Count(visited, q) <= 1
    <3> DEFINE x == Said(Text(q)[l])
    <3>1. \A k \in 1..m : Count(g[k], q) <= Count(h[k], x)
      <4>1. ASSUME NEW k \in 1..m PROVE Count(g[k], q) <= Count(h[k], x)
        <5>1. inputs[k] \in Paths
          BY <2>2
        <5>2. g[k] = Visits(inputs[k])[MaxStack][inputs[k]] /\ h[k] = Flats(inputs[k])[MaxStack][inputs[k]]
          BY InlinedIs, VisitedIs
        <5> HIDE DEF g, h, m
        <5> QED BY <2>1, <2>2, <2>7, <5>1, <5>2, VisitsCounted
      <4> QED BY <4>1
    <3>2. Count(visited, q) <= Count(Speech, x)
      <4> HIDE DEF g, h, m, x
      <4>1. 0 \in 0..m
        BY <2>2
      <4>2. Count(FlatUpto(g, m), q) <= Count(FlatUpto(h, m), x)
        BY <2>2, <2>3, <2>4, <3>1, <4>1, CountUpto
      <4> QED BY <2>5, <4>2
    <3>3. Count(Speech, x) < 2
      <4> SUFFICES ASSUME Count(Speech, x) >= 2 PROVE FALSE
        BY <2>6, CountType
      <4>1. PICK i, j \in Places(Speech, x) : i # j
        <5> HIDE DEF x
        <5> QED BY <2>6, TwoPlaces
      <4>2. Len(Speech) = Len(program) /\ Len(program) \in Nat
        BY DEF SInv, TInv, IInv, TypeOK, Speech
      <4>3. /\ i \in 1..Len(program) /\ j \in 1..Len(program)
            /\ Declared(i) = x /\ Declared(j) = x
        <5>1. i \in 1..Len(Speech) /\ j \in 1..Len(Speech) /\ Speech[i] = x /\ Speech[j] = x
          BY <4>1 DEF Places
        <5> QED BY <4>2, <5>1 DEF Speech
      <4>4. x.k # "use"
        BY <2>7 DEF Said, Kind
      <4> HIDE DEF x
      <4>5. i < j \/ j < i
        BY <4>1, <4>2, <4>3
      <4> QED BY <2>1, <4>3, <4>4, <4>5 DEF Duplicate
    <3> QED BY <2>6, <3>2, <3>3, CountType
  <2> HIDE DEF visited
  <2>8. ASSUME NEW i \in 1..Len(visited), NEW j \in 1..Len(visited), visited[i] = visited[j],
               \E l \in 1..Len(Text(visited[i])) : Text(visited[i])[l].k \in {"type", "fn"}
        PROVE  i = j
    <3>1. visited[i] \in Paths
      BY <2>6
    <3>2. Count(visited, visited[i]) <= 1
      BY <2>7, <2>8, <3>1
    <3>3. i \in Places(visited, visited[i]) /\ j \in Places(visited, visited[i])
      BY <2>8 DEF Places
    <3> DEFINE q == visited[i]
    <3>4. i \in Places(visited, q) /\ j \in Places(visited, q) /\ Count(visited, q) <= 1
      BY <3>2, <3>3
    <3> HIDE DEF q
    <3>5. i # j => Count(visited, q) >= 2
      BY <2>6, <3>4, CountTwo
    <3>6. Count(visited, q) \in Nat
      BY <2>6, CountType
    <3> QED BY <3>4, <3>5, <3>6
  <2> QED BY <2>8 DEF ReadOnce, visited
<1> QED BY InitSInv, SInvNext, <1>1, PTL DEF Spec
=============================================================================

---------------------------- MODULE SyntaxProofs ----------------------------
(***************************************************************************)
(* Proofs about the passes over the source: of Parser, for every list of   *)
(* tokens, and of Ownership.  There, declarations are numbered in order,   *)
(* so an inner scope's declaration of a name has the larger number: the    *)
(* search of get_var_info finds the declaration the name means (Resolve),  *)
(* and the dead marks are exactly the declarations some `@` named.  What   *)
(* an execution has given is a part of that, so an access of it is         *)
(* reported.                                                               *)
(***************************************************************************)
EXTENDS Parser, Ownership, FiniteSetTheorems, SequenceTheorems, WellFoundedInduction, TLAPS

LEMMA MinIsFirst ==
  ASSUME NEW S, S \subseteq Nat, S # {}
  PROVE  Min(S) \in S /\ \A j \in S : Min(S) <= j
<1>1. PICK x \in S : \A y \in S : <<y, x>> \notin OpToRel(<, Nat)
  BY WFMin, NatLessThanWellFounded
<1>2. \A y \in S : ~ (y < x)  BY <1>1 DEF OpToRel
<1>3. \A y \in S : x <= y  BY <1>2
<1> QED  BY <1>3 DEF Min

ErrorInv == CrashExplained /\ reported \in BOOLEAN

(* expect_ident takes the end of the file for no name.                     *)
LEMMA EofIsNoName == "eof" \notin Idents \cup TypeNames
  BY NamesAssumption DEF Idents, TypeNames

LEMMA InitExplained == Init => ErrorInv
<1> SUFFICES ASSUME Init PROVE ErrorInv  OBVIOUS
<1>1. val.kind = "other"
  <2>1. val = Val("other")  BY DEF Init
  <2> QED  BY <2>1 DEF Val
<1>2. outcome = "running"  BY DEF Init
<1>3. reported \in BOOLEAN  BY DEF Init
<1> QED  BY <1>1, <1>2, <1>3 DEF ErrorInv, CrashExplained

(* Only Primary builds a NULL, and it reports it.                          *)
LEMMA PrimaryExplained ==
  ASSUME ErrorInv, Primary
  PROVE  ErrorInv' /\ (reported => reported')
<1>1. outcome' = outcome  BY DEF Primary
<1>2. CASE reported' = reported /\ val' = val
  BY <1>1, <1>2 DEF ErrorInv, CrashExplained
<1>3. CASE reported' = reported /\ val' = Val("literal")
  BY <1>1, <1>3 DEF ErrorInv, CrashExplained, Val
<1>4. CASE reported' = reported /\ val' = Name(Cur)
  BY <1>1, <1>4 DEF ErrorInv, CrashExplained, Name
<1>5. CASE reported' = TRUE
  BY <1>1, <1>5 DEF ErrorInv, CrashExplained
<1> QED  BY <1>2, <1>3, <1>4, <1>5 DEF Primary

(* Whatever is stepped over, the end of the file is reported.              *)
LEMMA StepOverExplained ==
  ASSUME ErrorInv, NEW good \in BOOLEAN, Cur = "eof" => ~good, StepOver(good), val' = val
  PROVE  ErrorInv' /\ (reported => reported')
<1>1. reported' = (reported \/ ~good)  BY DEF StepOver
<1>2. outcome' = outcome \/ ~good  BY DEF StepOver
<1> QED  BY <1>1, <1>2 DEF ErrorInv, CrashExplained

LEMMA NextExplained ==
  ASSUME ErrorInv, [Next]_vars
  PROVE  ErrorInv' /\ (reported => reported')
<1> USE DEF ErrorInv, CrashExplained
<1>1. CASE Lex  BY <1>1 DEF Lex
<1>2. CASE Follow  BY <1>2 DEF Follow
<1>3. CASE Expect  BY <1>3 DEF Expect
<1>4. CASE Ident
  <2> DEFINE good == Cur \in Idents \cup TypeNames
  <2>1. StepOver(good) /\ val' = val  BY <1>4 DEF Ident
  <2>2. Cur = "eof" => ~good  BY EofIsNoName
  <2>3. good \in BOOLEAN  OBVIOUS
  <2> HIDE DEF good
  <2> QED  BY <2>1, <2>2, <2>3, StepOverExplained
<1>5. CASE Path
  <2>1. StepOver(Cur = "'s'") /\ val' = val  BY <1>5 DEF Path
  <2> QED  BY <2>1, StepOverExplained
<1>6. CASE AtPath  BY <1>6 DEF AtPath
<1>7. CASE NewBody  BY <1>7 DEF NewBody
<1>8. CASE Primary  BY <1>8, PrimaryExplained
<1>9. CASE Call  BY <1>9 DEF Call
<1>10. CASE Wrap  BY <1>10 DEF Wrap, Val
<1>11. CASE Deref  BY <1>11 DEF Deref
<1>12. CASE Paren \/ Cast  BY <1>12 DEF Paren, Cast
<1>13. CASE DeclOrExpr  BY <1>13 DEF DeclOrExpr
<1>14. CASE AfterType  BY <1>14 DEF AfterType
<1>15. CASE Target  BY <1>15 DEF Target
<1>16. CASE Pinned \/ Judge  BY <1>16 DEF Pinned, Judge
<1>17. CASE UNCHANGED vars  BY <1>17 DEF vars
<1> QED  BY <1>1, <1>2, <1>3, <1>4, <1>5, <1>6, <1>7, <1>8, <1>9, <1>10, <1>11, <1>12,
            <1>13, <1>14, <1>15, <1>16, <1>17 DEF Next

(* A NULL expression is dereferenced, or the cursor leaves the tokens, only*)
(* after an error has been collected.                                      *)
THEOREM CrashesAreExplained == Spec => []CrashExplained
<1>1. Init => ErrorInv  BY InitExplained
<1>2. ErrorInv /\ [Next]_vars => ErrorInv'  BY NextExplained
<1>3. ErrorInv => CrashExplained  BY DEF ErrorInv
<1> QED  BY <1>1, <1>2, <1>3, PTL DEF Spec

(* Going back (p->pos = mark) takes no error back: what a tentative parse  *)
(* reported stays in the list.                                             *)
THEOREM ErrorsStick == Spec => [][reported => reported']_vars
<1>1. Init => ErrorInv  BY InitExplained
<1>2. ErrorInv /\ [Next]_vars => ErrorInv'  BY NextExplained
<1>3. ErrorInv /\ [Next]_vars => [reported => reported']_vars  BY NextExplained
<1> QED  BY <1>1, <1>2, <1>3, PTL DEF Spec

-----------------------------------------------------------------------------
(* The brackets of the parser.  A symbol of the C stack is a call that     *)
(* either leaves what is open as it finds it (QuietWords), or consumes a   *)
(* closing bracket that is open already (Closers), or the opening one      *)
(* (Openers); Cast and AfterType (Pending) may go back to a mark.  Fits    *)
(* says what a symbol does to the stack of open brackets, Levels and Puts  *)
(* what a sequence of them does, Nests that a rule of the grammar replaces *)
(* a symbol by what does the same, and Pile that the whole C stack takes   *)
(* what is open to nothing, the marks keeping what was open at them.       *)

(* What a symbol still asks for: x is open before it is done, r after.     *)
Closers  == Braced \cup Parened \cup {"]"}
Openers  == {"(", "{"}
Pending  == {"Cast", "AfterType"}
QuietWords == {
    ":", "=", "=>", ">", "?,", "?;", "?>", "At", "AtPath", "Binary",
    "Binary2", "Block", "Call", "CaseBody", "CatchArgs", "CatchBody",
    "CatchName", "CatchRet", "CatchVals", "Decl", "DeclOrExpr", "Decls",
    "Defer", "Deref", "Dims", "Elem", "Else", "ElseIf", "EnumType",
    "ErrorParams", "Expr", "ExprStmt", "Field", "FnOrVar", "FnTypes", "Function", "Id",
    "Init", "Judge", "LoopIf", "Method", "MoreErrorParams", "MoreFnTypes",
    "MoreOldParams", "MoreParams", "MoreVals", "MoreVars", "NewBody",
    "NewType", "NextVar", "OldFn", "OldParams", "Params", "Path",
    "PinName", "Pinned", "Postfix", "Primary", "Raw", "RetExpr", "Size",
    "Slice", "Stmt", "Target", "Type", "Unary", "VarInit", "Wrap", "catch",
    "use"}
StackWords    == QuietWords \cup Closers \cup Openers \cup Pending
Stacks   == Seq({")", "]", "}"})
Over(c, r) == <<c>> \o r
Fits(s, x, r) == /\ s \in Closers => x = Over(Closes[s], r)
                 /\ s \in Openers => r = Over(Closing[s], x)
                 /\ s \notin Closers \cup Openers => x = r

(* The three kinds of symbols are disjoint, and the texts they close with. *)
LEMMA ParenedAre ==
    Parened = {"MethodArgs", "Paren", "Cast", ")", "Args", "BuiltinArgs", "AllocArgs", "CastArgs", "CastType"}
<1>1. DOMAIN CallGrammar = {"Args", "BuiltinArgs", "AllocArgs", "CastArgs", "CastType"}
  BY DEF CallGrammar
<1> QED BY <1>1 DEF Parened

LEMMA ClosesAre ==
    /\ DOMAIN Closes = Closers
    /\ \A s \in Braced : Closes[s] = "}"
    /\ \A s \in Parened : Closes[s] = ")"
    /\ Closes["]"] = "]"
<1>1. \A s \in Parened : s \notin Braced
  BY ParenedAre DEF Braced
<1>2. "]" \notin Parened /\ "]" \notin Braced
  BY ParenedAre DEF Braced
<1> QED BY <1>1, <1>2 DEF Closes, Closers

LEMMA ClosingIs == DOMAIN Closing = {"(", "[", "{"} /\ Closing["("] = ")" /\ Closing["["] = "]" /\ Closing["{"] = "}"
  BY DEF Closing

LEMMA QuietAre ==
    /\ ":" \in QuietWords /\ "=" \in QuietWords /\ "=>" \in QuietWords
    /\ ">" \in QuietWords /\ "?," \in QuietWords /\ "?;" \in QuietWords
    /\ "?>" \in QuietWords /\ "At" \in QuietWords /\ "AtPath" \in QuietWords
    /\ "Binary" \in QuietWords /\ "Binary2" \in QuietWords /\ "Block" \in QuietWords
    /\ "Call" \in QuietWords /\ "CaseBody" \in QuietWords /\ "CatchArgs" \in QuietWords
    /\ "CatchBody" \in QuietWords /\ "CatchName" \in QuietWords /\ "CatchRet" \in QuietWords
    /\ "CatchVals" \in QuietWords /\ "Decl" \in QuietWords /\ "DeclOrExpr" \in QuietWords
    /\ "Decls" \in QuietWords /\ "Defer" \in QuietWords /\ "Deref" \in QuietWords
    /\ "Dims" \in QuietWords /\ "Elem" \in QuietWords /\ "Else" \in QuietWords
    /\ "ElseIf" \in QuietWords /\ "EnumType" \in QuietWords /\ "ErrorParams" \in QuietWords
    /\ "Expr" \in QuietWords /\ "ExprStmt" \in QuietWords /\ "Field" \in QuietWords
    /\ "FnOrVar" \in QuietWords /\ "FnTypes" \in QuietWords /\ "Id" \in QuietWords
    /\ "Init" \in QuietWords /\ "Judge" \in QuietWords /\ "LoopIf" \in QuietWords
    /\ "Method" \in QuietWords /\ "MoreErrorParams" \in QuietWords /\ "MoreFnTypes" \in QuietWords
    /\ "MoreOldParams" \in QuietWords /\ "MoreParams" \in QuietWords /\ "MoreVals" \in QuietWords
    /\ "MoreVars" \in QuietWords /\ "NewBody" \in QuietWords /\ "NewType" \in QuietWords
    /\ "NextVar" \in QuietWords /\ "OldFn" \in QuietWords /\ "OldParams" \in QuietWords
    /\ "Params" \in QuietWords /\ "Path" \in QuietWords /\ "PinName" \in QuietWords
    /\ "Pinned" \in QuietWords /\ "Postfix" \in QuietWords /\ "Primary" \in QuietWords
    /\ "Raw" \in QuietWords /\ "RetExpr" \in QuietWords /\ "Size" \in QuietWords
    /\ "Slice" \in QuietWords /\ "Stmt" \in QuietWords /\ "Target" \in QuietWords
    /\ "Type" \in QuietWords /\ "Unary" \in QuietWords /\ "VarInit" \in QuietWords
    /\ "Wrap" \in QuietWords /\ "catch" \in QuietWords /\ "use" \in QuietWords
    /\ "Function" \in QuietWords
  BY DEF QuietWords

LEMMA QuietType ==
    /\ \A s \in QuietWords : s \in StackWords /\ s \notin Closers /\ s \notin Openers /\ s \notin Pending
    /\ <<>> \in Seq(QuietWords)
<1>1. /\ "Stmts" \notin QuietWords /\ "Cases" \notin QuietWords /\ "Arms" \notin QuietWords
      /\ "Catches" \notin QuietWords /\ "InitList" \notin QuietWords /\ "Fields" \notin QuietWords
      /\ "Members" \notin QuietWords
  BY DEF QuietWords
<1>2. /\ "MethodArgs" \notin QuietWords /\ "Paren" \notin QuietWords /\ "Cast" \notin QuietWords
      /\ ")" \notin QuietWords /\ "Args" \notin QuietWords /\ "BuiltinArgs" \notin QuietWords
      /\ "AllocArgs" \notin QuietWords /\ "CastArgs" \notin QuietWords /\ "CastType" \notin QuietWords
  BY DEF QuietWords
<1>3. /\ "]" \notin QuietWords /\ "(" \notin QuietWords /\ "{" \notin QuietWords
      /\ "AfterType" \notin QuietWords
  BY DEF QuietWords
<1>4. \A s \in Braced \cup Openers \cup Pending : s \notin QuietWords
  BY <1>1, <1>2, <1>3 DEF Braced, Openers, Pending
<1>5. \A s \in Parened \cup {"]"} : s \notin QuietWords
  BY <1>2, <1>3, ParenedAre
<1>6. <<>> \in Seq(QuietWords)
  OBVIOUS
<1> QED BY <1>4, <1>5, <1>6 DEF StackWords, Closers

LEMMA CloserType == \A s \in Closers : s \in StackWords /\ s \notin Openers /\ (s # "Cast" => s \notin Pending)
  BY ParenedAre DEF StackWords, Closers, Openers, Pending, Braced

LEMMA Enders ==
    /\ "Stmts" \in Closers /\ Closes["Stmts"] = "}"
    /\ "Cases" \in Closers /\ Closes["Cases"] = "}"
    /\ "Arms" \in Closers /\ Closes["Arms"] = "}"
    /\ "Catches" \in Closers /\ Closes["Catches"] = "}"
    /\ "InitList" \in Closers /\ Closes["InitList"] = "}"
    /\ "Fields" \in Closers /\ Closes["Fields"] = "}"
    /\ "Members" \in Closers /\ Closes["Members"] = "}"
    /\ "MethodArgs" \in Closers /\ Closes["MethodArgs"] = ")"
    /\ "Paren" \in Closers /\ Closes["Paren"] = ")"
    /\ ")" \in Closers /\ Closes[")"] = ")"
    /\ "Args" \in Closers /\ Closes["Args"] = ")"
    /\ "BuiltinArgs" \in Closers /\ Closes["BuiltinArgs"] = ")"
    /\ "AllocArgs" \in Closers /\ Closes["AllocArgs"] = ")"
    /\ "CastArgs" \in Closers /\ Closes["CastArgs"] = ")"
    /\ "CastType" \in Closers /\ Closes["CastType"] = ")"
    /\ "]" \in Closers /\ Closes["]"] = "]"
  BY ClosesAre, ParenedAre DEF Closers, Braced

LEMMA OpenerType == \A s \in Openers : s \in StackWords /\ s \notin Closers /\ s \notin Pending
  BY ParenedAre DEF StackWords, Openers, Closers, Pending, Braced

OnTop(h, r, S) == /\ h \o r \in Seq(S) /\ h \o r # <<>>
                  /\ Head(h \o r) = h[1] /\ Tail(h \o r) = r

(* A sequence of one in front of another.                                  *)
LEMMA OnTopIs ==
    ASSUME NEW S, NEW h \in Seq(S), Len(h) = 1, NEW r \in Seq(S)
    PROVE  OnTop(h, r, S)
<1> DEFINE q == h \o r
<1>0. /\ q \in Seq(S) /\ Len(q) = Len(h) + Len(r)
      /\ \A i \in 1..Len(h) + Len(r) : q[i] = IF i <= Len(h) THEN h[i] ELSE r[i - Len(h)]
  BY ConcatProperties
<1> HIDE DEF q
<1>1. q \in Seq(S) /\ Len(q) = 1 + Len(r)
  BY <1>0
<1>2. q[1] = h[1] /\ \A i \in 1..Len(r) : q[i + 1] = r[i]
  BY <1>0
<1>3. q # <<>>
  BY <1>1
<1>4. Head(q) = h[1]
  BY <1>1, <1>2, <1>3
<1>5. Tail(q) \in Seq(S) /\ Len(Tail(q)) = Len(r) /\ \A i \in 1..Len(r) : Tail(q)[i] = r[i]
  BY <1>1, <1>2, <1>3
<1>6. Tail(q) = r
  BY <1>5
<1> QED BY <1>1, <1>3, <1>4, <1>6 DEF OnTop, q

LEMMA Single ==
    ASSUME NEW S, NEW c \in S
    PROVE  <<c>> \in Seq(S) /\ Len(<<c>>) = 1 /\ <<c>>[1] = c
  OBVIOUS

LEMMA OverIs ==
    ASSUME NEW c \in {")", "]", "}"}, NEW r \in Stacks
    PROVE  /\ Over(c, r) \in Stacks /\ Over(c, r) # <<>>
           /\ Head(Over(c, r)) = c /\ Tail(Over(c, r)) = r
<1> DEFINE S == {")", "]", "}"}
           h == <<c>>
<1>1. r \in Seq(S) /\ c \in S
  BY DEF Stacks
<1> HIDE DEF S
<1>2. h \in Seq(S) /\ Len(h) = 1 /\ h[1] = c
  BY <1>1, Single
<1> HIDE DEF h
<1>3. OnTop(h, r, S)
  BY <1>1, <1>2, OnTopIs
<1> QED BY <1>2, <1>3 DEF Over, Stacks, S, h, OnTop

LEMMA OverTyped ==
    ASSUME NEW r \in Stacks
    PROVE  /\ \A s \in Closers : Over(Closes[s], r) \in Stacks
           /\ \A s \in {"(", "[", "{"} : Over(Closing[s], r) \in Stacks
<1>1. \A s \in Closers : Closes[s] \in {")", "]", "}"}
  BY ClosesAre DEF Closers
<1>2. \A s \in {"(", "[", "{"} : Closing[s] \in {")", "]", "}"}
  BY ClosingIs
<1> QED BY <1>1, <1>2, OverIs

(* Doing the symbols of q takes what is open from x to r.                  *)
Levels(g, q) == \A i \in 1..Len(q) : Fits(q[Len(q) + 1 - i], g[i], g[i - 1])
Puts(q, x, r) == /\ q \in Seq(StackWords) /\ \A i \in 1..Len(q) : q[i] \notin Pending
                 /\ \E g \in [0..Len(q) -> Stacks] : g[0] = r /\ g[Len(q)] = x /\ Levels(g, q)

OneCloses(q, k) ==
    /\ q \in Seq(StackWords) /\ k \in 1..Len(q) /\ q[k] \in Closers \ Pending
    /\ \A i \in 1..Len(q) : i # k => q[i] \in QuietWords
OnePairs(q, j, k) ==
    /\ q \in Seq(StackWords) /\ k \in 1..Len(q) /\ j \in 1..Len(q) /\ j < k
    /\ q[j] \in Openers /\ q[k] \in Closers \ Pending /\ Closing[q[j]] = Closes[q[k]]
    /\ \A i \in 1..Len(q) : i # j /\ i # k => q[i] \in QuietWords

(* Sequences of quiet symbols, with one that closes a bracket, with a pair.*)
LEMMA QuietPut == ASSUME NEW q \in Seq(QuietWords), NEW r \in Stacks PROVE Puts(q, r, r)
<1> DEFINE g == [i \in 0..Len(q) |-> r]
<1>1. q \in Seq(StackWords) /\ Len(q) \in Nat /\ \A i \in 1..Len(q) : q[i] \in QuietWords /\ q[i] \notin Pending
  <2>1. QuietWords \subseteq StackWords
    BY QuietType
  <2> QED BY <2>1, QuietType
<1>2. g \in [0..Len(q) -> Stacks] /\ g[0] = r /\ g[Len(q)] = r
  BY <1>1
<1>3. ASSUME NEW i \in 1..Len(q) PROVE Fits(q[Len(q) + 1 - i], g[i], g[i - 1])
  <2>1. Len(q) + 1 - i \in 1..Len(q) /\ g[i] = r /\ g[i - 1] = r
    BY <1>1
  <2> QED BY <1>1, <2>1, QuietType DEF Fits
<1> QED BY <1>1, <1>2, <1>3 DEF Puts, Levels

LEMMA OneClosesPut ==
    ASSUME NEW q, NEW k, OneCloses(q, k), NEW r \in Stacks
    PROVE  Puts(q, Over(Closes[q[k]], r), r)
<1> DEFINE n == Len(q)
           y == Over(Closes[q[k]], r)
           g == [i \in 0..n |-> IF i >= n + 1 - k THEN y ELSE r]
<1>1. q \in Seq(StackWords) /\ n \in Nat /\ k \in 1..n /\ y \in Stacks /\ q[k] \in Closers \ Pending
  <2>1. q \in Seq(StackWords) /\ n \in Nat /\ k \in 1..n /\ q[k] \in Closers \ Pending
    BY DEF OneCloses
  <2>2. y \in Stacks
    BY <2>1, OverTyped
  <2> QED BY <2>1, <2>2
<1> HIDE DEF n, y
<1>2. g \in [0..n -> Stacks] /\ g[0] = r /\ g[n] = y
  BY <1>1
<1>3. ASSUME NEW i \in 1..n PROVE Fits(q[n + 1 - i], g[i], g[i - 1])
  <2>1. n + 1 - i \in 1..n /\ g[i] = (IF i >= n + 1 - k THEN y ELSE r) /\ g[i - 1] = (IF i - 1 >= n + 1 - k THEN y ELSE r)
    BY <1>1
  <2>2. CASE n + 1 - i = k
    <3>1. g[i] = y /\ g[i - 1] = r
      BY <1>1, <2>1, <2>2
    <3>2. q[k] \in Closers /\ q[k] \notin Openers
      BY <1>1, CloserType
    <3> QED BY <2>2, <3>1, <3>2 DEF Fits, y
  <2>3. CASE n + 1 - i # k
    <3>1. g[i] = g[i - 1]
      BY <1>1, <2>1, <2>3
    <3>2. q[n + 1 - i] \in QuietWords
      BY <2>1, <2>3 DEF OneCloses, n
    <3> QED BY <3>1, <3>2, QuietType DEF Fits
  <2> QED BY <2>2, <2>3
<1>4. \A i \in 1..n : q[i] \notin Pending
  BY QuietType DEF OneCloses, n
<1> QED BY <1>1, <1>2, <1>3, <1>4 DEF Puts, Levels, n, y

LEMMA OnePairsPut ==
    ASSUME NEW q, NEW j, NEW k, OnePairs(q, j, k), NEW r \in Stacks
    PROVE  Puts(q, r, r)
<1> DEFINE n == Len(q)
           y == Over(Closes[q[k]], r)
           g == [i \in 0..n |-> IF i >= n + 1 - k /\ i < n + 1 - j THEN y ELSE r]
<1>1. /\ q \in Seq(StackWords) /\ n \in Nat /\ k \in 1..n /\ j \in 1..n /\ j < k /\ y \in Stacks
      /\ q[j] \in Openers /\ q[k] \in Closers \ Pending /\ y = Over(Closing[q[j]], r)
  <2>1. /\ q \in Seq(StackWords) /\ n \in Nat /\ k \in 1..n /\ j \in 1..n /\ j < k
        /\ q[j] \in Openers /\ q[k] \in Closers \ Pending /\ Closing[q[j]] = Closes[q[k]]
    BY DEF OnePairs
  <2>2. y \in Stacks
    BY <2>1, OverTyped
  <2> QED BY <2>1, <2>2
<1> HIDE DEF n, y
<1>2. g \in [0..n -> Stacks] /\ g[0] = r /\ g[n] = r
  BY <1>1
<1>3. ASSUME NEW i \in 1..n PROVE Fits(q[n + 1 - i], g[i], g[i - 1])
  <2>1. /\ n + 1 - i \in 1..n
        /\ g[i] = (IF i >= n + 1 - k /\ i < n + 1 - j THEN y ELSE r)
        /\ g[i - 1] = (IF i - 1 >= n + 1 - k /\ i - 1 < n + 1 - j THEN y ELSE r)
    BY <1>1
  <2>2. CASE n + 1 - i = k
    <3>1. g[i] = y /\ g[i - 1] = r
      BY <1>1, <2>1, <2>2
    <3> QED BY <1>1, <2>2, <3>1, CloserType DEF Fits, y
  <2>4. CASE n + 1 - i = j
    <3>1. g[i] = r /\ g[i - 1] = y
      BY <1>1, <2>1, <2>4
    <3>2. q[j] \notin Closers
      BY <1>1, OpenerType
    <3> QED BY <1>1, <2>4, <3>1, <3>2 DEF Fits
  <2>3. CASE n + 1 - i # k /\ n + 1 - i # j
    <3>1. g[i] = g[i - 1]
      BY <1>1, <2>1, <2>3
    <3>2. q[n + 1 - i] \in QuietWords
      BY <2>1, <2>3 DEF OnePairs, n
    <3> QED BY <3>1, <3>2, QuietType DEF Fits
  <2> QED BY <2>2, <2>3, <2>4
<1>4. \A i \in 1..n : q[i] \notin Pending
  BY QuietType, OpenerType DEF OnePairs, n
<1> QED BY <1>1, <1>2, <1>3, <1>4 DEF Puts, Levels, n, y

(* What a row may do: the token that is stepped over, if any, and what is  *)
(* then to be done take what is open to where the symbol s would.          *)
Turns(s, q) == \A x, r \in Stacks : Fits(s, x, r) => Puts(q, x, r)
Eats(s, k, q) ==
    /\ k \in {")", "]", "}"} => s \in Closers /\ Closes[s] = k /\ \A r \in Stacks : Puts(q, r, r)
    /\ k \in {"(", "[", "{"} => \A x, r \in Stacks : Fits(s, x, r) => Puts(q, Over(Closing[k], x), r)
    /\ k \notin {")", "]", "}", "(", "[", "{"} => Turns(s, q)
RowNests(s, row)   == IF row.eaten THEN Eats(s, row.at, row.then) ELSE Turns(s, row.then)
RowsNest(s, rows)  == \A row \in rows : RowNests(s, row)
RuleNests(s, rule) == s \notin Pending /\ RowsNest(s, rule.rows) /\ Turns(s, rule.other)
Nests(grammar)     == \A s \in DOMAIN grammar : RuleNests(s, grammar[s])

(* The parts of a rule.                                                    *)
LEMMA EatNests ==
    ASSUME NEW s, NEW q, NEW ks, \A k \in ks : Eats(s, k, q) PROVE RowsNest(s, Eat(ks, q))
  BY DEF RowsNest, RowNests, Eat

LEMMA SeeNests ==
    ASSUME NEW s, NEW q, NEW ks, Turns(s, q) PROVE RowsNest(s, See(ks, q))
  BY DEF RowsNest, RowNests, See

LEMMA BothNest ==
    ASSUME NEW s, NEW A, NEW B, RowsNest(s, A), RowsNest(s, B) PROVE RowsNest(s, A \cup B)
  BY DEF RowsNest

LEMMA NoneNest == ASSUME NEW s PROVE RowsNest(s, {})
  BY DEF RowsNest

LEMMA RuleIs ==
    ASSUME NEW s, s \notin Pending, NEW rows, NEW q, RowsNest(s, rows), Turns(s, q) PROVE RuleNests(s, Rule(rows, q))
  BY DEF RuleNests, Rule

(* A row whose token calls for nothing, opens or closes a bracket.         *)
LEMMA TurnQuiet == ASSUME NEW s \in QuietWords, NEW q \in Seq(QuietWords) PROVE Turns(s, q)
  BY QuietPut, QuietType DEF Turns, Fits

LEMMA TurnPair ==
    ASSUME NEW s \in QuietWords, NEW q, NEW j, NEW k, OnePairs(q, j, k) PROVE Turns(s, q)
  BY OnePairsPut, QuietType DEF Turns, Fits

LEMMA TurnCloses ==
    ASSUME NEW s \in Closers, NEW q, NEW k, OneCloses(q, k), Closes[q[k]] = Closes[s] PROVE Turns(s, q)
<1>1. ASSUME NEW x \in Stacks, NEW r \in Stacks, Fits(s, x, r) PROVE Puts(q, x, r)
  <2>1. x = Over(Closes[q[k]], r)
    BY <1>1 DEF Fits
  <2> QED BY <2>1, OneClosesPut
<1> QED BY <1>1 DEF Turns

LEMMA EatOpening ==
    ASSUME NEW s \in QuietWords, NEW k \in {"(", "[", "{"}, NEW q, NEW j, OneCloses(q, j), Closes[q[j]] = Closing[k]
    PROVE  Eats(s, k, q)
<1>1. ASSUME NEW x \in Stacks, NEW r \in Stacks, Fits(s, x, r) PROVE Puts(q, Over(Closing[k], x), r)
  BY <1>1, OneClosesPut, QuietType DEF Fits
<1> QED BY <1>1 DEF Eats

LEMMA EatClosing ==
    ASSUME NEW s \in Closers, Closes[s] \in {")", "]", "}"}, NEW q \in Seq(QuietWords)
    PROVE  Eats(s, Closes[s], q)
  BY QuietPut DEF Eats

LEMMA EatOther ==
    ASSUME NEW s, NEW k, k \notin {")", "]", "}", "(", "[", "{"}, NEW q, Turns(s, q) PROVE Eats(s, k, q)
  BY DEF Eats

LEMMA NotPending == \A s \in QuietWords \cup (Closers \ {"Cast"}) : s \notin Pending
  BY QuietType, CloserType

(* The shapes of what is to be done.                                       *)
LEMMA QuietShapes ==
    /\ \A a \in QuietWords : <<a>> \in Seq(QuietWords)
    /\ \A a, b \in QuietWords : <<a, b>> \in Seq(QuietWords)
    /\ \A a, b, c \in QuietWords : <<a, b, c>> \in Seq(QuietWords)
    /\ \A a, b, c, d \in QuietWords : <<a, b, c, d>> \in Seq(QuietWords)
    /\ \A a, b, c, d, e \in QuietWords : <<a, b, c, d, e>> \in Seq(QuietWords)
    /\ \A a, b, c, d, e, f \in QuietWords : <<a, b, c, d, e, f>> \in Seq(QuietWords)
  OBVIOUS

LEMMA CloseShapes ==
    /\ \A c \in Closers \ {"Cast"} : OneCloses(<<c>>, 1)
    /\ \A q1 \in QuietWords, c \in Closers \ {"Cast"} : OneCloses(<<q1, c>>, 2)
    /\ \A q2 \in QuietWords, c \in Closers \ {"Cast"} : OneCloses(<<c, q2>>, 1)
    /\ \A q1, q3 \in QuietWords, c \in Closers \ {"Cast"} : OneCloses(<<q1, c, q3>>, 2)
    /\ \A q1, q2 \in QuietWords, c \in Closers \ {"Cast"} : OneCloses(<<q1, q2, c>>, 3)
    /\ \A q1, q2, q3 \in QuietWords, c \in Closers \ {"Cast"} : OneCloses(<<q1, q2, q3, c>>, 4)
    /\ \A q1, q2, q4, q5 \in QuietWords, c \in Closers \ {"Cast"} : OneCloses(<<q1, q2, c, q4, q5>>, 3)
    /\ \A q1, q2, q3, q4 \in QuietWords, c \in Closers \ {"Cast"} : OneCloses(<<q1, q2, q3, q4, c>>, 5)
<1>1. ASSUME NEW c \in Closers, c # "Cast"
      PROVE  OneCloses(<<c>>, 1)
  <2>1. c \in StackWords /\ c \notin Pending
    BY QuietType, CloserType, OpenerType, <1>1
  <2>2. <<c>> \in Seq(StackWords)
    BY <2>1
  <2> QED BY <1>1, <2>1, <2>2 DEF OneCloses
<1>2. ASSUME NEW q1 \in QuietWords, NEW c \in Closers, c # "Cast"
      PROVE  OneCloses(<<q1, c>>, 2)
  <2>1. q1 \in StackWords /\ c \in StackWords /\ c \notin Pending
    BY QuietType, CloserType, OpenerType, <1>2
  <2>2. <<q1, c>> \in Seq(StackWords)
    BY <2>1
  <2> QED BY <1>2, <2>1, <2>2 DEF OneCloses
<1>8. ASSUME NEW q2 \in QuietWords, NEW c \in Closers, c # "Cast"
      PROVE  OneCloses(<<c, q2>>, 1)
  <2>1. q2 \in StackWords /\ c \in StackWords /\ c \notin Pending
    BY QuietType, CloserType, OpenerType, <1>8
  <2>2. <<c, q2>> \in Seq(StackWords)
    BY <2>1
  <2> QED BY <1>8, <2>1, <2>2 DEF OneCloses
<1>3. ASSUME NEW q1 \in QuietWords, NEW q3 \in QuietWords, NEW c \in Closers, c # "Cast"
      PROVE  OneCloses(<<q1, c, q3>>, 2)
  <2>1. q1 \in StackWords /\ q3 \in StackWords /\ c \in StackWords /\ c \notin Pending
    BY QuietType, CloserType, OpenerType, <1>3
  <2>2. <<q1, c, q3>> \in Seq(StackWords)
    BY <2>1
  <2> QED BY <1>3, <2>1, <2>2 DEF OneCloses
<1>4. ASSUME NEW q1 \in QuietWords, NEW q2 \in QuietWords, NEW c \in Closers, c # "Cast"
      PROVE  OneCloses(<<q1, q2, c>>, 3)
  <2>1. q1 \in StackWords /\ q2 \in StackWords /\ c \in StackWords /\ c \notin Pending
    BY QuietType, CloserType, OpenerType, <1>4
  <2>2. <<q1, q2, c>> \in Seq(StackWords)
    BY <2>1
  <2> QED BY <1>4, <2>1, <2>2 DEF OneCloses
<1>5. ASSUME NEW q1 \in QuietWords, NEW q2 \in QuietWords, NEW q3 \in QuietWords, NEW c \in Closers, c # "Cast"
      PROVE  OneCloses(<<q1, q2, q3, c>>, 4)
  <2>1. q1 \in StackWords /\ q2 \in StackWords /\ q3 \in StackWords /\ c \in StackWords /\ c \notin Pending
    BY QuietType, CloserType, OpenerType, <1>5
  <2>2. <<q1, q2, q3, c>> \in Seq(StackWords)
    BY <2>1
  <2> QED BY <1>5, <2>1, <2>2 DEF OneCloses
<1>6. ASSUME NEW q1 \in QuietWords, NEW q2 \in QuietWords, NEW q4 \in QuietWords, NEW q5 \in QuietWords, NEW c \in Closers, c # "Cast"
      PROVE  OneCloses(<<q1, q2, c, q4, q5>>, 3)
  <2>1. q1 \in StackWords /\ q2 \in StackWords /\ q4 \in StackWords /\ q5 \in StackWords /\ c \in StackWords /\ c \notin Pending
    BY QuietType, CloserType, OpenerType, <1>6
  <2>2. <<q1, q2, c, q4, q5>> \in Seq(StackWords)
    BY <2>1
  <2> QED BY <1>6, <2>1, <2>2 DEF OneCloses
<1>7. ASSUME NEW q1 \in QuietWords, NEW q2 \in QuietWords, NEW q3 \in QuietWords, NEW q4 \in QuietWords, NEW c \in Closers, c # "Cast"
      PROVE  OneCloses(<<q1, q2, q3, q4, c>>, 5)
  <2>1. q1 \in StackWords /\ q2 \in StackWords /\ q3 \in StackWords /\ q4 \in StackWords /\ c \in StackWords /\ c \notin Pending
    BY QuietType, CloserType, OpenerType, <1>7
  <2>2. <<q1, q2, q3, q4, c>> \in Seq(StackWords)
    BY <2>1
  <2> QED BY <1>7, <2>1, <2>2 DEF OneCloses
<1> QED BY <1>1, <1>2, <1>3, <1>4, <1>5, <1>6, <1>7, <1>8

LEMMA PairShapes ==
    /\ \A o \in Openers, c \in Closers \ {"Cast"} :
          Closing[o] = Closes[c] => OnePairs(<<o, c>>, 1, 2)
    /\ \A q2 \in QuietWords, o \in Openers, c \in Closers \ {"Cast"} :
          Closing[o] = Closes[c] => OnePairs(<<o, q2, c>>, 1, 3)
    /\ \A q1 \in QuietWords, o \in Openers, c \in Closers \ {"Cast"} :
          Closing[o] = Closes[c] => OnePairs(<<q1, o, c>>, 2, 3)
    /\ \A q2, q4 \in QuietWords, o \in Openers, c \in Closers \ {"Cast"} :
          Closing[o] = Closes[c] => OnePairs(<<o, q2, c, q4>>, 1, 3)
    /\ \A q1, q2 \in QuietWords, o \in Openers, c \in Closers \ {"Cast"} :
          Closing[o] = Closes[c] => OnePairs(<<q1, q2, o, c>>, 3, 4)
    /\ \A q2, q4, q5 \in QuietWords, o \in Openers, c \in Closers \ {"Cast"} :
          Closing[o] = Closes[c] => OnePairs(<<o, q2, c, q4, q5>>, 1, 3)
<1>1. ASSUME NEW o \in Openers, NEW c \in Closers, c # "Cast", Closing[o] = Closes[c]
      PROVE  OnePairs(<<o, c>>, 1, 2)
  <2>1. o \in StackWords /\ c \in StackWords /\ c \notin Pending
    BY QuietType, CloserType, OpenerType, <1>1
  <2>2. <<o, c>> \in Seq(StackWords)
    BY <2>1
  <2> QED BY <1>1, <2>1, <2>2 DEF OnePairs
<1>2. ASSUME NEW q2 \in QuietWords, NEW o \in Openers, NEW c \in Closers, c # "Cast", Closing[o] = Closes[c]
      PROVE  OnePairs(<<o, q2, c>>, 1, 3)
  <2>1. q2 \in StackWords /\ o \in StackWords /\ c \in StackWords /\ c \notin Pending
    BY QuietType, CloserType, OpenerType, <1>2
  <2>2. <<o, q2, c>> \in Seq(StackWords)
    BY <2>1
  <2> QED BY <1>2, <2>1, <2>2 DEF OnePairs
<1>3. ASSUME NEW q1 \in QuietWords, NEW o \in Openers, NEW c \in Closers, c # "Cast", Closing[o] = Closes[c]
      PROVE  OnePairs(<<q1, o, c>>, 2, 3)
  <2>1. q1 \in StackWords /\ o \in StackWords /\ c \in StackWords /\ c \notin Pending
    BY QuietType, CloserType, OpenerType, <1>3
  <2>2. <<q1, o, c>> \in Seq(StackWords)
    BY <2>1
  <2> QED BY <1>3, <2>1, <2>2 DEF OnePairs
<1>4. ASSUME NEW q2 \in QuietWords, NEW q4 \in QuietWords, NEW o \in Openers, NEW c \in Closers, c # "Cast", Closing[o] = Closes[c]
      PROVE  OnePairs(<<o, q2, c, q4>>, 1, 3)
  <2>1. q2 \in StackWords /\ q4 \in StackWords /\ o \in StackWords /\ c \in StackWords /\ c \notin Pending
    BY QuietType, CloserType, OpenerType, <1>4
  <2>2. <<o, q2, c, q4>> \in Seq(StackWords)
    BY <2>1
  <2> QED BY <1>4, <2>1, <2>2 DEF OnePairs
<1>5. ASSUME NEW q1 \in QuietWords, NEW q2 \in QuietWords, NEW o \in Openers, NEW c \in Closers, c # "Cast", Closing[o] = Closes[c]
      PROVE  OnePairs(<<q1, q2, o, c>>, 3, 4)
  <2>1. q1 \in StackWords /\ q2 \in StackWords /\ o \in StackWords /\ c \in StackWords /\ c \notin Pending
    BY QuietType, CloserType, OpenerType, <1>5
  <2>2. <<q1, q2, o, c>> \in Seq(StackWords)
    BY <2>1
  <2> QED BY <1>5, <2>1, <2>2 DEF OnePairs
<1>6. ASSUME NEW q2 \in QuietWords, NEW q4 \in QuietWords, NEW q5 \in QuietWords, NEW o \in Openers, NEW c \in Closers, c # "Cast", Closing[o] = Closes[c]
      PROVE  OnePairs(<<o, q2, c, q4, q5>>, 1, 3)
  <2>1. q2 \in StackWords /\ q4 \in StackWords /\ q5 \in StackWords /\ o \in StackWords /\ c \in StackWords /\ c \notin Pending
    BY QuietType, CloserType, OpenerType, <1>6
  <2>2. <<o, q2, c, q4, q5>> \in Seq(StackWords)
    BY <2>1
  <2> QED BY <1>6, <2>1, <2>2 DEF OnePairs
<1> QED BY <1>1, <1>2, <1>3, <1>4, <1>5, <1>6

LEMMA OpenerAre == "(" \in Openers /\ "{" \in Openers /\ Closing["("] = ")" /\ Closing["["] = "]" /\ Closing["{"] = "}"
  BY ClosingIs DEF Openers

(* One sequence after the other.                                           *)
LEMMA Join ==
    ASSUME NEW S, NEW p \in Seq(S), NEW q \in Seq(S)
    PROVE  /\ p \o q \in Seq(S) /\ Len(p \o q) = Len(p) + Len(q)
           /\ \A i \in 1..Len(q) : (p \o q)[Len(p) + Len(q) + 1 - i] = q[Len(q) + 1 - i]
           /\ \A i \in 1..Len(p) : (p \o q)[Len(p) + 1 - i] = p[Len(p) + 1 - i]
           /\ \A i \in 1..Len(p) : (p \o q)[i] = p[i]
           /\ \A i \in 1..Len(q) : (p \o q)[Len(p) + i] = q[i]
<1>1. /\ p \o q \in Seq(S) /\ Len(p \o q) = Len(p) + Len(q)
      /\ \A i \in 1..Len(p) + Len(q) : (p \o q)[i] = IF i <= Len(p) THEN p[i] ELSE q[i - Len(p)]
  BY ConcatProperties
<1>2. Len(p) \in Nat /\ Len(q) \in Nat
  OBVIOUS
<1> QED BY <1>1, <1>2

(* What two sequences do, one after the other.                             *)
LEMMA PutBoth ==
    ASSUME NEW p, NEW q, NEW x, NEW y, NEW r, Puts(p, x, y), Puts(q, y, r)
    PROVE  Puts(p \o q, x, r)
<1> DEFINE m == Len(p)
           n == Len(q)
           s == p \o q
<1>1. PICK h \in [0..m -> Stacks] : h[0] = y /\ h[m] = x /\ Levels(h, p)
  BY DEF Puts
<1>2. PICK g \in [0..n -> Stacks] : g[0] = r /\ g[n] = y /\ Levels(g, q)
  BY DEF Puts
<1>3. p \in Seq(StackWords) /\ q \in Seq(StackWords) /\ m \in Nat /\ n \in Nat
  BY DEF Puts
<1>4. /\ s \in Seq(StackWords) /\ Len(s) = m + n
      /\ \A i \in 1..n : s[m + n + 1 - i] = q[n + 1 - i]
      /\ \A i \in 1..m : s[m + 1 - i] = p[m + 1 - i]
  BY <1>3, Join
<1>5. \A i \in 1..Len(s) : s[i] \notin Pending
  <2>1. (\A i \in 1..m : s[i] = p[i]) /\ \A i \in 1..n : s[m + i] = q[i]
    BY <1>3, Join
  <2>2. (\A i \in 1..m : p[i] \notin Pending) /\ \A i \in 1..n : q[i] \notin Pending
    BY DEF Puts
  <2> HIDE DEF s, m, n
  <2>3. ASSUME NEW i \in 1..(m + n) PROVE s[i] \notin Pending
    <3>1. CASE i <= m
      <4>1. i \in 1..m
        BY <1>3, <3>1
      <4> QED BY <2>1, <2>2, <4>1
    <3>2. CASE i > m
      <4>1. i - m \in 1..n /\ m + (i - m) = i
        BY <1>3, <3>2
      <4>2. s[m + (i - m)] = q[i - m] /\ q[i - m] \notin Pending
        BY <2>1, <2>2, <4>1
      <4> QED BY <4>1, <4>2
    <3> QED BY <1>3, <3>1, <3>2
  <2> QED BY <1>4, <2>3
<1> DEFINE w == [i \in 0..(m + n) |-> IF i <= n THEN g[i] ELSE h[i - n]]
<1> HIDE DEF m, n, s
<1>6. w \in [0..(m + n) -> Stacks] /\ w[0] = r /\ w[m + n] = x
  <2>1. \A i \in 0..(m + n) : IF i <= n THEN i \in 0..n ELSE i - n \in 0..m
    BY <1>3
  <2>2. w \in [0..(m + n) -> Stacks]
    BY <1>1, <1>2, <2>1
  <2>3. 0 \in 0..(m + n) /\ 0 <= n /\ m + n \in 0..(m + n) /\ m + n - n = m
    BY <1>3
  <2>4. CASE m = 0
    <3>1. m + n = n
      BY <1>3, <2>4
    <3> QED BY <1>1, <1>2, <1>3, <2>2, <2>3, <2>4, <3>1
  <2>5. CASE m # 0
    <3>1. ~ (m + n <= n)
      BY <1>3, <2>5
    <3>2. w[0] = g[0]
      BY <2>3
    <3>3. w[m + n] = h[m]
      BY <1>3, <2>3, <3>1
    <3> QED BY <1>1, <1>2, <2>2, <3>2, <3>3
  <2> QED BY <2>4, <2>5
<1>7. ASSUME NEW i \in 1..(m + n) PROVE Fits(s[m + n + 1 - i], w[i], w[i - 1])
  <2>1. CASE i <= n
    <3>1. i \in 1..n /\ w[i] = g[i] /\ w[i - 1] = g[i - 1]
      BY <1>3, <2>1
    <3> QED BY <1>2, <1>4, <3>1 DEF Levels, n
  <2>2. CASE i > n
    <3>1. i - n \in 1..m /\ w[i] = h[i - n] /\ w[i - 1] = h[i - n - 1]
      BY <1>1, <1>2, <1>3, <2>2
    <3>2. s[m + n + 1 - i] = p[m + 1 - (i - n)]
      <4>1. m + 1 - (i - n) = m + n + 1 - i
        BY <1>3
      <4> QED BY <1>4, <3>1, <4>1
    <3> QED BY <1>1, <3>1, <3>2 DEF Levels, m
  <2> QED BY <1>3, <2>1, <2>2
<1> HIDE DEF w
<1> QED BY <1>4, <1>5, <1>6, <1>7 DEF Puts, Levels, s

LEMMA ThreeAndTwo ==
    ASSUME NEW S, NEW a \in S, NEW b \in S, NEW c \in S, NEW d \in S, NEW e \in S
    PROVE  <<a, b, c>> \o <<d, e>> = <<a, b, c, d, e>>
<1> DEFINE p == <<a, b, c>>
           q == <<d, e>>
           t == <<a, b, c, d, e>>
<1>1. p \in Seq(S) /\ Len(p) = 3 /\ p[1] = a /\ p[2] = b /\ p[3] = c
  OBVIOUS
<1>2. q \in Seq(S) /\ Len(q) = 2 /\ q[1] = d /\ q[2] = e
  OBVIOUS
<1>3. t \in Seq(S) /\ Len(t) = 5 /\ t[1] = a /\ t[2] = b /\ t[3] = c /\ t[4] = d /\ t[5] = e
  OBVIOUS
<1> HIDE DEF p, q, t
<1>4. p \o q \in Seq(S) /\ Len(p \o q) = Len(p) + Len(q)
  BY <1>1, <1>2, Join
<1>5. (\A i \in 1..Len(p) : (p \o q)[i] = p[i]) /\ \A i \in 1..Len(q) : (p \o q)[Len(p) + i] = q[i]
  <2>1. p \in Seq(S) /\ q \in Seq(S)
    BY <1>1, <1>2
  <2> QED BY <2>1, Join
<1> DEFINE s == p \o q
<1>6. s \in Seq(S) /\ Len(s) = 5 /\ s[1] = a /\ s[2] = b /\ s[3] = c /\ s[4] = d /\ s[5] = e
  <2>1. 1 \in 1..3 /\ 2 \in 1..3 /\ 3 \in 1..3 /\ 1 \in 1..2 /\ 2 \in 1..2
    OBVIOUS
  <2>2. s[1] = p[1] /\ s[2] = p[2] /\ s[3] = p[3] /\ s[3 + 1] = q[1] /\ s[3 + 2] = q[2]
    BY <1>1, <1>2, <1>5, <2>1
  <2> QED BY <1>1, <1>2, <1>4, <2>2
<1> HIDE DEF s
<1>7. \A i \in 1..5 : s[i] = t[i]
  BY <1>3, <1>6
<1>8. s = t
  BY <1>3, <1>6, <1>7
<1> QED BY <1>8 DEF s, p, q, t

LEMMA TwoPairsPut ==
    ASSUME NEW a \in QuietWords, NEW o \in Openers, NEW c \in Closers, c # "Cast", Closing[o] = Closes[c],
           NEW p \in Openers, NEW d \in Closers, d # "Cast", Closing[p] = Closes[d], NEW r \in Stacks
    PROVE  Puts(<<o, a, c, p, d>>, r, r)
<1>1. OnePairs(<<o, a, c>>, 1, 3) /\ OnePairs(<<p, d>>, 1, 2)
  BY PairShapes
<1>2. Puts(<<o, a, c>>, r, r) /\ Puts(<<p, d>>, r, r)
  BY <1>1, OnePairsPut
<1>3. Puts(<<o, a, c>> \o <<p, d>>, r, r)
  BY <1>2, PutBoth
<1>4. o \in StackWords /\ a \in StackWords /\ c \in StackWords /\ p \in StackWords /\ d \in StackWords
  BY QuietType, CloserType, OpenerType
<1>5. <<o, a, c>> \o <<p, d>> = <<o, a, c, p, d>>
  BY <1>4, ThreeAndTwo
<1> QED BY <1>3, <1>5

LEMMA MatchTurns == Turns("Stmt", <<"(", "Expr", ")", "{", "Arms">>)
<1>1. ASSUME NEW r \in Stacks PROVE Puts(<<"(", "Expr", ")", "{", "Arms">>, r, r)
  BY QuietAre, Enders, OpenerAre, TwoPairsPut
<1> QED BY <1>1, QuietAre, QuietType DEF Turns, Fits

(* Every table of the grammar, rule by rule and row by row.                *)
LEMMA TypeNests == Nests(TypeGrammar)
<1>1. RuleNests("Type", TypeGrammar.Type)
  <2>1. RowsNest("Type", Eat(PointerOps, <<"Type", "Dims">>))
    BY TurnQuiet, QuietAre, QuietType, QuietShapes, EatOther, EatNests DEF PointerOps
  <2>2. RowsNest("Type", Eat({"queue"}, <<"Elem", "Size", "Dims">>))
    BY TurnQuiet, QuietAre, QuietType, QuietShapes, EatOther, EatNests
  <2>3. RowsNest("Type", Eat({"stack"}, <<"Elem", "Dims">>))
    BY TurnQuiet, QuietAre, QuietType, QuietShapes, EatOther, EatNests
  <2>4. OnePairs(<<"(", "FnTypes", ")", "Type", "Dims">>, 1, 3)
    BY QuietAre, Enders, OpenerAre, PairShapes
  <2>5. RowsNest("Type", Eat({"fn"}, <<"(", "FnTypes", ")", "Type", "Dims">>))
    BY <2>4, TurnPair, QuietAre, EatOther, EatNests
  <2>6. Turns("Type", <<"Id", "Dims">>)
    BY TurnQuiet, QuietAre, QuietType, QuietShapes
  <2> QED BY <2>1, <2>2, <2>3, <2>5, <2>6, BothNest, NoneNest, RuleIs, NotPending, QuietAre, Enders DEF TypeGrammar
<1>2. RuleNests("Elem", TypeGrammar.Elem)
  <2>1. RowsNest("Elem", Eat({"<"}, <<"Type", ">">>))
    BY TurnQuiet, QuietAre, QuietType, QuietShapes, EatOther, EatNests
  <2>2. Turns("Elem", <<"Type">>)
    BY TurnQuiet, QuietAre, QuietType, QuietShapes
  <2> QED BY <2>1, <2>2, BothNest, NoneNest, RuleIs, NotPending, QuietAre, Enders DEF TypeGrammar
<1>3. RuleNests("Size", TypeGrammar.Size)
  <2>1. OneCloses(<<"Expr", ")">>, 2)
    BY QuietAre, Enders, CloseShapes
  <2>2. RowsNest("Size", Eat({"("}, <<"Expr", ")">>))
    BY <2>1, EatOpening, Enders, ClosingIs, QuietAre, EatNests
  <2>3. Turns("Size", <<>>)
    BY TurnQuiet, QuietAre, QuietType, QuietShapes
  <2> QED BY <2>2, <2>3, BothNest, NoneNest, RuleIs, NotPending, QuietAre, Enders DEF TypeGrammar, QueueSize
<1>4. RuleNests("FnTypes", TypeGrammar.FnTypes)
  <2>1. RowsNest("FnTypes", See({")"}, <<>>))
    BY TurnQuiet, QuietAre, QuietType, QuietShapes, SeeNests
  <2>2. Turns("FnTypes", <<"Type", "MoreFnTypes">>)
    BY TurnQuiet, QuietAre, QuietType, QuietShapes
  <2> QED BY <2>1, <2>2, BothNest, NoneNest, RuleIs, NotPending, QuietAre, Enders DEF TypeGrammar
<1>5. RuleNests("MoreFnTypes", TypeGrammar.MoreFnTypes)
  <2>1. RowsNest("MoreFnTypes", Eat({","}, <<"FnTypes">>))
    BY TurnQuiet, QuietAre, QuietType, QuietShapes, EatOther, EatNests
  <2>2. Turns("MoreFnTypes", <<>>)
    BY TurnQuiet, QuietAre, QuietType, QuietShapes
  <2> QED BY <2>1, <2>2, BothNest, NoneNest, RuleIs, NotPending, QuietAre, Enders DEF TypeGrammar
<1>6. RuleNests("Dims", TypeGrammar.Dims)
  <2>1. OneCloses(<<"Expr", "]", "Dims">>, 2)
    BY QuietAre, Enders, CloseShapes
  <2>2. RowsNest("Dims", Eat({"["}, <<"Expr", "]", "Dims">>))
    BY <2>1, EatOpening, Enders, ClosingIs, QuietAre, EatNests
  <2>3. Turns("Dims", <<>>)
    BY TurnQuiet, QuietAre, QuietType, QuietShapes
  <2> QED BY <2>2, <2>3, BothNest, NoneNest, RuleIs, NotPending, QuietAre, Enders DEF TypeGrammar
<1> QED BY <1>1, <1>2, <1>3, <1>4, <1>5, <1>6 DEF Nests, TypeGrammar

LEMMA CallNests == Nests(CallGrammar)
<1>1. RuleNests("Args", CallGrammar.Args)
  <2>1. RowsNest("Args", Eat({")"}, <<>>))
    BY EatClosing, Enders, QuietType, EatNests
  <2>2. OneCloses(<<"?,", "Args">>, 2)
    BY QuietAre, Enders, CloseShapes
  <2>3. RowsNest("Args", Eat({"..."}, <<"?,", "Args">>))
    BY <2>2, TurnCloses, Enders, EatOther, EatNests
  <2>4. OneCloses(<<"Type", "?,", "Args">>, 3)
    BY QuietAre, Enders, CloseShapes
  <2>5. RowsNest("Args", See(TypeSigns("expr"), <<"Type", "?,", "Args">>))
    BY <2>4, TurnCloses, Enders, SeeNests
  <2>6. OneCloses(<<"Expr", "Deref", "?,", "Args">>, 4)
    BY QuietAre, Enders, CloseShapes
  <2>7. Turns("Args", <<"Expr", "Deref", "?,", "Args">>)
    BY <2>6, TurnCloses, Enders
  <2> QED BY <2>1, <2>3, <2>5, <2>7, BothNest, NoneNest, RuleIs, NotPending, QuietAre, Enders DEF CallGrammar, Arguments, TypeArg, ExprArg
<1>2. RuleNests("BuiltinArgs", CallGrammar.BuiltinArgs)
  <2>1. RowsNest("BuiltinArgs", Eat({")"}, <<>>))
    BY EatClosing, Enders, QuietType, EatNests
  <2>2. OneCloses(<<"?,", "BuiltinArgs">>, 2)
    BY QuietAre, Enders, CloseShapes
  <2>3. RowsNest("BuiltinArgs", Eat({"..."}, <<"?,", "BuiltinArgs">>))
    BY <2>2, TurnCloses, Enders, EatOther, EatNests
  <2>4. OneCloses(<<"Type", "?,", "BuiltinArgs">>, 3)
    BY QuietAre, Enders, CloseShapes
  <2>5. RowsNest("BuiltinArgs", See(TypeSigns("either"), <<"Type", "?,", "BuiltinArgs">>))
    BY <2>4, TurnCloses, Enders, SeeNests
  <2>6. OneCloses(<<"Expr", "Deref", "?,", "BuiltinArgs">>, 4)
    BY QuietAre, Enders, CloseShapes
  <2>7. Turns("BuiltinArgs", <<"Expr", "Deref", "?,", "BuiltinArgs">>)
    BY <2>6, TurnCloses, Enders
  <2> QED BY <2>1, <2>3, <2>5, <2>7, BothNest, NoneNest, RuleIs, NotPending, QuietAre, Enders DEF CallGrammar, Arguments, TypeArg, ExprArg
<1>3. RuleNests("AllocArgs", CallGrammar.AllocArgs)
  <2>1. RowsNest("AllocArgs", Eat({")"}, <<>>))
    BY EatClosing, Enders, QuietType, EatNests
  <2>2. OneCloses(<<"?,", "BuiltinArgs">>, 2)
    BY QuietAre, Enders, CloseShapes
  <2>3. RowsNest("AllocArgs", Eat({"..."}, <<"?,", "BuiltinArgs">>))
    BY <2>2, TurnCloses, Enders, EatOther, EatNests
  <2>4. OneCloses(<<"Type", "?,", "BuiltinArgs">>, 3)
    BY QuietAre, Enders, CloseShapes
  <2>5. RowsNest("AllocArgs", See(TypeSigns("type"), <<"Type", "?,", "BuiltinArgs">>))
    BY <2>4, TurnCloses, Enders, SeeNests
  <2>6. OneCloses(<<"Type", "?,", "BuiltinArgs">>, 3)
    BY QuietAre, Enders, CloseShapes
  <2>7. Turns("AllocArgs", <<"Type", "?,", "BuiltinArgs">>)
    BY <2>6, TurnCloses, Enders
  <2> QED BY <2>1, <2>3, <2>5, <2>7, BothNest, NoneNest, RuleIs, NotPending, QuietAre, Enders DEF CallGrammar, Arguments, TypeArg, ExprArg
<1>4. RuleNests("CastArgs", CallGrammar.CastArgs)
  <2>1. RowsNest("CastArgs", Eat({")"}, <<>>))
    BY EatClosing, Enders, QuietType, EatNests
  <2>2. OneCloses(<<"?,", "CastType">>, 2)
    BY QuietAre, Enders, CloseShapes
  <2>3. RowsNest("CastArgs", Eat({"..."}, <<"?,", "CastType">>))
    BY <2>2, TurnCloses, Enders, EatOther, EatNests
  <2>4. OneCloses(<<"Type", "?,", "CastType">>, 3)
    BY QuietAre, Enders, CloseShapes
  <2>5. RowsNest("CastArgs", See(TypeSigns("either"), <<"Type", "?,", "CastType">>))
    BY <2>4, TurnCloses, Enders, SeeNests
  <2>6. OneCloses(<<"Expr", "Deref", "?,", "CastType">>, 4)
    BY QuietAre, Enders, CloseShapes
  <2>7. Turns("CastArgs", <<"Expr", "Deref", "?,", "CastType">>)
    BY <2>6, TurnCloses, Enders
  <2> QED BY <2>1, <2>3, <2>5, <2>7, BothNest, NoneNest, RuleIs, NotPending, QuietAre, Enders DEF CallGrammar, Arguments, TypeArg, ExprArg
<1>5. RuleNests("CastType", CallGrammar.CastType)
  <2>1. RowsNest("CastType", Eat({")"}, <<>>))
    BY EatClosing, Enders, QuietType, EatNests
  <2>2. OneCloses(<<"?,", "BuiltinArgs">>, 2)
    BY QuietAre, Enders, CloseShapes
  <2>3. RowsNest("CastType", Eat({"..."}, <<"?,", "BuiltinArgs">>))
    BY <2>2, TurnCloses, Enders, EatOther, EatNests
  <2>4. OneCloses(<<"Type", "?,", "BuiltinArgs">>, 3)
    BY QuietAre, Enders, CloseShapes
  <2>5. RowsNest("CastType", See(TypeSigns("type"), <<"Type", "?,", "BuiltinArgs">>))
    BY <2>4, TurnCloses, Enders, SeeNests
  <2>6. OneCloses(<<"Type", "?,", "BuiltinArgs">>, 3)
    BY QuietAre, Enders, CloseShapes
  <2>7. Turns("CastType", <<"Type", "?,", "BuiltinArgs">>)
    BY <2>6, TurnCloses, Enders
  <2> QED BY <2>1, <2>3, <2>5, <2>7, BothNest, NoneNest, RuleIs, NotPending, QuietAre, Enders DEF CallGrammar, Arguments, TypeArg, ExprArg
<1> QED BY <1>1, <1>2, <1>3, <1>4, <1>5 DEF Nests, CallGrammar

LEMMA PostfixNests == Nests(PostfixGrammar)
<1>1. RuleNests("Postfix", PostfixGrammar.Postfix)
  <2>1. OneCloses(<<"Expr", "Slice", "]", "Wrap", "Postfix">>, 3)
    BY QuietAre, Enders, CloseShapes
  <2>2. RowsNest("Postfix", Eat({"["}, <<"Expr", "Slice", "]", "Wrap", "Postfix">>))
    BY <2>1, EatOpening, Enders, ClosingIs, QuietAre, EatNests
  <2>3. RowsNest("Postfix", Eat({"."}, <<"?>", "Id", "Method", "Postfix">>))
    BY TurnQuiet, QuietAre, QuietType, QuietShapes, EatOther, EatNests
  <2>4. RowsNest("Postfix", Eat({"++"}, <<"Wrap", "Postfix">>))
    BY TurnQuiet, QuietAre, QuietType, QuietShapes, EatOther, EatNests
  <2>5. Turns("Postfix", <<>>)
    BY TurnQuiet, QuietAre, QuietType, QuietShapes
  <2> QED BY <2>2, <2>3, <2>4, <2>5, BothNest, NoneNest, RuleIs, NotPending, QuietAre, Enders DEF PostfixGrammar
<1>2. RuleNests("Slice", PostfixGrammar.Slice)
  <2>1. RowsNest("Slice", Eat({":"}, <<"Expr">>))
    BY TurnQuiet, QuietAre, QuietType, QuietShapes, EatOther, EatNests
  <2>2. Turns("Slice", <<>>)
    BY TurnQuiet, QuietAre, QuietType, QuietShapes
  <2> QED BY <2>1, <2>2, BothNest, NoneNest, RuleIs, NotPending, QuietAre, Enders DEF PostfixGrammar
<1>3. RuleNests("Method", PostfixGrammar.Method)
  <2>1. OneCloses(<<"Deref", "MethodArgs", "Wrap">>, 2)
    BY QuietAre, Enders, CloseShapes
  <2>2. RowsNest("Method", Eat({"("}, <<"Deref", "MethodArgs", "Wrap">>))
    BY <2>1, EatOpening, Enders, ClosingIs, QuietAre, EatNests
  <2>3. Turns("Method", <<"Wrap">>)
    BY TurnQuiet, QuietAre, QuietType, QuietShapes
  <2> QED BY <2>2, <2>3, BothNest, NoneNest, RuleIs, NotPending, QuietAre, Enders DEF PostfixGrammar
<1>4. RuleNests("MethodArgs", PostfixGrammar.MethodArgs)
  <2>1. RowsNest("MethodArgs", Eat({")"}, <<>>))
    BY EatClosing, Enders, QuietType, EatNests
  <2>2. OneCloses(<<"Expr", "?,", "MethodArgs">>, 3)
    BY QuietAre, Enders, CloseShapes
  <2>3. Turns("MethodArgs", <<"Expr", "?,", "MethodArgs">>)
    BY <2>2, TurnCloses, Enders
  <2> QED BY <2>1, <2>3, BothNest, NoneNest, RuleIs, NotPending, QuietAre, Enders DEF PostfixGrammar
<1> QED BY <1>1, <1>2, <1>3, <1>4 DEF Nests, PostfixGrammar

LEMMA ExprNests == Nests(ExprGrammar)
<1>1. RuleNests("Expr", ExprGrammar.Expr)
  <2>1. Turns("Expr", <<"Unary", "Binary">>)
    BY TurnQuiet, QuietAre, QuietType, QuietShapes
  <2> QED BY <2>1, BothNest, NoneNest, RuleIs, NotPending, QuietAre, Enders DEF ExprGrammar
<1>2. RuleNests("Unary", ExprGrammar.Unary)
  <2>1. RowsNest("Unary", Eat(UnaryOps, <<"Unary", "Wrap">>))
    BY TurnQuiet, QuietAre, QuietType, QuietShapes, EatOther, EatNests DEF UnaryOps
  <2>2. Turns("Unary", <<"Primary", "Postfix">>)
    BY TurnQuiet, QuietAre, QuietType, QuietShapes
  <2> QED BY <2>1, <2>2, BothNest, NoneNest, RuleIs, NotPending, QuietAre, Enders DEF ExprGrammar
<1>3. RuleNests("Binary", ExprGrammar.Binary)
  <2>1. RowsNest("Binary", Eat(BinOps, <<"Unary", "Binary2">>))
    BY TurnQuiet, QuietAre, QuietType, QuietShapes, EatOther, EatNests DEF BinOps, AssignOps
  <2>2. Turns("Binary", <<>>)
    BY TurnQuiet, QuietAre, QuietType, QuietShapes
  <2> QED BY <2>1, <2>2, BothNest, NoneNest, RuleIs, NotPending, QuietAre, Enders DEF ExprGrammar
<1>4. RuleNests("Binary2", ExprGrammar.Binary2)
  <2>1. RowsNest("Binary2", Eat(BinOps, <<"Unary", "Binary2">>))
    BY TurnQuiet, QuietAre, QuietType, QuietShapes, EatOther, EatNests DEF BinOps, AssignOps
  <2>2. Turns("Binary2", <<"Wrap">>)
    BY TurnQuiet, QuietAre, QuietType, QuietShapes
  <2> QED BY <2>1, <2>2, BothNest, NoneNest, RuleIs, NotPending, QuietAre, Enders DEF ExprGrammar
<1>5. RuleNests("Init", ExprGrammar.Init)
  <2>1. OneCloses(<<"InitList">>, 1)
    BY QuietAre, Enders, CloseShapes
  <2>2. RowsNest("Init", Eat({"{"}, <<"InitList">>))
    BY <2>1, EatOpening, Enders, ClosingIs, QuietAre, EatNests
  <2>3. Turns("Init", <<"Expr">>)
    BY TurnQuiet, QuietAre, QuietType, QuietShapes
  <2> QED BY <2>2, <2>3, BothNest, NoneNest, RuleIs, NotPending, QuietAre, Enders DEF ExprGrammar
<1>6. RuleNests("InitList", ExprGrammar.InitList)
  <2>1. RowsNest("InitList", Eat({"}"}, <<>>))
    BY EatClosing, Enders, QuietType, EatNests
  <2>2. OneCloses(<<"Expr", "?,", "InitList">>, 3)
    BY QuietAre, Enders, CloseShapes
  <2>3. Turns("InitList", <<"Expr", "?,", "InitList">>)
    BY <2>2, TurnCloses, Enders
  <2> QED BY <2>1, <2>3, BothNest, NoneNest, RuleIs, NotPending, QuietAre, Enders DEF ExprGrammar
<1> QED BY <1>1, <1>2, <1>3, <1>4, <1>5, <1>6 DEF Nests, ExprGrammar

LEMMA StmtNests == Nests(StmtGrammar)
<1>1. RuleNests("Stmt", StmtGrammar.Stmt)
  <2>1. OnePairs(<<"{", "Cases">>, 1, 2)
    BY QuietAre, Enders, OpenerAre, PairShapes
  <2>2. RowsNest("Stmt", Eat({"select"}, <<"{", "Cases">>))
    BY <2>1, TurnPair, QuietAre, EatOther, EatNests
  <2>3. OnePairs(<<"(", "Expr", ")", "Block", "Else">>, 1, 3)
    BY QuietAre, Enders, OpenerAre, PairShapes
  <2>4. RowsNest("Stmt", Eat({"if"}, <<"(", "Expr", ")", "Block", "Else">>))
    BY <2>3, TurnPair, QuietAre, EatOther, EatNests
  <2>5. RowsNest("Stmt", Eat({"loop"}, <<"LoopIf", "Block">>))
    BY TurnQuiet, QuietAre, QuietType, QuietShapes, EatOther, EatNests
  <2>6. OnePairs(<<"(", "Expr", ")", "Block">>, 1, 3)
    BY QuietAre, Enders, OpenerAre, PairShapes
  <2>7. RowsNest("Stmt", Eat({"while"}, <<"(", "Expr", ")", "Block">>))
    BY <2>6, TurnPair, QuietAre, EatOther, EatNests
  <2>8. RowsNest("Stmt", Eat({"match"}, <<"(", "Expr", ")", "{", "Arms">>))
    BY MatchTurns, EatOther, EatNests
  <2>9. RowsNest("Stmt", Eat({"defer"}, <<"Defer">>))
    BY TurnQuiet, QuietAre, QuietType, QuietShapes, EatOther, EatNests
  <2>10. RowsNest("Stmt", Eat({"ret"}, <<"RetExpr">>))
    BY TurnQuiet, QuietAre, QuietType, QuietShapes, EatOther, EatNests
  <2>11. RowsNest("Stmt", Eat({"break"}, <<>>))
    BY TurnQuiet, QuietAre, QuietType, QuietShapes, EatOther, EatNests
  <2>12. RowsNest("Stmt", Eat({"pin"}, <<"PinName">>))
    BY TurnQuiet, QuietAre, QuietType, QuietShapes, EatOther, EatNests
  <2>13. RowsNest("Stmt", Eat({"throw"}, <<"Expr">>))
    BY TurnQuiet, QuietAre, QuietType, QuietShapes, EatOther, EatNests
  <2>14. OnePairs(<<"Block", "catch", "{", "Catches">>, 3, 4)
    BY QuietAre, Enders, OpenerAre, PairShapes
  <2>15. RowsNest("Stmt", Eat({"try"}, <<"Block", "catch", "{", "Catches">>))
    BY <2>14, TurnPair, QuietAre, EatOther, EatNests
  <2>16. OneCloses(<<"Stmts">>, 1)
    BY QuietAre, Enders, CloseShapes
  <2>17. RowsNest("Stmt", Eat({"{"}, <<"Stmts">>))
    BY <2>16, EatOpening, Enders, ClosingIs, QuietAre, EatNests
  <2>18. RowsNest("Stmt", Eat({"C"}, <<>>))
    BY TurnQuiet, QuietAre, QuietType, QuietShapes, EatOther, EatNests
  <2>19. Turns("Stmt", <<"DeclOrExpr">>)
    BY TurnQuiet, QuietAre, QuietType, QuietShapes
  <2> QED BY <2>2, <2>4, <2>5, <2>7, <2>8, <2>9, <2>10, <2>11, <2>12, <2>13, <2>15, <2>17, <2>18, <2>19, BothNest, NoneNest, RuleIs, NotPending, QuietAre, Enders DEF StmtGrammar, If
<1>2. RuleNests("Block", StmtGrammar.Block)
  <2>1. OnePairs(<<"{", "Stmts">>, 1, 2)
    BY QuietAre, Enders, OpenerAre, PairShapes
  <2>2. Turns("Block", <<"{", "Stmts">>)
    BY <2>1, TurnPair, QuietAre
  <2> QED BY <2>2, BothNest, NoneNest, RuleIs, NotPending, QuietAre, Enders DEF StmtGrammar
<1>3. RuleNests("Stmts", StmtGrammar.Stmts)
  <2>1. RowsNest("Stmts", Eat({"}"}, <<>>))
    BY EatClosing, Enders, QuietType, EatNests
  <2>2. OneCloses(<<"Stmt", "Stmts">>, 2)
    BY QuietAre, Enders, CloseShapes
  <2>3. Turns("Stmts", <<"Stmt", "Stmts">>)
    BY <2>2, TurnCloses, Enders
  <2> QED BY <2>1, <2>3, BothNest, NoneNest, RuleIs, NotPending, QuietAre, Enders DEF StmtGrammar
<1>4. RuleNests("Cases", StmtGrammar.Cases)
  <2>1. RowsNest("Cases", Eat({"}"}, <<>>))
    BY EatClosing, Enders, QuietType, EatNests
  <2>2. OneCloses(<<"Expr", "=>", "CaseBody", "?,", "Cases">>, 5)
    BY QuietAre, Enders, CloseShapes
  <2>3. Turns("Cases", <<"Expr", "=>", "CaseBody", "?,", "Cases">>)
    BY <2>2, TurnCloses, Enders
  <2> QED BY <2>1, <2>3, BothNest, NoneNest, RuleIs, NotPending, QuietAre, Enders DEF StmtGrammar
<1>5. RuleNests("CaseBody", StmtGrammar.CaseBody)
  <2>1. OneCloses(<<"Stmts">>, 1)
    BY QuietAre, Enders, CloseShapes
  <2>2. RowsNest("CaseBody", Eat({"{"}, <<"Stmts">>))
    BY <2>1, EatOpening, Enders, ClosingIs, QuietAre, EatNests
  <2>3. Turns("CaseBody", <<"Stmt">>)
    BY TurnQuiet, QuietAre, QuietType, QuietShapes
  <2> QED BY <2>2, <2>3, BothNest, NoneNest, RuleIs, NotPending, QuietAre, Enders DEF StmtGrammar
<1>6. RuleNests("Else", StmtGrammar.Else)
  <2>1. RowsNest("Else", Eat({"else"}, <<"ElseIf">>))
    BY TurnQuiet, QuietAre, QuietType, QuietShapes, EatOther, EatNests
  <2>2. Turns("Else", <<>>)
    BY TurnQuiet, QuietAre, QuietType, QuietShapes
  <2> QED BY <2>1, <2>2, BothNest, NoneNest, RuleIs, NotPending, QuietAre, Enders DEF StmtGrammar
<1>7. RuleNests("ElseIf", StmtGrammar.ElseIf)
  <2>1. OnePairs(<<"(", "Expr", ")", "Block", "Else">>, 1, 3)
    BY QuietAre, Enders, OpenerAre, PairShapes
  <2>2. RowsNest("ElseIf", Eat({"if"}, <<"(", "Expr", ")", "Block", "Else">>))
    BY <2>1, TurnPair, QuietAre, EatOther, EatNests
  <2>3. Turns("ElseIf", <<"Block">>)
    BY TurnQuiet, QuietAre, QuietType, QuietShapes
  <2> QED BY <2>2, <2>3, BothNest, NoneNest, RuleIs, NotPending, QuietAre, Enders DEF StmtGrammar, If
<1>8. RuleNests("LoopIf", StmtGrammar.LoopIf)
  <2>1. OnePairs(<<"(", "Expr", ")">>, 1, 3)
    BY QuietAre, Enders, OpenerAre, PairShapes
  <2>2. RowsNest("LoopIf", Eat({"if"}, <<"(", "Expr", ")">>))
    BY <2>1, TurnPair, QuietAre, EatOther, EatNests
  <2>3. Turns("LoopIf", <<>>)
    BY TurnQuiet, QuietAre, QuietType, QuietShapes
  <2> QED BY <2>2, <2>3, BothNest, NoneNest, RuleIs, NotPending, QuietAre, Enders DEF StmtGrammar
<1>9. RuleNests("Arms", StmtGrammar.Arms)
  <2>1. RowsNest("Arms", Eat({"}"}, <<>>))
    BY EatClosing, Enders, QuietType, EatNests
  <2>2. OneCloses(<<"=", "Block", "Arms">>, 3)
    BY QuietAre, Enders, CloseShapes
  <2>3. RowsNest("Arms", Eat({"_"}, <<"=", "Block", "Arms">>))
    BY <2>2, TurnCloses, Enders, EatOther, EatNests
  <2>4. OneCloses(<<"Unary", "=", "Block", "Arms">>, 4)
    BY QuietAre, Enders, CloseShapes
  <2>5. Turns("Arms", <<"Unary", "=", "Block", "Arms">>)
    BY <2>4, TurnCloses, Enders
  <2> QED BY <2>1, <2>3, <2>5, BothNest, NoneNest, RuleIs, NotPending, QuietAre, Enders DEF StmtGrammar
<1>10. RuleNests("Defer", StmtGrammar.Defer)
  <2>1. OneCloses(<<"Stmts">>, 1)
    BY QuietAre, Enders, CloseShapes
  <2>2. RowsNest("Defer", Eat({"{"}, <<"Stmts">>))
    BY <2>1, EatOpening, Enders, ClosingIs, QuietAre, EatNests
  <2>3. Turns("Defer", <<"Stmt">>)
    BY TurnQuiet, QuietAre, QuietType, QuietShapes
  <2> QED BY <2>2, <2>3, BothNest, NoneNest, RuleIs, NotPending, QuietAre, Enders DEF StmtGrammar
<1>11. RuleNests("RetExpr", StmtGrammar.RetExpr)
  <2>1. RowsNest("RetExpr", See({"}"}, <<>>))
    BY TurnQuiet, QuietAre, QuietType, QuietShapes, SeeNests
  <2>2. Turns("RetExpr", <<"Expr">>)
    BY TurnQuiet, QuietAre, QuietType, QuietShapes
  <2> QED BY <2>1, <2>2, BothNest, NoneNest, RuleIs, NotPending, QuietAre, Enders DEF StmtGrammar
<1>12. RuleNests("Catches", StmtGrammar.Catches)
  <2>1. RowsNest("Catches", Eat({"}"}, <<>>))
    BY EatClosing, Enders, QuietType, EatNests
  <2>2. OneCloses(<<"CatchName", "CatchRet", "CatchBody", "?,", "Catches">>, 5)
    BY QuietAre, Enders, CloseShapes
  <2>3. Turns("Catches", <<"CatchName", "CatchRet", "CatchBody", "?,", "Catches">>)
    BY <2>2, TurnCloses, Enders
  <2> QED BY <2>1, <2>3, BothNest, NoneNest, RuleIs, NotPending, QuietAre, Enders DEF StmtGrammar
<1>13. RuleNests("CatchName", StmtGrammar.CatchName)
  <2>1. RowsNest("CatchName", Eat({"_"}, <<>>))
    BY TurnQuiet, QuietAre, QuietType, QuietShapes, EatOther, EatNests
  <2>2. Turns("CatchName", <<"Id", "CatchArgs">>)
    BY TurnQuiet, QuietAre, QuietType, QuietShapes
  <2> QED BY <2>1, <2>2, BothNest, NoneNest, RuleIs, NotPending, QuietAre, Enders DEF StmtGrammar
<1>14. RuleNests("CatchArgs", StmtGrammar.CatchArgs)
  <2>1. OneCloses(<<"CatchVals", ")">>, 2)
    BY QuietAre, Enders, CloseShapes
  <2>2. RowsNest("CatchArgs", Eat({"("}, <<"CatchVals", ")">>))
    BY <2>1, EatOpening, Enders, ClosingIs, QuietAre, EatNests
  <2>3. Turns("CatchArgs", <<>>)
    BY TurnQuiet, QuietAre, QuietType, QuietShapes
  <2> QED BY <2>2, <2>3, BothNest, NoneNest, RuleIs, NotPending, QuietAre, Enders DEF StmtGrammar
<1>15. RuleNests("CatchVals", StmtGrammar.CatchVals)
  <2>1. RowsNest("CatchVals", See({")"}, <<>>))
    BY TurnQuiet, QuietAre, QuietType, QuietShapes, SeeNests
  <2>2. Turns("CatchVals", <<"Expr", "MoreVals">>)
    BY TurnQuiet, QuietAre, QuietType, QuietShapes
  <2> QED BY <2>1, <2>2, BothNest, NoneNest, RuleIs, NotPending, QuietAre, Enders DEF StmtGrammar
<1>16. RuleNests("MoreVals", StmtGrammar.MoreVals)
  <2>1. RowsNest("MoreVals", Eat({","}, <<"Expr", "MoreVals">>))
    BY TurnQuiet, QuietAre, QuietType, QuietShapes, EatOther, EatNests
  <2>2. Turns("MoreVals", <<>>)
    BY TurnQuiet, QuietAre, QuietType, QuietShapes
  <2> QED BY <2>1, <2>2, BothNest, NoneNest, RuleIs, NotPending, QuietAre, Enders DEF StmtGrammar
<1>17. RuleNests("CatchRet", StmtGrammar.CatchRet)
  <2>1. RowsNest("CatchRet", Eat({"ret"}, <<"Expr">>))
    BY TurnQuiet, QuietAre, QuietType, QuietShapes, EatOther, EatNests
  <2>2. Turns("CatchRet", <<>>)
    BY TurnQuiet, QuietAre, QuietType, QuietShapes
  <2> QED BY <2>1, <2>2, BothNest, NoneNest, RuleIs, NotPending, QuietAre, Enders DEF StmtGrammar
<1>18. RuleNests("CatchBody", StmtGrammar.CatchBody)
  <2>1. OneCloses(<<"Stmts">>, 1)
    BY QuietAre, Enders, CloseShapes
  <2>2. RowsNest("CatchBody", Eat({"{"}, <<"Stmts">>))
    BY <2>1, EatOpening, Enders, ClosingIs, QuietAre, EatNests
  <2>3. Turns("CatchBody", <<>>)
    BY TurnQuiet, QuietAre, QuietType, QuietShapes
  <2> QED BY <2>2, <2>3, BothNest, NoneNest, RuleIs, NotPending, QuietAre, Enders DEF StmtGrammar
<1>19. DOMAIN StmtGrammar = {"Stmt", "Block", "Stmts", "Cases", "CaseBody", "Else", "ElseIf", "LoopIf", "Arms", "Defer", "RetExpr", "Catches", "CatchName", "CatchArgs", "CatchVals", "MoreVals", "CatchRet", "CatchBody"}
  BY DEF StmtGrammar
<1> QED BY <1>1, <1>2, <1>3, <1>4, <1>5, <1>6, <1>7, <1>8, <1>9, <1>10, <1>11, <1>12, <1>13, <1>14, <1>15, <1>16, <1>17, <1>18, <1>19 DEF Nests

LEMMA DeclNests == Nests(DeclGrammar)
<1>1. RuleNests("VarInit", DeclGrammar.VarInit)
  <2>1. RowsNest("VarInit", Eat({"="}, <<"Init">>))
    BY TurnQuiet, QuietAre, QuietType, QuietShapes, EatOther, EatNests
  <2>2. Turns("VarInit", <<>>)
    BY TurnQuiet, QuietAre, QuietType, QuietShapes
  <2> QED BY <2>1, <2>2, BothNest, NoneNest, RuleIs, NotPending, QuietAre, Enders DEF DeclGrammar
<1>2. RuleNests("MoreVars", DeclGrammar.MoreVars)
  <2>1. RowsNest("MoreVars", Eat({","}, <<"NextVar">>))
    BY TurnQuiet, QuietAre, QuietType, QuietShapes, EatOther, EatNests
  <2>2. Turns("MoreVars", <<"?;">>)
    BY TurnQuiet, QuietAre, QuietType, QuietShapes
  <2> QED BY <2>1, <2>2, BothNest, NoneNest, RuleIs, NotPending, QuietAre, Enders DEF DeclGrammar
<1>3. RuleNests("NextVar", DeclGrammar.NextVar)
  <2>1. RowsNest("NextVar", See(Idents, <<"Id", "VarInit", "MoreVars">>))
    BY TurnQuiet, QuietAre, QuietType, QuietShapes, SeeNests
  <2>2. Turns("NextVar", <<"?;">>)
    BY TurnQuiet, QuietAre, QuietType, QuietShapes
  <2> QED BY <2>1, <2>2, BothNest, NoneNest, RuleIs, NotPending, QuietAre, Enders DEF DeclGrammar
<1>4. RuleNests("ExprStmt", DeclGrammar.ExprStmt)
  <2>1. Turns("ExprStmt", <<"Unary", "Target">>)
    BY TurnQuiet, QuietAre, QuietType, QuietShapes
  <2> QED BY <2>1, BothNest, NoneNest, RuleIs, NotPending, QuietAre, Enders DEF DeclGrammar
<1> QED BY <1>1, <1>2, <1>3, <1>4 DEF Nests, DeclGrammar

LEMMA TopNests == Nests(TopGrammar)
<1>1. RuleNests("Decls", TopGrammar.Decls)
  <2>1. RowsNest("Decls", Eat({"@"}, <<"At", "Decls">>))
    BY TurnQuiet, QuietAre, QuietType, QuietShapes, EatOther, EatNests
  <2>2. RowsNest("Decls", Eat({"use"}, <<"Path", "Decls">>))
    BY TurnQuiet, QuietAre, QuietType, QuietShapes, EatOther, EatNests
  <2>3. RowsNest("Decls", Eat({"C"}, <<"Decls">>))
    BY TurnQuiet, QuietAre, QuietType, QuietShapes, EatOther, EatNests
  <2>4. RowsNest("Decls", Eat({".s"}, <<"Decl", "Decls">>))
    BY TurnQuiet, QuietAre, QuietType, QuietShapes, EatOther, EatNests
  <2>5. RowsNest("Decls", See({"eof"}, <<>>))
    BY TurnQuiet, QuietAre, QuietType, QuietShapes, SeeNests
  <2>6. Turns("Decls", <<"Decl", "Decls">>)
    BY TurnQuiet, QuietAre, QuietType, QuietShapes
  <2> QED BY <2>1, <2>2, <2>3, <2>4, <2>5, <2>6, BothNest, NoneNest, RuleIs, NotPending, QuietAre, Enders DEF TopGrammar
<1>2. RuleNests("At", TopGrammar.At)
  <2>1. OnePairs(<<"NewType", "{", "Fields">>, 2, 3)
    BY QuietAre, Enders, OpenerAre, PairShapes
  <2>2. RowsNest("At", Eat({"strun"}, <<"NewType", "{", "Fields">>))
    BY <2>1, TurnPair, QuietAre, EatOther, EatNests
  <2>3. Turns("At", <<"use", "AtPath">>)
    BY TurnQuiet, QuietAre, QuietType, QuietShapes
  <2> QED BY <2>2, <2>3, BothNest, NoneNest, RuleIs, NotPending, QuietAre, Enders DEF TopGrammar
<1>3. RuleNests("Decl", TopGrammar.Decl)
  <2>1. OnePairs(<<"NewType", "{", "Fields">>, 2, 3)
    BY QuietAre, Enders, OpenerAre, PairShapes
  <2>2. RowsNest("Decl", Eat({"struct", "strun"}, <<"NewType", "{", "Fields">>))
    BY <2>1, TurnPair, QuietAre, EatOther, EatNests
  <2>3. OnePairs(<<"EnumType", "NewType", "{", "Members">>, 3, 4)
    BY QuietAre, Enders, OpenerAre, PairShapes
  <2>4. RowsNest("Decl", Eat({"enum"}, <<"EnumType", "NewType", "{", "Members">>))
    BY <2>3, TurnPair, QuietAre, EatOther, EatNests
  <2>5. RowsNest("Decl", Eat({"error"}, <<"Id", ":", "ErrorParams", "Block">>))
    BY TurnQuiet, QuietAre, QuietType, QuietShapes, EatOther, EatNests
  <2>6. RowsNest("Decl", Eat({"async"}, <<"Raw">>))
    BY TurnQuiet, QuietAre, QuietType, QuietShapes, EatOther, EatNests
  <2>7. Turns("Decl", <<"Raw">>)
    BY TurnQuiet, QuietAre, QuietType, QuietShapes
  <2> QED BY <2>2, <2>4, <2>5, <2>6, <2>7, BothNest, NoneNest, RuleIs, NotPending, QuietAre, Enders DEF TopGrammar
<1>4. RuleNests("Raw", TopGrammar.Raw)
  <2>1. RowsNest("Raw", Eat({"raw"}, <<"FnOrVar">>))
    BY TurnQuiet, QuietAre, QuietType, QuietShapes, EatOther, EatNests
  <2>2. Turns("Raw", <<"FnOrVar">>)
    BY TurnQuiet, QuietAre, QuietType, QuietShapes
  <2> QED BY <2>1, <2>2, BothNest, NoneNest, RuleIs, NotPending, QuietAre, Enders DEF TopGrammar
<1>5. RuleNests("FnOrVar", TopGrammar.FnOrVar)
  <2>1. RowsNest("FnOrVar", Eat({"fn"}, <<"Function">>))
    BY TurnQuiet, QuietAre, QuietType, QuietShapes, EatOther, EatNests
  <2>2. Turns("FnOrVar", <<"Type", "OldFn">>)
    BY TurnQuiet, QuietAre, QuietType, QuietShapes
  <2> QED BY <2>1, <2>2, BothNest, NoneNest, RuleIs, NotPending, QuietAre, Enders DEF TopGrammar
<1>6. RuleNests("Function", TopGrammar.Function)
  <2>1. Turns("Function", <<"Type", "Id", ":", "Params", "NewBody", "Block">>)
    BY TurnQuiet, QuietAre, QuietType, QuietShapes
  <2> QED BY <2>1, BothNest, NoneNest, RuleIs, NotPending, QuietAre, Enders DEF TopGrammar
<1>7. RuleNests("OldFn", TopGrammar.OldFn)
  <2>1. RowsNest("OldFn", Eat({"fn"}, <<"Id", ":", "OldParams", "NewBody", "Block">>))
    BY TurnQuiet, QuietAre, QuietType, QuietShapes, EatOther, EatNests
  <2>2. Turns("OldFn", <<"Id", "VarInit">>)
    BY TurnQuiet, QuietAre, QuietType, QuietShapes
  <2> QED BY <2>1, <2>2, BothNest, NoneNest, RuleIs, NotPending, QuietAre, Enders DEF TopGrammar
<1>8. RuleNests("Params", TopGrammar.Params)
  <2>1. RowsNest("Params", Eat({"..."}, <<>>))
    BY TurnQuiet, QuietAre, QuietType, QuietShapes, EatOther, EatNests
  <2>2. RowsNest("Params", See({"{"}, <<>>))
    BY TurnQuiet, QuietAre, QuietType, QuietShapes, SeeNests
  <2>3. Turns("Params", <<"Type", "Id", "MoreParams">>)
    BY TurnQuiet, QuietAre, QuietType, QuietShapes
  <2> QED BY <2>1, <2>2, <2>3, BothNest, NoneNest, RuleIs, NotPending, QuietAre, Enders DEF TopGrammar, Params
<1>9. RuleNests("MoreParams", TopGrammar.MoreParams)
  <2>1. RowsNest("MoreParams", Eat({","}, <<"Params">>))
    BY TurnQuiet, QuietAre, QuietType, QuietShapes, EatOther, EatNests
  <2>2. Turns("MoreParams", <<>>)
    BY TurnQuiet, QuietAre, QuietType, QuietShapes
  <2> QED BY <2>1, <2>2, BothNest, NoneNest, RuleIs, NotPending, QuietAre, Enders DEF TopGrammar
<1>10. RuleNests("OldParams", TopGrammar.OldParams)
  <2>1. RowsNest("OldParams", Eat({"..."}, <<>>))
    BY TurnQuiet, QuietAre, QuietType, QuietShapes, EatOther, EatNests
  <2>2. RowsNest("OldParams", See({"{", ";", "}"}, <<>>))
    BY TurnQuiet, QuietAre, QuietType, QuietShapes, SeeNests
  <2>3. Turns("OldParams", <<"Type", "Id", "MoreOldParams">>)
    BY TurnQuiet, QuietAre, QuietType, QuietShapes
  <2> QED BY <2>1, <2>2, <2>3, BothNest, NoneNest, RuleIs, NotPending, QuietAre, Enders DEF TopGrammar, Params
<1>11. RuleNests("MoreOldParams", TopGrammar.MoreOldParams)
  <2>1. RowsNest("MoreOldParams", Eat({","}, <<"OldParams">>))
    BY TurnQuiet, QuietAre, QuietType, QuietShapes, EatOther, EatNests
  <2>2. Turns("MoreOldParams", <<>>)
    BY TurnQuiet, QuietAre, QuietType, QuietShapes
  <2> QED BY <2>1, <2>2, BothNest, NoneNest, RuleIs, NotPending, QuietAre, Enders DEF TopGrammar
<1>12. RuleNests("ErrorParams", TopGrammar.ErrorParams)
  <2>1. RowsNest("ErrorParams", Eat({}, <<>>))
    BY EatNests
  <2>2. RowsNest("ErrorParams", See({"{"}, <<>>))
    BY TurnQuiet, QuietAre, QuietType, QuietShapes, SeeNests
  <2>3. Turns("ErrorParams", <<"Type", "Id", "MoreErrorParams">>)
    BY TurnQuiet, QuietAre, QuietType, QuietShapes
  <2> QED BY <2>1, <2>2, <2>3, BothNest, NoneNest, RuleIs, NotPending, QuietAre, Enders DEF TopGrammar, Params
<1>13. RuleNests("MoreErrorParams", TopGrammar.MoreErrorParams)
  <2>1. RowsNest("MoreErrorParams", Eat({","}, <<"ErrorParams">>))
    BY TurnQuiet, QuietAre, QuietType, QuietShapes, EatOther, EatNests
  <2>2. Turns("MoreErrorParams", <<>>)
    BY TurnQuiet, QuietAre, QuietType, QuietShapes
  <2> QED BY <2>1, <2>2, BothNest, NoneNest, RuleIs, NotPending, QuietAre, Enders DEF TopGrammar
<1>14. DOMAIN TopGrammar = {"Decls", "At", "Decl", "Raw", "FnOrVar", "Function", "OldFn", "Params", "MoreParams", "OldParams", "MoreOldParams", "ErrorParams", "MoreErrorParams"}
  BY DEF TopGrammar
<1> QED BY <1>1, <1>2, <1>3, <1>4, <1>5, <1>6, <1>7, <1>8, <1>9, <1>10, <1>11, <1>12, <1>13, <1>14 DEF Nests

LEMMA DataNests == Nests(DataGrammar)
<1>1. RuleNests("Fields", DataGrammar.Fields)
  <2>1. RowsNest("Fields", Eat({"}"}, <<>>))
    BY EatClosing, Enders, QuietType, EatNests
  <2>2. OneCloses(<<"Function", "Fields">>, 2)
    BY QuietAre, Enders, CloseShapes
  <2>3. RowsNest("Fields", Eat({"fn"}, <<"Function", "Fields">>))
    BY <2>2, TurnCloses, Enders, EatOther, EatNests
  <2>4. OneCloses(<<"Type", "Field", "?,", "Fields">>, 4)
    BY QuietAre, Enders, CloseShapes
  <2>5. RowsNest("Fields", Eat({"&"}, <<"Type", "Field", "?,", "Fields">>))
    BY <2>4, TurnCloses, Enders, EatOther, EatNests
  <2>6. OneCloses(<<"Type", "Field", "?,", "Fields">>, 4)
    BY QuietAre, Enders, CloseShapes
  <2>7. Turns("Fields", <<"Type", "Field", "?,", "Fields">>)
    BY <2>6, TurnCloses, Enders
  <2> QED BY <2>1, <2>3, <2>5, <2>7, BothNest, NoneNest, RuleIs, NotPending, QuietAre, Enders DEF DataGrammar
<1>2. RuleNests("Field", DataGrammar.Field)
  <2>1. RowsNest("Field", See({";", ","}, <<>>))
    BY TurnQuiet, QuietAre, QuietType, QuietShapes, SeeNests
  <2>2. Turns("Field", <<"Id">>)
    BY TurnQuiet, QuietAre, QuietType, QuietShapes
  <2> QED BY <2>1, <2>2, BothNest, NoneNest, RuleIs, NotPending, QuietAre, Enders DEF DataGrammar
<1>3. RuleNests("EnumType", DataGrammar.EnumType)
  <2>1. RowsNest("EnumType", See(TypeNames, <<"Type">>))
    BY TurnQuiet, QuietAre, QuietType, QuietShapes, SeeNests
  <2>2. Turns("EnumType", <<>>)
    BY TurnQuiet, QuietAre, QuietType, QuietShapes
  <2> QED BY <2>1, <2>2, BothNest, NoneNest, RuleIs, NotPending, QuietAre, Enders DEF DataGrammar
<1>4. RuleNests("Members", DataGrammar.Members)
  <2>1. RowsNest("Members", Eat({"}"}, <<>>))
    BY EatClosing, Enders, QuietType, EatNests
  <2>2. OneCloses(<<"Id", "?,", "Members">>, 3)
    BY QuietAre, Enders, CloseShapes
  <2>3. Turns("Members", <<"Id", "?,", "Members">>)
    BY <2>2, TurnCloses, Enders
  <2> QED BY <2>1, <2>3, BothNest, NoneNest, RuleIs, NotPending, QuietAre, Enders DEF DataGrammar
<1> QED BY <1>1, <1>2, <1>3, <1>4 DEF Nests, DataGrammar

LEMMA OptNests == Nests(OptGrammar)
<1>1. ASSUME NEW opt \in {"?,", "?;", "?>"} PROVE RuleNests(opt, OptGrammar[opt])
  <2> DEFINE k == IF opt = "?," THEN "," ELSE IF opt = "?;" THEN ";" ELSE ">"
  <2>1. opt \in QuietWords /\ opt \notin Pending
    BY QuietAre, QuietType
  <2>2. Turns(opt, <<>>)
    BY <2>1, TurnQuiet, QuietType
  <2>3. k \notin {")", "]", "}", "(", "[", "{"}
    OBVIOUS
  <2>4. OptGrammar[opt] = Rule(Eat({k}, <<>>), <<>>)
    BY DEF OptGrammar
  <2> HIDE DEF k
  <2>5. RowsNest(opt, Eat({k}, <<>>))
    BY <2>2, <2>3, EatOther, EatNests
  <2> QED BY <2>1, <2>2, <2>4, <2>5, RuleIs
<1>2. DOMAIN OptGrammar = {"?,", "?;", "?>"}
  BY DEF OptGrammar
<1> QED BY <1>1, <1>2 DEF Nests

(* Every row of every rule.                                                *)
LEMMA GrammarNests == \A grammar \in Grammars : Nests(grammar)
  BY TypeNests, CallNests, PostfixNests, ExprNests, StmtNests, DeclNests, TopNests, DataNests, OptNests DEF Grammars

LEMMA TerminalEats == \A s \in Terminals : s \notin Pending /\ Eats(s, s, <<>>)
<1>1. ASSUME NEW s \in {">", ":", "=", "=>", "catch", "use"} PROVE s \notin Pending /\ Eats(s, s, <<>>)
  <2>1. s \in QuietWords
    BY QuietAre
  <2>2. s \notin {")", "]", "}", "(", "[", "{"}
    OBVIOUS
  <2>3. Turns(s, <<>>)
    BY <2>1, TurnQuiet, QuietType
  <2> QED BY <2>1, <2>2, <2>3, EatOther, QuietType
<1>2. ASSUME NEW s \in {")", "]"} PROVE s \notin Pending /\ Eats(s, s, <<>>)
  <2>1. s \in Closers /\ Closes[s] = s /\ s # "Cast"
    BY Enders
  <2>2. Eats(s, Closes[s], <<>>)
    BY <2>1, EatClosing, QuietType
  <2> QED BY <2>1, <2>2, CloserType
<1>3. ASSUME NEW s \in {"(", "{"} PROVE s \notin Pending /\ Eats(s, s, <<>>)
  <2>1. s \in Openers
    BY DEF Openers
  <2>2. ASSUME NEW x \in Stacks, NEW r \in Stacks, Fits(s, x, r) PROVE Puts(<<>>, Over(Closing[s], x), r)
    <3>1. r = Over(Closing[s], x)
      BY <2>1, <2>2 DEF Fits
    <3> QED BY <3>1, QuietPut, QuietType
  <2>3. s \notin {")", "]", "}"} /\ s \in {"(", "[", "{"}
    OBVIOUS
  <2> QED BY <2>1, <2>2, <2>3, OpenerType DEF Eats
<1>4. Terminals = {">", ":", "=", "=>", "catch", "use"} \cup {")", "]"} \cup {"(", "{"}
  BY DEF Terminals
<1> QED BY <1>1, <1>2, <1>3, <1>4

(* From the bottom of the C stack up: what each function leaves open and   *)
(* what it finds open, and the brackets kept in the marks of those that    *)
(* may go back.                                                            *)
OpenAt(m)  == [i \in 1..Len(m) |-> m[i].open]
Kept(g, h, q) ==
    \A i \in 1..Len(q) : h[i] = IF q[Len(q) + 1 - i] \in Pending THEN Append(h[i - 1], g[i]) ELSE h[i - 1]
Pile(q, x, v) ==
    /\ q \in Seq(StackWords)
    /\ \E g \in [0..Len(q) -> Stacks], h \in [0..Len(q) -> Seq(Stacks)] :
          /\ g[0] = <<>> /\ h[0] = <<>> /\ g[Len(q)] = x /\ h[Len(q)] = v
          /\ Levels(g, q) /\ Kept(g, h, q)

(* The symbol on top taken off, what it is replaced by put on, and a mark  *)
(* with the symbol that goes back to it.                                   *)
LEMMA PileTop ==
    ASSUME NEW q, q # <<>>, NEW x, NEW v, Pile(q, x, v)
    PROVE  /\ q \in Seq(StackWords) /\ Head(q) \in StackWords /\ x \in Stacks
           /\ \E y \in Stacks, w \in Seq(Stacks) :
                 /\ Pile(Tail(q), y, w) /\ Fits(Head(q), x, y)
                 /\ v = IF Head(q) \in Pending THEN Append(w, x) ELSE w
<1> DEFINE n == Len(q)
<1>1. q \in Seq(StackWords) /\ n \in Nat /\ n > 0 /\ Head(q) = q[1] /\ q[1] \in StackWords
  BY DEF Pile
<1>2. PICK g \in [0..n -> Stacks], h \in [0..n -> Seq(Stacks)] :
         g[0] = <<>> /\ h[0] = <<>> /\ g[n] = x /\ h[n] = v /\ Levels(g, q) /\ Kept(g, h, q)
  BY DEF Pile
<1> DEFINE t == Tail(q)
           a == [i \in 0..(n - 1) |-> g[i]]
           b == [i \in 0..(n - 1) |-> h[i]]
<1>3. t \in Seq(StackWords) /\ Len(t) = n - 1 /\ \A i \in 1..(n - 1) : t[i] = q[i + 1]
  BY <1>1, HeadTailProperties
<1>4. n - 1 \in Nat /\ n \in 1..n /\ n - 1 \in 0..(n - 1) /\ 0 \in 0..(n - 1) /\ n - 1 \in 0..n
  BY <1>1
<1>5. Fits(q[1], g[n], g[n - 1]) /\ h[n] = IF q[1] \in Pending THEN Append(h[n - 1], g[n]) ELSE h[n - 1]
  <2>1. n + 1 - n = 1
    BY <1>1
  <2> QED BY <1>2, <1>4, <2>1 DEF Levels, Kept
<1>6. a \in [0..(n - 1) -> Stacks] /\ b \in [0..(n - 1) -> Seq(Stacks)] /\ a[0] = <<>> /\ b[0] = <<>>
      /\ a[n - 1] = g[n - 1] /\ b[n - 1] = h[n - 1] /\ g[n - 1] \in Stacks /\ h[n - 1] \in Seq(Stacks)
  <2>1. \A i \in 0..(n - 1) : i \in 0..n
    BY <1>1
  <2> QED BY <1>2, <1>4, <2>1
<1>7. ASSUME NEW i \in 1..(n - 1)
      PROVE  /\ Fits(t[n - 1 + 1 - i], a[i], a[i - 1])
             /\ b[i] = IF t[n - 1 + 1 - i] \in Pending THEN Append(b[i - 1], a[i]) ELSE b[i - 1]
  <2>1. i \in 1..n /\ i \in 0..(n - 1) /\ i - 1 \in 0..(n - 1) /\ n - 1 + 1 - i \in 1..(n - 1)
    BY <1>1
  <2>2. (n - 1 + 1 - i) + 1 = n + 1 - i
    BY <1>1
  <2>3. t[n - 1 + 1 - i] = q[n + 1 - i]
    BY <1>3, <2>1, <2>2
  <2>4. a[i] = g[i] /\ a[i - 1] = g[i - 1] /\ b[i] = h[i] /\ b[i - 1] = h[i - 1]
    BY <2>1
  <2> HIDE DEF a, b, t
  <2> QED BY <1>2, <2>1, <2>3, <2>4 DEF Levels, Kept
<1> HIDE DEF a, b, t
<1>8. Levels(a, t) /\ Kept(a, b, t)
  BY <1>3, <1>7 DEF Levels, Kept
<1>9. Pile(t, g[n - 1], h[n - 1])
  BY <1>3, <1>6, <1>8 DEF Pile
<1>10. x \in Stacks
  BY <1>2, <1>1
<1> QED BY <1>1, <1>2, <1>5, <1>6, <1>9, <1>10 DEF t

LEMMA PilePut ==
    ASSUME NEW t, NEW y, NEW w, Pile(t, y, w), NEW p, NEW x, Puts(p, x, y)
    PROVE  Pile(p \o t, x, w)
<1> DEFINE m == Len(p)
           n == Len(t)
           s == p \o t
<1>1. PICK h \in [0..m -> Stacks] : h[0] = y /\ h[m] = x /\ Levels(h, p)
  BY DEF Puts
<1>2. PICK g \in [0..n -> Stacks], k \in [0..n -> Seq(Stacks)] :
         g[0] = <<>> /\ k[0] = <<>> /\ g[n] = y /\ k[n] = w /\ Levels(g, t) /\ Kept(g, k, t)
  BY DEF Pile
<1>3. p \in Seq(StackWords) /\ t \in Seq(StackWords) /\ m \in Nat /\ n \in Nat /\ \A i \in 1..m : p[i] \notin Pending
  BY DEF Puts, Pile
<1>4. /\ s \in Seq(StackWords) /\ Len(s) = m + n
      /\ \A i \in 1..n : s[m + n + 1 - i] = t[n + 1 - i]
      /\ \A i \in 1..m : s[m + 1 - i] = p[m + 1 - i]
  BY <1>3, Join
<1> DEFINE a == [i \in 0..(m + n) |-> IF i <= n THEN g[i] ELSE h[i - n]]
           b == [i \in 0..(m + n) |-> IF i <= n THEN k[i] ELSE w]
<1> HIDE DEF m, n, s
<1>5. /\ \A i \in 0..(m + n) : IF i <= n THEN i \in 0..n ELSE i - n \in 0..m
      /\ 0 \in 0..(m + n) /\ 0 <= n /\ m + n \in 0..(m + n) /\ m + n - n = m /\ n \in 0..n
  BY <1>3
<1>6. a \in [0..(m + n) -> Stacks] /\ b \in [0..(m + n) -> Seq(Stacks)]
  <2>1. w \in Seq(Stacks)
    BY <1>2, <1>5
  <2> QED BY <1>1, <1>2, <1>5, <2>1
<1>7. a[0] = <<>> /\ b[0] = <<>>
  BY <1>2, <1>5
<1>8. a[m + n] = x /\ b[m + n] = w
  <2>1. CASE m = 0
    <3>1. m + n = n /\ m + n <= n
      BY <1>3, <2>1
    <3>2. a[m + n] = g[n] /\ b[m + n] = k[n]
      BY <1>5, <3>1
    <3> QED BY <1>1, <1>2, <2>1, <3>2
  <2>2. CASE m # 0
    <3>1. ~ (m + n <= n)
      BY <1>3, <2>2
    <3>2. a[m + n] = h[m] /\ b[m + n] = w
      BY <1>3, <1>5, <3>1
    <3> QED BY <1>1, <3>2
  <2> QED BY <2>1, <2>2
<1>9. ASSUME NEW i \in 1..(m + n)
      PROVE  /\ Fits(s[m + n + 1 - i], a[i], a[i - 1])
             /\ b[i] = IF s[m + n + 1 - i] \in Pending THEN Append(b[i - 1], a[i]) ELSE b[i - 1]
  <2>1. CASE i <= n
    <3>1. i \in 1..n /\ a[i] = g[i] /\ a[i - 1] = g[i - 1] /\ b[i] = k[i] /\ b[i - 1] = k[i - 1]
      BY <1>3, <2>1
    <3> HIDE DEF a, b
    <3> QED BY <1>2, <1>4, <3>1 DEF Levels, Kept, n
  <2>2. CASE i > n
    <3>0. /\ i - n \in 1..m /\ i \in 0..(m + n) /\ i - 1 \in 0..(m + n) /\ ~(i <= n)
          /\ i - 1 - n = i - n - 1 /\ (i - 1 <= n => i - 1 = n /\ i - n - 1 = 0)
      BY <1>3, <2>2
    <3>4. a[i] = h[i - n] /\ b[i] = w
      BY <3>0
    <3>5. a[i - 1] = h[i - n - 1] /\ b[i - 1] = w
      <4>1. CASE i - 1 <= n
        <5>1. a[i - 1] = g[i - 1] /\ b[i - 1] = k[i - 1]
          BY <3>0, <4>1
        <5> HIDE DEF a, b
        <5> QED BY <1>1, <1>2, <3>0, <4>1, <5>1
      <4>2. CASE ~(i - 1 <= n)
        BY <3>0, <4>2
      <4> QED BY <4>1, <4>2
    <3>1. i - n \in 1..m /\ a[i] = h[i - n] /\ a[i - 1] = h[i - n - 1] /\ b[i] = w /\ b[i - 1] = w
      BY <3>0, <3>4, <3>5
    <3>2. s[m + n + 1 - i] = p[m + 1 - (i - n)] /\ m + 1 - (i - n) \in 1..m
      <4>1. m + 1 - (i - n) = m + n + 1 - i /\ m + 1 - (i - n) \in 1..m
        BY <1>3, <3>1
      <4>2. s[m + 1 - (i - n)] = p[m + 1 - (i - n)]
        BY <1>4, <3>1
      <4> QED BY <4>1, <4>2
    <3>3. p[m + 1 - (i - n)] \notin Pending
      BY <1>3, <3>2
    <3> HIDE DEF a, b
    <3> QED BY <1>1, <3>1, <3>2, <3>3 DEF Levels, m
  <2> QED BY <1>3, <2>1, <2>2
<1> HIDE DEF a, b
<1>10. Levels(a, s) /\ Kept(a, b, s)
  BY <1>4, <1>9 DEF Levels, Kept
<1> QED BY <1>4, <1>6, <1>7, <1>8, <1>10 DEF Pile, s

LEMMA PileMark ==
    ASSUME NEW t, NEW y, NEW w, Pile(t, y, w), NEW s \in Pending, NEW x \in Stacks, Fits(s, x, y)
    PROVE  Pile(<<s>> \o t, x, Append(w, x))
<1> DEFINE n == Len(t)
           q == <<s>> \o t
           v == Append(w, x)
<1>1. PICK g \in [0..n -> Stacks], k \in [0..n -> Seq(Stacks)] :
         g[0] = <<>> /\ k[0] = <<>> /\ g[n] = y /\ k[n] = w /\ Levels(g, t) /\ Kept(g, k, t)
  BY DEF Pile
<1>2. t \in Seq(StackWords) /\ n \in Nat /\ s \in StackWords
  BY DEF Pile, StackWords
<1>3. q \in Seq(StackWords) /\ Len(q) = n + 1 /\ q[1] = s /\ \A i \in 1..n : q[1 + i] = t[i]
  <2> DEFINE o == <<s>>
  <2>1. o \in Seq(StackWords) /\ Len(o) = 1 /\ o[1] = s
    BY <1>2, Single
  <2> HIDE DEF o
  <2>2. o \o t \in Seq(StackWords) /\ Len(o \o t) = Len(o) + Len(t)
    BY <1>2, <2>1, Join
  <2>5. o \in Seq(StackWords) /\ t \in Seq(StackWords)
    BY <1>2, <2>1
  <2>3. (\A i \in 1..Len(o) : (o \o t)[i] = o[i]) /\ \A i \in 1..Len(t) : (o \o t)[Len(o) + i] = t[i]
    BY <2>5, Join
  <2>4. q = o \o t
    BY DEF o
  <2> HIDE DEF q
  <2> QED BY <1>2, <2>1, <2>2, <2>3, <2>4
<1>4. w \in Seq(Stacks) /\ v \in Seq(Stacks)
  <2>1. n \in 0..n
    BY <1>2
  <2> QED BY <1>1, <2>1
<1> DEFINE a == [i \in 0..(n + 1) |-> IF i <= n THEN g[i] ELSE x]
           b == [i \in 0..(n + 1) |-> IF i <= n THEN k[i] ELSE v]
<1> HIDE DEF n, q, v
<1>5. a \in [0..(n + 1) -> Stacks] /\ b \in [0..(n + 1) -> Seq(Stacks)]
  BY <1>1, <1>2, <1>4
<1>6. a[0] = <<>> /\ b[0] = <<>> /\ a[n + 1] = x /\ b[n + 1] = v
  BY <1>1, <1>2
<1>7. ASSUME NEW i \in 1..(n + 1)
      PROVE  /\ Fits(q[n + 1 + 1 - i], a[i], a[i - 1])
             /\ b[i] = IF q[n + 1 + 1 - i] \in Pending THEN Append(b[i - 1], a[i]) ELSE b[i - 1]
  <2>1. CASE i <= n
    <3>1. i \in 1..n /\ a[i] = g[i] /\ a[i - 1] = g[i - 1] /\ b[i] = k[i] /\ b[i - 1] = k[i - 1]
      BY <1>2, <2>1
    <3>2. n + 1 - i \in 1..n /\ 1 + (n + 1 - i) = n + 1 + 1 - i
      BY <1>2, <2>1
    <3>3. q[n + 1 + 1 - i] = t[n + 1 - i]
      BY <1>3, <3>2
    <3> HIDE DEF a, b
    <3> QED BY <1>1, <3>1, <3>3 DEF Levels, Kept, n
  <2>2. CASE i = n + 1
    <3>1. a[i] = x /\ a[i - 1] = y /\ b[i] = v /\ b[i - 1] = w /\ n + 1 + 1 - i = 1
      BY <1>1, <1>2, <2>2
    <3> HIDE DEF a, b
    <3> QED BY <1>3, <3>1 DEF v
  <2> QED BY <1>2, <2>1, <2>2
<1> HIDE DEF a, b
<1>8. Levels(a, q) /\ Kept(a, b, q)
  BY <1>3, <1>7 DEF Levels, Kept
<1> QED BY <1>3, <1>5, <1>6, <1>8 DEF Pile, q, v

LEMMA PileNone == Pile(<<>>, <<>>, <<>>)
<1> DEFINE g == [i \in 0..0 |-> <<>>]
<1>1. <<>> \in Seq(StackWords) /\ Len(<<>>) = 0
  OBVIOUS
<1>2. <<>> \in Stacks /\ <<>> \in Seq(Stacks)
  BY DEF Stacks
<1>3. g \in [0..0 -> Stacks] /\ g \in [0..0 -> Seq(Stacks)] /\ g[0] = <<>>
  BY <1>2
<1>4. Levels(g, <<>>) /\ Kept(g, g, <<>>)
  BY <1>1 DEF Levels, Kept
<1> HIDE DEF g
<1> QED BY <1>1, <1>3, <1>4 DEF Pile

(* Balanced reads the C stack with Ask; there is one reading of it.        *)
LEMMA FitsAsk ==
    ASSUME NEW s, NEW x \in Stacks, NEW y \in Stacks, Fits(s, x, y) PROVE x = Ask(s, y)
<1>1. CASE s \in Closers
  <2>1. s \in DOMAIN Closes /\ s \notin {"(", "{"}
    BY <1>1, ClosesAre, CloserType DEF Openers
  <2> QED BY <1>1, <2>1 DEF Fits, Ask, Over
<1>2. CASE s \in Openers
  <2>1. y = Over(Closing[s], x) /\ Closing[s] \in {")", "]", "}"}
    BY <1>2, ClosingIs DEF Fits, Openers
  <2>2. Tail(y) = x
    BY <2>1, OverIs
  <2>3. s \notin DOMAIN Closes /\ s \in {"(", "{"}
    BY <1>2, ClosesAre, OpenerType DEF Openers
  <2> QED BY <2>2, <2>3 DEF Ask
<1>3. CASE s \notin Closers \cup Openers
  BY <1>3, ClosesAre DEF Fits, Ask, Openers
<1> QED BY <1>1, <1>2, <1>3

LEMMA PileAsked == ASSUME NEW q, NEW x, NEW v, Pile(q, x, v) PROVE Asked(q) = x
<1> DEFINE n == Len(q)
           asked[i \in 0..n] == IF i = 0 THEN <<>> ELSE Ask(q[n + 1 - i], asked[i - 1])
           B(f) == [i \in 0..n |-> IF i = 0 THEN <<>> ELSE Ask(q[n + 1 - i], f[i - 1])]
<1>1. PICK g \in [0..n -> Stacks] : g[0] = <<>> /\ g[n] = x /\ Levels(g, q)
  BY DEF Pile
<1>2. q \in Seq(StackWords) /\ n \in Nat
  BY DEF Pile
<1>3. Asked(q) = asked[n]
  BY DEF Asked
<1>4. g = B(g)
  <2>1. ASSUME NEW i \in 0..n PROVE g[i] = B(g)[i]
    <3>1. CASE i = 0
      BY <1>1, <3>1
    <3>2. CASE i # 0
      <4>1. i \in 1..n /\ i - 1 \in 0..n /\ g[i] \in Stacks /\ g[i - 1] \in Stacks
        BY <1>1, <1>2, <3>2
      <4>2. Fits(q[n + 1 - i], g[i], g[i - 1])
        BY <1>1, <4>1 DEF Levels
      <4>3. g[i] = Ask(q[n + 1 - i], g[i - 1])
        BY <4>1, <4>2, FitsAsk
      <4> QED BY <3>2, <4>3
    <3> QED BY <3>1, <3>2
  <2> QED BY <1>1, <2>1
<1>5. asked = B(asked)
  <2> DEFINE C == CHOOSE f : f = B(f)
  <2>1. asked = C
    OBVIOUS
  <2>2. C = B(C)
    <3> HIDE DEF B
    <3> QED BY <1>4
  <2> QED BY <2>1, <2>2
<1> HIDE DEF asked
<1>6. ASSUME NEW i \in 0..n PROVE asked[i] = IF i = 0 THEN <<>> ELSE Ask(q[n + 1 - i], asked[i - 1])
  BY <1>5
<1>7. ASSUME NEW i \in 0..n PROVE g[i] = IF i = 0 THEN <<>> ELSE Ask(q[n + 1 - i], g[i - 1])
  BY <1>4
<1> DEFINE bad == {i \in 0..n : asked[i] # g[i]}
<1>8. bad = {}
  <2> SUFFICES ASSUME bad # {} PROVE FALSE
    OBVIOUS
  <2>1. PICK i \in bad : \A j \in bad : i <= j
    <3>1. bad \subseteq Nat
      OBVIOUS
    <3> HIDE DEF bad
    <3> QED BY <3>1, MinIsFirst
  <2>2. i \in 0..n /\ asked[i] # g[i]
    OBVIOUS
  <2>3. i # 0
    BY <1>6, <1>7, <2>2
  <2>4. i - 1 \in 0..n /\ i - 1 < i
    BY <1>2, <2>2, <2>3
  <2>5. i - 1 \notin bad
    <3>1. ~(i <= i - 1)
      BY <2>2
    <3> QED BY <2>1, <3>1
  <2>6. asked[i - 1] = g[i - 1]
    BY <2>4, <2>5
  <2> QED BY <1>6, <1>7, <2>2, <2>3, <2>6
<1>9. asked[n] = g[n]
  <2>1. n \in 0..n
    BY <1>2
  <2> QED BY <1>8, <2>1
<1> QED BY <1>1, <1>3, <1>9

(* The marks.                                                              *)
IsSeq(m) == \E S : m \in Seq(S)

LEMMA OpensAppend ==
    ASSUME NEW m, IsSeq(m), NEW at, NEW x
    PROVE  LET e == [at |-> at, open |-> x]
           IN  IsSeq(Append(m, e)) /\ OpenAt(Append(m, e)) = Append(OpenAt(m), x)
<1> DEFINE e == [at |-> at, open |-> x]
<1>1. PICK S : m \in Seq(S)
  BY DEF IsSeq
<1>2. m \in Seq(S \cup {e}) /\ e \in S \cup {e} /\ e.open = x
  BY <1>1
<1> HIDE DEF e
<1> DEFINE a == Append(m, e)
           T == {m[i].open : i \in 1..Len(m)} \cup {x}
<1>3. a \in Seq(S \cup {e}) /\ Len(a) = Len(m) + 1 /\ a[Len(m) + 1] = e /\ \A i \in 1..Len(m) : a[i] = m[i]
  BY <1>2
<1>4. OpenAt(m) \in Seq(T) /\ Len(OpenAt(m)) = Len(m) /\ \A i \in 1..Len(m) : OpenAt(m)[i] = m[i].open
  <2>1. Len(m) \in Nat
    BY <1>1
  <2> QED BY <2>1 DEF OpenAt
<1>5. OpenAt(a) \in Seq(T) /\ Len(OpenAt(a)) = Len(m) + 1 /\ \A i \in 1..(Len(m) + 1) : OpenAt(a)[i] = a[i].open
  <2>1. Len(m) \in Nat
    BY <1>1
  <2> HIDE DEF a
  <2>2. \A i \in 1..(Len(m) + 1) : a[i].open \in T
    BY <1>2, <1>3, <2>1
  <2> HIDE DEF T
  <2> QED BY <1>3, <2>1, <2>2 DEF OpenAt
<1> HIDE DEF a, T
<1>6. x \in T
  BY DEF T
<1> DEFINE o == Append(OpenAt(m), x)
<1>7. o \in Seq(T) /\ Len(o) = Len(m) + 1 /\ o[Len(m) + 1] = x /\ \A i \in 1..Len(m) : o[i] = m[i].open
  BY <1>4, <1>6
<1> HIDE DEF o
<1>8. \A i \in 1..(Len(m) + 1) : OpenAt(a)[i] = o[i]
  <2>1. Len(m) \in Nat
    BY <1>1
  <2> QED BY <1>2, <1>3, <1>5, <1>7, <2>1
<1>9. OpenAt(a) = o
  BY <1>5, <1>7, <1>8
<1> QED BY <1>3, <1>9 DEF IsSeq, a, o, e

LEMMA OpensFront ==
    ASSUME NEW m, IsSeq(m), NEW T, NEW w \in Seq(T), NEW x \in T, OpenAt(m) = Append(w, x)
    PROVE  IsSeq(Front(m)) /\ OpenAt(Front(m)) = w /\ Last(m).open = x
<1> DEFINE o == Append(w, x)
           f == Front(m)
<1>1. PICK S : m \in Seq(S)
  BY DEF IsSeq
<1>2. o \in Seq(T) /\ Len(o) = Len(w) + 1 /\ o[Len(w) + 1] = x /\ \A i \in 1..Len(w) : o[i] = w[i]
  OBVIOUS
<1>3. Len(w) \in Nat /\ Len(m) \in Nat
  BY <1>1
<1> HIDE DEF o
<1>4. Len(m) = Len(o) /\ \A i \in 1..Len(m) : o[i] = m[i].open
  <2>1. o = [i \in 1..Len(m) |-> m[i].open]
    BY DEF o, OpenAt
  <2>2. DOMAIN o = 1..Len(m) /\ DOMAIN o = 1..Len(o)
    BY <1>2, <2>1
  <2> QED BY <1>2, <1>3, <2>1, <2>2
<1>5. f \in Seq(S) /\ Len(f) = Len(w) /\ \A i \in 1..Len(w) : f[i] = m[i]
  BY <1>1, <1>2, <1>3, <1>4 DEF Front
<1> HIDE DEF f
<1>6. OpenAt(f) = w
  <2>1. \A i \in 1..Len(w) : f[i].open = w[i]
    BY <1>2, <1>3, <1>4, <1>5
  <2>2. w = [i \in 1..Len(w) |-> w[i]]
    OBVIOUS
  <2> QED BY <1>5, <2>1, <2>2 DEF OpenAt
<1>7. Last(m).open = x
  <2>1. Len(m) = Len(w) + 1 /\ Len(w) + 1 \in 1..Len(m)
    BY <1>2, <1>3, <1>4
  <2> QED BY <1>2, <1>4, <2>1 DEF Last
<1> QED BY <1>5, <1>6, <1>7 DEF IsSeq, f

(* The descent: the C stack fits what is open, the marks what was.         *)
Bracketed == IsSeq(marks) /\ Pile(todo, open, OpenAt(marks))
BalanceInv == ErrorInv /\ (~reported => Bracketed)

(* The symbol on top replaced, the marks kept.                             *)
LEMMA DoTakes ==
    ASSUME Bracketed, todo # <<>>, Head(todo) \notin Pending, NEW q, Do(q), marks' = marks,
           \A y \in Stacks : Fits(Head(todo), open, y) => Puts(q, open', y)
    PROVE  Bracketed'
<1> DEFINE v == OpenAt(marks)
<1>1. PICK y \in Stacks, w \in Seq(Stacks) :
         /\ Pile(Tail(todo), y, w) /\ Fits(Head(todo), open, y)
         /\ v = IF Head(todo) \in Pending THEN Append(w, open) ELSE w
  BY PileTop DEF Bracketed
<1>2. Pile(q \o Tail(todo), open', v)
  BY <1>1, PilePut
<1>3. OpenAt(marks)' = v
  OBVIOUS
<1> HIDE DEF v
<1> QED BY <1>2, <1>3 DEF Bracketed, Do

LEMMA OpenIs == ASSUME Bracketed, todo # <<>> PROVE open \in Stacks
  BY PileTop DEF Bracketed

(* The cursor stays.                                                       *)
LEMMA StayTakes ==
    ASSUME Bracketed, todo # <<>>, Head(todo) \notin Pending, NEW q, Turns(Head(todo), q), Do(q), Stay
    PROVE  Bracketed'
<1>1. open' = open /\ marks' = marks
  BY DEF Stay, cursor
<1>2. open \in Stacks
  BY OpenIs
<1>3. \A y \in Stacks : Fits(Head(todo), open, y) => Puts(q, open', y)
  BY <1>1, <1>2 DEF Turns
<1> QED BY <1>1, <1>3, DoTakes

(* Brackets does to what is open what the token calls for.                 *)
LEMMA HeadOpen == ASSUME open \in Stacks, open # <<>> PROVE Head(open) \in {")", "]", "}"}
<1> DEFINE S == {")", "]", "}"}
<1>1. open \in Seq(S)
  BY DEF Stacks
<1> HIDE DEF S
<1>2. Head(open) \in S
  BY <1>1
<1> QED BY <1>2 DEF S

LEMMA BracketsOpen ==
    ASSUME NEW k \in {"(", "[", "{"}, open \in Stacks PROVE Brackets(k) = Over(Closing[k], open)
<1>1. k \in DOMAIN Closing /\ k \notin {")", "]", "}"}
  BY ClosingIs
<1>2. ~(open # <<>> /\ k = Head(open))
  BY <1>1, HeadOpen
<1> QED BY <1>1, <1>2 DEF Brackets, Over

LEMMA BracketsClose ==
    ASSUME NEW k \in {")", "]", "}"}, NEW y \in Stacks, open = Over(k, y) PROVE Brackets(k) = y
<1>1. open # <<>> /\ Head(open) = k /\ Tail(open) = y
  BY OverIs
<1>2. k \notin DOMAIN Closing
  BY ClosingIs
<1> QED BY <1>1, <1>2 DEF Brackets

LEMMA BracketsOther ==
    ASSUME NEW k, k \notin {")", "]", "}", "(", "[", "{"}, open \in Stacks PROVE Brackets(k) = open
<1>1. k \notin DOMAIN Closing
  BY ClosingIs
<1>2. open # <<>> => k # Head(open)
  BY HeadOpen
<1> QED BY <1>1, <1>2 DEF Brackets

LEMMA EatTakes ==
    ASSUME Bracketed, todo # <<>>, Head(todo) \notin Pending, NEW q, Eats(Head(todo), Cur, q), Do(q),
           open' = Brackets(Cur), marks' = marks
    PROVE  Bracketed'
<1> DEFINE s == Head(todo)
           k == Cur
<1>1. open \in Stacks
  BY OpenIs
<1>2. ASSUME NEW y \in Stacks, Fits(s, open, y) PROVE Puts(q, open', y)
  <2>0. open' = Brackets(k) /\ Eats(s, k, q)
    OBVIOUS
  <2> HIDE DEF s, k
  <2>1. CASE k \in {")", "]", "}"}
    <3>1. s \in Closers /\ Closes[s] = k /\ Puts(q, y, y)
      BY <2>0, <2>1 DEF Eats
    <3>2. open = Over(k, y)
      BY <1>2, <3>1 DEF Fits
    <3> QED BY <2>0, <2>1, <3>1, <3>2, BracketsClose
  <2>2. CASE k \in {"(", "[", "{"}
    <3>1. Puts(q, Over(Closing[k], open), y)
      BY <1>1, <1>2, <2>0, <2>2 DEF Eats
    <3> QED BY <1>1, <2>0, <2>2, <3>1, BracketsOpen
  <2>3. CASE k \notin {")", "]", "}", "(", "[", "{"}
    <3>1. Puts(q, open, y)
      BY <1>1, <1>2, <2>0, <2>3 DEF Eats, Turns
    <3> QED BY <1>1, <2>0, <2>3, <3>1, BracketsOther
  <2> QED BY <2>1, <2>2, <2>3
<1> HIDE DEF s, k
<1> QED BY <1>2, DoTakes DEF s

LEMMA StepTakes ==
    ASSUME Bracketed, todo # <<>>, Head(todo) \notin Pending, NEW q, Eats(Head(todo), Cur, q), Do(q), Step
    PROVE  Bracketed'
  BY EatTakes DEF Step

(* StackWords that are no brackets.                                             *)
NoBracket(k) == k \notin {")", "]", "}", "(", "[", "{"}

LEMMA NamesArePlain == \A k \in Idents \cup TypeNames \cup Keywords \cup Literals : NoBracket(k)
<1>1. \A k \in Names : NoBracket(k)
  BY NamesAssumption DEF NoBracket
<1>2. \A k \in {"_", "cast", "alloc", "while", "match", "strun"} \cup TypeNames \cup Literals : NoBracket(k)
  BY DEF NoBracket, TypeNames, Literals
<1>3. \A k \in {"if", "else", "loop", "break", "defer", "ret", "struct", "enum", "fn", "use"} : NoBracket(k)
  BY DEF NoBracket
<1>4. \A k \in {"pin", "sizeof", "async", "select", "error", "throw", "try", "catch", "raw"} : NoBracket(k)
  BY DEF NoBracket
<1> QED BY <1>1, <1>2, <1>3, <1>4 DEF Idents, Keywords

LEMMA StepPlain ==
    ASSUME Bracketed, todo # <<>>, Head(todo) \in QuietWords, NoBracket(Cur), NEW q \in Seq(QuietWords), Do(q), Step
    PROVE  Bracketed'
<1>1. Head(todo) \notin Pending /\ Turns(Head(todo), q)
  BY TurnQuiet, QuietType
<1>2. Eats(Head(todo), Cur, q)
  BY <1>1, EatOther DEF NoBracket
<1> QED BY <1>1, <1>2, StepTakes

LEMMA StayQuiet ==
    ASSUME Bracketed, todo # <<>>, Head(todo) \in QuietWords, NEW q \in Seq(QuietWords), Do(q), Stay
    PROVE  Bracketed'
  BY TurnQuiet, QuietType, StayTakes

(* The actions.                                                            *)
LEMMA FollowBrackets == ASSUME Bracketed, Follow PROVE Bracketed'
<1>1. PICK grammar \in Grammars : Head(todo) \in DOMAIN grammar /\ Apply(grammar[Head(todo)])
  BY DEF Follow
<1> DEFINE s == Head(todo)
           rule == grammar[s]
<1>2. todo # <<>> /\ RuleNests(s, rule) /\ Apply(rule)
  BY <1>1, GrammarNests DEF Follow, Nests
<1> HIDE DEF rule
<1>3. s \notin Pending /\ RowsNest(s, rule.rows) /\ Turns(s, rule.other)
  BY <1>2 DEF RuleNests
<1>4. CASE \E row \in rule.rows : Cur = row.at /\ Do(row.then) /\ IF row.eaten THEN Step ELSE Stay
  <2>1. PICK row \in rule.rows : Cur = row.at /\ Do(row.then) /\ IF row.eaten THEN Step ELSE Stay
    BY <1>4
  <2>2. RowNests(s, row)
    BY <1>3 DEF RowsNest
  <2>3. CASE row.eaten
    <3>1. Eats(s, Cur, row.then) /\ Do(row.then) /\ Step
      BY <2>1, <2>2, <2>3 DEF RowNests
    <3> QED BY <1>2, <1>3, <3>1, StepTakes
  <2>4. CASE ~row.eaten
    <3>1. Turns(s, row.then) /\ Do(row.then) /\ Stay
      BY <2>1, <2>2, <2>4 DEF RowNests
    <3> QED BY <1>2, <1>3, <3>1, StayTakes
  <2> QED BY <2>3, <2>4
<1>5. CASE Do(rule.other) /\ Stay
  BY <1>2, <1>3, <1>5, StayTakes
<1> QED BY <1>2, <1>4, <1>5 DEF Apply

LEMMA ExpectBrackets == ASSUME Bracketed, Expect, ~reported' PROVE Bracketed'
<1>1. todo # <<>> /\ Head(todo) \in Terminals /\ Do(<<>>) /\ Cur = Head(todo) /\ Step
  BY DEF Expect
<1>2. Head(todo) \notin Pending /\ Eats(Head(todo), Cur, <<>>)
  BY <1>1, TerminalEats
<1> QED BY <1>1, <1>2, StepTakes

LEMMA StepOverBrackets ==
    ASSUME Bracketed, todo # <<>>, Head(todo) \in QuietWords, NEW good \in BOOLEAN, StepOver(good), ~reported',
           good => NoBracket(Cur) /\ Cur # "eof"
    PROVE  Bracketed'
<1>1. good
  BY DEF StepOver
<1>2. NoBracket(Cur) /\ Do(<<>>) /\ Step
  BY <1>1 DEF StepOver
<1> QED BY <1>2, StepPlain, QuietType

LEMMA IdentBrackets == ASSUME Bracketed, Ident \/ Path \/ AtPath, ~reported' PROVE Bracketed'
<1>1. CASE Ident
  <2> DEFINE good == Cur \in Idents \cup TypeNames
  <2>1. todo # <<>> /\ Head(todo) \in Calls /\ StepOver(good)
    BY <1>1 DEF Ident
  <2>2. Head(todo) \in QuietWords
    BY <2>1, QuietAre DEF Calls
  <2>3. good => NoBracket(Cur) /\ Cur # "eof"
    BY NamesArePlain, EofIsNoName
  <2>4. good \in BOOLEAN
    OBVIOUS
  <2> HIDE DEF good
  <2> QED BY <2>1, <2>2, <2>3, <2>4, StepOverBrackets
<1>2. CASE Path
  <2>1. todo # <<>> /\ Head(todo) \in QuietWords /\ StepOver(Cur = "'s'")
    BY <1>2, QuietAre DEF Path, At
  <2>2. Cur = "'s'" => NoBracket(Cur) /\ Cur # "eof"
    BY DEF NoBracket
  <2> QED BY <2>1, <2>2, StepOverBrackets
<1>3. CASE AtPath
  <2>1. todo # <<>> /\ Head(todo) \in QuietWords /\ Do(<<>>)
    BY <1>3, QuietAre DEF AtPath, At
  <2>2. Cur = "'s'" /\ Step
    BY <1>3 DEF AtPath
  <2>3. NoBracket(Cur)
    BY <2>2 DEF NoBracket
  <2> QED BY <2>1, <2>2, <2>3, StepPlain, QuietType
<1> QED BY <1>1, <1>2, <1>3

LEMMA PrimaryBrackets == ASSUME Bracketed, Primary, ~reported' PROVE Bracketed'
<1>0. todo # <<>> /\ Head(todo) \in QuietWords /\ Head(todo) \notin Pending
  BY QuietAre, QuietType DEF Primary, At
<1>1. CASE Cur \in Literals /\ Do(<<>>) /\ Step
  BY <1>0, <1>1, NamesArePlain, StepPlain, QuietType
<1>2. CASE Cur \in Idents \cup Keywords /\ Do(<<"Call">>) /\ Step
  BY <1>0, <1>2, NamesArePlain, StepPlain, QuietAre, QuietShapes
<1>3. CASE Cur = "(" /\ Do(<<"Paren">>) /\ Step
  <2>1. OneCloses(<<"Paren">>, 1)
    BY Enders, CloseShapes
  <2>2. Eats(Head(todo), "(", <<"Paren">>)
    BY <1>0, <2>1, EatOpening, Enders, ClosingIs
  <2> QED BY <1>0, <1>3, <2>2, StepTakes
<1> QED BY <1>1, <1>2, <1>3 DEF Primary

LEMMA ArgsClose == ASSUME NEW name PROVE \E j \in 1..2 : OneCloses(ArgsOf(name), j) /\ Closes[ArgsOf(name)[j]] = ")"
<1>1. ASSUME NEW c \in {"CastArgs", "AllocArgs", "Args"}, ArgsOf(name) = <<c, "Wrap">>
      PROVE  \E j \in 1..2 : OneCloses(ArgsOf(name), j) /\ Closes[ArgsOf(name)[j]] = ")"
  <2>1. c \in Closers \ {"Cast"} /\ Closes[c] = ")"
    BY Enders
  <2>2. OneCloses(<<c, "Wrap">>, 1) /\ <<c, "Wrap">>[1] = c
    BY <2>1, QuietAre, CloseShapes
  <2> QED BY <1>1, <2>1, <2>2
<1>2. ASSUME ArgsOf(name) = <<"Type", ")", "Wrap">>
      PROVE  \E j \in 1..2 : OneCloses(ArgsOf(name), j) /\ Closes[ArgsOf(name)[j]] = ")"
  <2>1. OneCloses(<<"Type", ")", "Wrap">>, 2) /\ <<"Type", ")", "Wrap">>[2] = ")"
    BY QuietAre, Enders, CloseShapes
  <2>2. Closes[")"] = ")"
    BY Enders
  <2>4. 2 \in 1..2
    OBVIOUS
  <2> DEFINE q == <<"Type", ")", "Wrap">>
  <2>3. OneCloses(q, 2) /\ q[2] = ")" /\ ArgsOf(name) = q
    BY <1>2, <2>1
  <2> HIDE DEF q
  <2> QED BY <2>2, <2>3, <2>4
<1> QED BY <1>1, <1>2 DEF ArgsOf

LEMMA CallBrackets == ASSUME Bracketed, Call PROVE Bracketed'
<1>0. todo # <<>> /\ Head(todo) \in QuietWords /\ Head(todo) \notin Pending
  BY QuietAre, QuietType DEF Call, At
<1>1. CASE Head(ahead) = "(" /\ Do(ArgsOf(val.name)) /\ Step
  <2>1. PICK j \in 1..2 : OneCloses(ArgsOf(val.name), j) /\ Closes[ArgsOf(val.name)[j]] = ")"
    BY ArgsClose
  <2>2. Cur = "("
    BY <1>1 DEF Cur, Text
  <2>3. Eats(Head(todo), "(", ArgsOf(val.name))
    BY <1>0, <2>1, EatOpening, ClosingIs
  <2> QED BY <1>0, <1>1, <2>2, <2>3, StepTakes
<1>2. CASE Do(<<>>) /\ Stay
  BY <1>0, <1>2, StayQuiet, QuietType
<1> QED BY <1>1, <1>2 DEF Call

LEMMA QuietBrackets == ASSUME Bracketed, NewBody \/ Wrap \/ Deref \/ Pinned \/ Judge PROVE Bracketed'
<1>1. Head(todo) \in {"NewBody", "Wrap", "Deref", "Pinned", "Judge"} /\ todo # <<>> /\ Do(<<>>) /\ Stay
  BY DEF NewBody, Wrap, Deref, Pinned, Judge, At
<1>2. Head(todo) \in QuietWords
  BY <1>1, QuietAre
<1> QED BY <1>1, <1>2, StayQuiet, QuietType

LEMMA TargetBrackets == ASSUME Bracketed, Target PROVE Bracketed'
<1>1. todo # <<>> /\ Head(todo) \in QuietWords /\ Stay
  BY QuietAre DEF Target, At
<1> DEFINE a == <<"Binary", "?;", "Deref">>
           b == IF Cur \in AssignOps /\ val.kind = "name" /\ val.name \in pins THEN <<"Pinned">> ELSE <<"Judge">>
<1>2. a \in Seq(QuietWords) /\ b \in Seq(QuietWords)
  BY QuietAre, QuietShapes
<1>3. Do(a \o b)
  BY DEF Target
<1> HIDE DEF a, b
<1>4. a \o b \in Seq(QuietWords)
  BY <1>2, Join
<1> QED BY <1>1, <1>3, <1>4, StayQuiet

(* A type in front of what may be taken back.                              *)
LEMMA TypeThen ==
    ASSUME NEW c \in Pending, NEW t \in Seq(StackWords)
    PROVE  <<"Type", c>> \o t = <<"Type">> \o (<<c>> \o t)
<1> DEFINE S == StackWords
           k == "Type"
<1>1. k \in S /\ c \in S /\ t \in Seq(S)
  BY QuietAre, QuietType DEF StackWords
<1> HIDE DEF S, k
<1> DEFINE o == <<k>>
           p == <<c>>
           d == <<k, c>>
<1>2. o \in Seq(S) /\ p \in Seq(S) /\ d \in Seq(S) /\ Len(o) = 1 /\ Len(p) = 1 /\ Len(d) = 2
      /\ o[1] = k /\ p[1] = c /\ d[1] = k /\ d[2] = c
  BY <1>1
<1> HIDE DEF o, p, d
<1>3. d = o \o p
  <2>0. o \in Seq(S) /\ p \in Seq(S)
    BY <1>2
  <2>1. o \o p \in Seq(S) /\ Len(o \o p) = Len(o) + Len(p)
    BY <2>0, Join
  <2>2. (\A i \in 1..Len(o) : (o \o p)[i] = o[i]) /\ \A i \in 1..Len(p) : (o \o p)[Len(o) + i] = p[i]
    BY <2>0, Join
  <2>3. (o \o p)[1] = k /\ (o \o p)[2] = c
    <3>1. 1 \in 1..1 /\ 1 + 1 = 2
      OBVIOUS
    <3> QED BY <1>2, <2>2, <3>1
  <2> QED BY <1>2, <2>1, <2>3
<1>4. (o \o p) \o t = o \o (p \o t)
  BY <1>1, <1>2
<1> QED BY <1>3, <1>4 DEF o, p, d, k

LEMMA MarkBrackets ==
    ASSUME Bracketed, todo # <<>>, NEW c \in Pending, Head(todo) \notin Pending,
           \A x, y \in Stacks : Fits(Head(todo), x, y) => Fits(c, x, y),
           Do(<<"Type", c>>), Mark, open' = open
    PROVE  Bracketed'
<1> DEFINE t == Tail(todo)
           e == [at |-> Len(back), open |-> open]
<1>1. PICK y \in Stacks, w \in Seq(Stacks) :
         /\ Pile(t, y, w) /\ Fits(Head(todo), open, y)
         /\ OpenAt(marks) = IF Head(todo) \in Pending THEN Append(w, open) ELSE w
  BY PileTop DEF Bracketed
<1>2. open \in Stacks /\ OpenAt(marks) = w
  BY <1>1, OpenIs
<1>3. Pile(<<c>> \o t, open, Append(w, open))
  BY <1>1, <1>2, PileMark
<1>4. Puts(<<"Type">>, open, open)
  BY <1>2, QuietPut, QuietAre, QuietShapes
<1>5. Pile(<<"Type">> \o (<<c>> \o t), open, Append(w, open))
  BY <1>3, <1>4, PilePut
<1>6. t \in Seq(StackWords)
  BY <1>1 DEF Pile
<1>7. todo' = <<"Type">> \o (<<c>> \o t)
  BY <1>6, TypeThen DEF Do
<1>8. marks' = Append(marks, e) /\ IsSeq(marks)
  BY DEF Mark, Bracketed
<1>9. IsSeq(marks') /\ OpenAt(marks') = Append(w, open)
  BY <1>2, <1>8, OpensAppend
<1> HIDE DEF t, e
<1> QED BY <1>5, <1>7, <1>9 DEF Bracketed

LEMMA MarksBrackets == ASSUME Bracketed, Paren \/ DeclOrExpr PROVE Bracketed'
<1>1. CASE Paren
  <2>1. Head(todo) = "Paren" /\ todo # <<>> /\ "Paren" \in Closers /\ "Paren" \notin Openers /\ "Paren" \notin Pending
    BY <1>1, Enders, CloserType DEF Paren, At
  <2>2. "Cast" \in Closers /\ "Cast" \notin Openers /\ Closes["Cast"] = Closes["Paren"] /\ "Cast" \in Pending
    BY ParenedAre, ClosesAre, CloserType DEF Closers, Pending
  <2>3. CASE Do(<<"Type", "Cast">>) /\ Mark /\ open' = open
    <3>1. \A x, y \in Stacks : Fits(Head(todo), x, y) => Fits("Cast", x, y)
      BY <2>1, <2>2 DEF Fits
    <3> QED BY <2>1, <2>2, <2>3, <3>1, MarkBrackets
  <2>4. CASE Do(<<"Expr", ")">>) /\ Stay
    <3>1. OneCloses(<<"Expr", ")">>, 2)
      BY QuietAre, Enders, CloseShapes
    <3>2. Turns("Paren", <<"Expr", ")">>)
      BY <3>1, TurnCloses, Enders
    <3> QED BY <2>1, <2>4, <3>2, StayTakes
  <2> QED BY <1>1, <2>3, <2>4 DEF Paren
<1>2. CASE DeclOrExpr
  <2>1. Head(todo) = "DeclOrExpr" /\ todo # <<>> /\ "DeclOrExpr" \in QuietWords
    BY <1>2, QuietAre DEF DeclOrExpr, At
  <2>2. "AfterType" \notin Closers /\ "AfterType" \notin Openers /\ "AfterType" \in Pending
    BY ParenedAre DEF Closers, Openers, Pending, Braced
  <2>3. CASE Do(<<"Type", "AfterType">>) /\ Mark /\ open' = open
    <3>1. \A x, y \in Stacks : Fits(Head(todo), x, y) => Fits("AfterType", x, y)
      BY <2>1, <2>2, QuietType DEF Fits
    <3> QED BY <2>1, <2>2, <2>3, <3>1, QuietType, MarkBrackets
  <2>4. CASE Do(<<"ExprStmt">>) /\ Stay
    BY <2>1, <2>4, StayQuiet, QuietAre, QuietShapes
  <2> QED BY <1>2, <2>3, <2>4 DEF DeclOrExpr
<1> QED BY <1>1, <1>2

(* Going on, or going back to the last mark.                               *)
LEMMA PendingTakes ==
    ASSUME Bracketed, todo # <<>>, Head(todo) \in Pending, NEW q, Do(q), marks' = Front(marks),
           \A y \in Stacks : Fits(Head(todo), open, y) /\ Last(marks).open = open => Puts(q, open', y)
    PROVE  Bracketed'
<1> DEFINE t == Tail(todo)
<1>1. PICK y \in Stacks, w \in Seq(Stacks) :
         Pile(t, y, w) /\ Fits(Head(todo), open, y) /\ OpenAt(marks) = Append(w, open)
  BY PileTop DEF Bracketed
<1>2. open \in Stacks /\ IsSeq(marks)
  BY OpenIs DEF Bracketed
<1>3. IsSeq(marks') /\ OpenAt(marks') = w /\ Last(marks).open = open
  BY <1>1, <1>2, OpensFront
<1>4. Puts(q, open', y)
  BY <1>1, <1>3
<1>5. Pile(q \o t, open', w)
  BY <1>1, <1>4, PilePut
<1> QED BY <1>3, <1>5 DEF Bracketed, Do

LEMMA CastBrackets == ASSUME Bracketed, Cast PROVE Bracketed'
<1>1. Head(todo) = "Cast" /\ todo # <<>> /\ "Cast" \in Pending /\ "Cast" \in Closers /\ Closes["Cast"] = ")"
  BY ParenedAre, ClosesAre DEF Cast, At, Closers, Pending
<1>2. ASSUME NEW y \in Stacks, Fits("Cast", open, y) PROVE open = Over(")", y)
  BY <1>1, <1>2 DEF Fits
<1>3. CASE Cur = ")" /\ Do(<<"Expr", "Wrap">>) /\ Forget /\ open' = Brackets(Cur)
  <2>1. ASSUME NEW y \in Stacks, Fits("Cast", open, y) PROVE Puts(<<"Expr", "Wrap">>, open', y)
    <3>1. open' = y
      BY <1>2, <1>3, <2>1, BracketsClose
    <3> QED BY <3>1, QuietPut, QuietAre, QuietShapes
  <2> QED BY <1>1, <1>3, <2>1, PendingTakes DEF Forget
<1>4. CASE Do(<<"Expr", ")">>) /\ Return
  <2>1. open' = Last(marks).open /\ marks' = Front(marks)
    BY <1>4 DEF Return
  <2>2. ASSUME NEW y \in Stacks, Fits("Cast", open, y), Last(marks).open = open PROVE Puts(<<"Expr", ")">>, open', y)
    <3>1. OneCloses(<<"Expr", ")">>, 2)
      BY QuietAre, Enders, CloseShapes
    <3>3. <<"Expr", ")">>[2] = ")" /\ Closes[")"] = ")"
      BY Enders
    <3>2. Puts(<<"Expr", ")">>, Over(")", y), y)
      BY <3>1, <3>3, OneClosesPut
    <3> QED BY <1>2, <2>1, <2>2, <3>2
  <2> QED BY <1>1, <1>4, <2>1, <2>2, PendingTakes
<1> QED BY <1>3, <1>4 DEF Cast

LEMMA AfterTypeBrackets == ASSUME Bracketed, AfterType PROVE Bracketed'
<1>1. Head(todo) = "AfterType" /\ todo # <<>> /\ "AfterType" \in Pending /\ "AfterType" \notin Closers /\ "AfterType" \notin Openers
  BY ParenedAre DEF AfterType, At, Closers, Openers, Pending, Braced
<1>2. ASSUME NEW y \in Stacks, Fits("AfterType", open, y) PROVE open = y
  BY <1>1, <1>2 DEF Fits
<1>3. CASE Do(<<"Id", "VarInit", "MoreVars">>) /\ Forget /\ open' = open
  <2>1. ASSUME NEW y \in Stacks, Fits("AfterType", open, y) PROVE Puts(<<"Id", "VarInit", "MoreVars">>, open', y)
    <3>1. open' = y
      BY <1>2, <1>3, <2>1
    <3> QED BY <3>1, QuietPut, QuietAre, QuietShapes
  <2> QED BY <1>1, <1>3, <2>1, PendingTakes DEF Forget
<1>4. CASE Do(<<"ExprStmt">>) /\ Return
  <2>1. open' = Last(marks).open /\ marks' = Front(marks)
    BY <1>4 DEF Return
  <2>2. ASSUME NEW y \in Stacks, Fits("AfterType", open, y), Last(marks).open = open PROVE Puts(<<"ExprStmt">>, open', y)
    <3>1. open' = y
      BY <1>2, <2>1, <2>2
    <3> QED BY <3>1, QuietPut, QuietAre, QuietShapes
  <2> QED BY <1>1, <1>4, <2>1, <2>2, PendingTakes
<1> QED BY <1>3, <1>4 DEF AfterType

LEMMA BalanceStarts == Init => BalanceInv
<1> SUFFICES ASSUME Init PROVE BalanceInv
  OBVIOUS
<1>1. ErrorInv
  BY InitExplained
<1>2. todo = <<"Decls">> /\ marks = <<>> /\ open = <<>>
  BY DEF Init
<1>3. IsSeq(<<>>) /\ OpenAt(<<>>) = <<>>
  <2>1. <<>> \in Seq({}) /\ Len(<<>>) = 0
    OBVIOUS
  <2>2. [i \in 1..0 |-> <<>>[i].open] = <<>>
    OBVIOUS
  <2> QED BY <2>1, <2>2 DEF IsSeq, OpenAt
<1>4. <<>> \in Stacks
  BY DEF Stacks
<1>5. Puts(<<"Decls">>, <<>>, <<>>)
  BY <1>4, QuietPut, QuietAre, QuietShapes
<1>6. Pile(<<"Decls">> \o <<>>, <<>>, <<>>)
  BY <1>5, PileNone, PilePut
<1>7. <<"Decls">> \o <<>> = <<"Decls">>
  <2> DEFINE h == <<"Decls">>
  <2>1. h \in Seq(QuietWords)
    BY QuietAre, QuietShapes
  <2> HIDE DEF h
  <2>2. h \o <<>> = h
    BY <2>1
  <2> QED BY <2>2 DEF h
<1> QED BY <1>1, <1>2, <1>3, <1>6, <1>7 DEF BalanceInv, Bracketed

LEMMA BalanceStep == ASSUME BalanceInv, [Next]_vars PROVE BalanceInv'
<1>1. ErrorInv' /\ (reported => reported')
  BY NextExplained DEF BalanceInv
<1>2. ASSUME ~reported' PROVE Bracketed'
  <2>1. Bracketed
    BY <1>1, <1>2 DEF BalanceInv
  <2>2. CASE Lex \/ UNCHANGED vars
    <3>1. UNCHANGED <<marks, todo, open>>
      BY <2>2 DEF Lex, vars
    <3> QED BY <2>1, <3>1 DEF Bracketed, OpenAt
  <2>3. CASE Follow
    BY <2>1, <2>3, FollowBrackets
  <2>4. CASE Expect
    BY <1>2, <2>1, <2>4, ExpectBrackets
  <2>5. CASE Ident \/ Path \/ AtPath
    BY <1>2, <2>1, <2>5, IdentBrackets
  <2>6. CASE Primary
    BY <1>2, <2>1, <2>6, PrimaryBrackets
  <2>7. CASE Call
    BY <2>1, <2>7, CallBrackets
  <2>8. CASE NewBody \/ Wrap \/ Deref \/ Pinned \/ Judge
    BY <2>1, <2>8, QuietBrackets
  <2>9. CASE Target
    BY <2>1, <2>9, TargetBrackets
  <2>10. CASE Paren \/ DeclOrExpr
    BY <2>1, <2>10, MarksBrackets
  <2>11. CASE Cast
    BY <2>1, <2>11, CastBrackets
  <2>12. CASE AfterType
    BY <2>1, <2>12, AfterTypeBrackets
  <2> QED BY <2>2, <2>3, <2>4, <2>5, <2>6, <2>7, <2>8, <2>9, <2>10, <2>11, <2>12 DEF Next
<1> QED BY <1>1, <1>2 DEF BalanceInv

(* Whatever the source, as long as no error is collected the text read so  *)
(* far nests, and what the active functions of the descent still expect    *)
(* closes exactly the brackets that are open, whichever tentative parses   *)
(* (int mark = p->pos ... p->pos = mark) went before.                      *)
THEOREM BracketsBalance == Spec => []Balanced
<1>1. BalanceInv => Balanced
  BY PileAsked DEF BalanceInv, Bracketed, Balanced
<1> QED BY <1>1, BalanceStarts, BalanceStep, PTL DEF Spec
-----------------------------------------------------------------------------

Declared(d, n) == scopes[d][n] # None

Numbered ==
    /\ \A d \in 1..Len(scopes), n \in Variables :
          Declared(d, n) => scopes[d][n].id < fresh
    /\ \A d, e \in 1..Len(scopes), n, m \in Variables :
          Declared(d, n) /\ Declared(e, m) =>
             /\ scopes[d][n].id = scopes[e][m].id => d = e /\ n = m
             /\ d < e => scopes[d][n].id < scopes[e][m].id
    /\ \A i \in gives : i < fresh

(* Every prefix of the scope stack that declares a name has an innermost   *)
(* scope that does.                                                        *)
Searchable ==
    \A n \in Variables, k \in 0..Len(scopes) :
       (\E d \in 1..k : Declared(d, n)) =>
          \E d \in 1..k : Declared(d, n) /\ \A e \in 1..k : Declared(e, n) => e <= d

Given == given \subseteq gives

IInv == TypeOK /\ Numbered /\ Searchable /\ DeadExactly /\ Given

(* get_var_info finds the declaration that the name means.                 *)
LEMMA Resolve ==
    ASSUME TypeOK, Numbered, Searchable, NEW n \in Variables, var_in_scope(n)
    PROVE  /\ ScopeOf(n) \in 1..Len(scopes)
           /\ Declared(ScopeOf(n), n)
           /\ get_var_info(n) \in Info
           /\ Meaning(n) = get_var_info(n).id
           /\ Meaning(n) \in Nat /\ Meaning(n) < fresh
<1>1. Len(scopes) \in Nat /\ DeclaredIn(n) \in SUBSET (1..Len(scopes)) /\ DeclaredIn(n) # {}
  BY DEF TypeOK, var_in_scope, DeclaredIn
<1>2. \E d \in DeclaredIn(n) : \A e \in DeclaredIn(n) : e <= d
  <2>1. Len(scopes) \in 0..Len(scopes) /\ \E d \in 1..Len(scopes) : Declared(d, n)
    BY <1>1 DEF DeclaredIn, Declared
  <2> QED BY <2>1 DEF Searchable, DeclaredIn, Declared
<1>3. /\ ScopeOf(n) \in DeclaredIn(n)
      /\ \A e \in DeclaredIn(n) : e <= ScopeOf(n)
  BY <1>2 DEF ScopeOf, Innermost
<1>4. ScopeOf(n) \in 1..Len(scopes) /\ Declared(ScopeOf(n), n)
  BY <1>3 DEF DeclaredIn, Declared
<1>5. get_var_info(n) \in Info
  BY <1>4 DEF TypeOK, Scope, get_var_info, Declared
<1> DEFINE i == get_var_info(n).id
<1>6. i \in Ids(n) /\ i \in Nat /\ i < fresh
  BY <1>3, <1>4, <1>5 DEF Ids, get_var_info, Info, Numbered
<1>7. \A j \in Ids(n) : j \in Nat /\ j <= i
  <2> SUFFICES ASSUME NEW d \in DeclaredIn(n)
               PROVE  scopes[d][n].id \in Nat /\ scopes[d][n].id <= i
    BY DEF Ids
  <2>1. d \in 1..Len(scopes) /\ Declared(d, n) /\ d <= ScopeOf(n)
    BY <1>3 DEF DeclaredIn, Declared
  <2>2. scopes[d][n] \in Info
    BY <2>1 DEF TypeOK, Scope, Declared
  <2>3. scopes[d][n].id \in Nat
    BY <2>2 DEF Info
  <2>4. CASE d = ScopeOf(n)
    BY <2>3, <2>4 DEF get_var_info
  <2>5. CASE d < ScopeOf(n)
    BY <2>1, <2>3, <2>5, <1>4, <1>6 DEF Numbered, get_var_info
  <2> QED BY <1>1, <1>4, <2>1, <2>4, <2>5
<1>8. Meaning(n) = i
  <2>1. Meaning(n) \in Ids(n) /\ \A j \in Ids(n) : j <= Meaning(n)
    BY <1>6, <1>7 DEF Meaning
  <2> QED BY <1>6, <1>7, <2>1
<1> QED BY <1>4, <1>5, <1>6, <1>8
-----------------------------------------------------------------------------
(* What the five ways a step changes the scopes preserve.                  *)
ScopeInv == /\ scopes \in Seq(Scope) /\ fresh \in Nat /\ gives \in SUBSET Nat
            /\ Numbered /\ Searchable /\ DeadExactly

LEMMA EmptyScope == Empty \in Scope /\ \A n \in Variables : Empty[n] = None
  BY DEF Empty, Scope

LEMMA InfoNotNone == \A i \in Info : i # None /\ i.id \in Nat /\ i.dead \in BOOLEAN
  BY DEF Info, None

LEMMA SameScopes ==
    ASSUME ScopeInv, UNCHANGED <<scopes, fresh, gives>> PROVE ScopeInv'
  BY DEF ScopeInv, Numbered, Searchable, DeadExactly, Declared

LEMMA PushScope ==
    ASSUME ScopeInv, scopes' = Append(scopes, Empty), UNCHANGED <<fresh, gives>>
    PROVE  ScopeInv' /\ Len(scopes') = Len(scopes) + 1
<1>1. /\ scopes' \in Seq(Scope) /\ Len(scopes) \in Nat /\ Len(scopes') = Len(scopes) + 1
      /\ \A d \in 1..Len(scopes) : scopes'[d] = scopes[d]
      /\ scopes'[Len(scopes) + 1] = Empty
  BY EmptyScope DEF ScopeInv
<1>2. \A d \in 1..Len(scopes'), n \in Variables :
         Declared(d, n)' => d \in 1..Len(scopes) /\ Declared(d, n) /\ scopes'[d][n] = scopes[d][n]
  <2> SUFFICES ASSUME NEW d \in 1..Len(scopes'), NEW n \in Variables, Declared(d, n)'
               PROVE  d \in 1..Len(scopes) /\ Declared(d, n) /\ scopes'[d][n] = scopes[d][n]
    OBVIOUS
  <2>1. d # Len(scopes) + 1
    BY <1>1, EmptyScope DEF Declared
  <2>2. d \in 1..Len(scopes)
    BY <1>1, <2>1
  <2> QED BY <1>1, <2>2 DEF Declared
<1>3. Numbered'
  BY <1>1, <1>2 DEF ScopeInv, Numbered
<1>4. DeadExactly'
  BY <1>1, <1>2 DEF ScopeInv, DeadExactly, Declared
<1>5. Searchable'
  <2> SUFFICES ASSUME NEW n \in Variables, NEW k \in 0..Len(scopes'),
                      NEW c \in 1..k, Declared(c, n)'
               PROVE  \E d \in 1..k : Declared(d, n)' /\ \A e \in 1..k : Declared(e, n)' => e <= d
    BY DEF Searchable
  <2> DEFINE m == IF k = Len(scopes) + 1 THEN k - 1 ELSE k
  <2>1. m \in 0..Len(scopes) /\ 1..m \subseteq 1..k /\ 1..k \subseteq 1..Len(scopes')
    BY <1>1
  <2>2. \A e \in 1..k : Declared(e, n)' => e \in 1..m /\ Declared(e, n)
    <3> SUFFICES ASSUME NEW e \in 1..k, Declared(e, n)' PROVE e \in 1..m /\ Declared(e, n)
      OBVIOUS
    <3>1. e \in 1..Len(scopes) /\ Declared(e, n)
      BY <1>2, <2>1
    <3> QED BY <1>1, <3>1
  <2> HIDE DEF m
  <2>3. PICK d \in 1..m : Declared(d, n) /\ \A e \in 1..m : Declared(e, n) => e <= d
    BY <2>1, <2>2 DEF ScopeInv, Searchable
  <2>4. d \in 1..k /\ d \in 1..Len(scopes)
    BY <1>1, <2>1
  <2>5. Declared(d, n)'
    BY <1>1, <2>3, <2>4 DEF Declared
  <2> QED BY <2>2, <2>3, <2>4, <2>5
<1> QED BY <1>1, <1>3, <1>4, <1>5 DEF ScopeInv

LEMMA Cut ==
    ASSUME NEW S, NEW q \in Seq(S), NEW k \in 0..Len(q)
    PROVE  /\ SubSeq(q, 1, k) \in Seq(S) /\ Len(SubSeq(q, 1, k)) = k
           /\ \A i \in 1..k : SubSeq(q, 1, k)[i] = q[i] /\ i \in 1..Len(q)
  OBVIOUS

LEMMA Replace ==
    ASSUME NEW S, NEW q \in Seq(S), NEW k \in 1..Len(q), NEW w \in S
    PROVE  LET r == [q EXCEPT ![k] = w]
           IN  /\ r \in Seq(S) /\ Len(r) = Len(q)
               /\ \A i \in 1..Len(q) : r[i] = IF i = k THEN w ELSE q[i]
  OBVIOUS

LEMMA PopScope ==
    ASSUME ScopeInv, Len(scopes) > 0, UNCHANGED <<fresh, gives>>,
           scopes' = SubSeq(scopes, 1, Len(scopes) - 1)
    PROVE  ScopeInv' /\ Len(scopes') = Len(scopes) - 1
<1>1. /\ scopes' \in Seq(Scope) /\ Len(scopes) \in Nat /\ Len(scopes') = Len(scopes) - 1
      /\ \A d \in 1..Len(scopes') : scopes'[d] = scopes[d] /\ d \in 1..Len(scopes)
  <2>1. scopes \in Seq(Scope) /\ Len(scopes) \in Nat
    BY DEF ScopeInv
  <2>2. Len(scopes) - 1 \in 0..Len(scopes)
    BY <2>1
  <2> QED BY <2>1, <2>2, Cut
<1>2. 0..Len(scopes') \subseteq 0..Len(scopes)
  BY <1>1
<1>3. \A k \in 0..Len(scopes') : 1..k \subseteq 1..Len(scopes')
  BY <1>1
<1>4. \A d \in 1..Len(scopes'), n \in Variables : Declared(d, n)' <=> Declared(d, n)
  BY <1>1 DEF Declared
<1>5. Numbered'
  BY <1>1, <1>4 DEF ScopeInv, Numbered
<1>6. DeadExactly'
  BY <1>1 DEF ScopeInv, DeadExactly
<1>7. Searchable'
  <2> SUFFICES ASSUME NEW n \in Variables, NEW k \in 0..Len(scopes'),
                      NEW c \in 1..k, Declared(c, n)'
               PROVE  \E d \in 1..k : Declared(d, n)' /\ \A e \in 1..k : Declared(e, n)' => e <= d
    BY DEF Searchable
  <2>1. Declared(c, n) /\ k \in 0..Len(scopes)
    BY <1>2, <1>3, <1>4
  <2>2. PICK d \in 1..k : Declared(d, n) /\ \A e \in 1..k : Declared(e, n) => e <= d
    BY <2>1 DEF ScopeInv, Searchable
  <2> QED BY <1>3, <1>4, <2>2
<1> QED BY <1>1, <1>5, <1>6, <1>7 DEF ScopeInv

LEMMA DeclareVar ==
    ASSUME ScopeInv, Len(scopes) > 0, NEW n \in Variables, NEW owned \in BOOLEAN,
           Declare(n, owned)
    PROVE  ScopeInv' /\ Len(scopes') = Len(scopes)
<1> DEFINE L == Len(scopes)
           i == [id |-> fresh, owned |-> owned, dead |-> FALSE]
<1>1. /\ L \in Nat /\ L \in 1..L /\ scopes \in Seq(Scope)
      /\ fresh \in Nat /\ fresh' = fresh + 1 /\ gives' = gives
  BY DEF ScopeInv, Declare
<1>2. i \in Info /\ i.id = fresh /\ i.dead = FALSE
  BY <1>1 DEF Info
<1>3. scopes[L][n] = None /\ scopes' = [scopes EXCEPT ![L][n] = i]
  BY DEF Declare
<1> HIDE DEF i
<1>4. scopes[L] \in Scope /\ [scopes[L] EXCEPT ![n] = i] \in Scope
  BY <1>1, <1>2 DEF Scope
<1>5. /\ scopes' \in Seq(Scope) /\ Len(scopes') = L
      /\ \A d \in 1..L, m \in Variables :
            scopes'[d][m] = IF d = L /\ m = n THEN i ELSE scopes[d][m]
  BY <1>1, <1>3, <1>4 DEF Scope
<1>6. \A d \in 1..L, m \in Variables :
         Declared(d, m)' <=> Declared(d, m) \/ (d = L /\ m = n)
  BY <1>1, <1>2, <1>5, InfoNotNone DEF Declared
<1>7. \A d \in 1..L, m \in Variables : Declared(d, m) =>
         /\ ~(d = L /\ m = n) /\ scopes'[d][m] = scopes[d][m]
         /\ scopes[d][m] \in Info /\ scopes[d][m].id \in Nat /\ scopes[d][m].id < fresh
  <2> SUFFICES ASSUME NEW d \in 1..L, NEW m \in Variables, Declared(d, m)
               PROVE  /\ ~(d = L /\ m = n) /\ scopes'[d][m] = scopes[d][m]
                      /\ scopes[d][m] \in Info /\ scopes[d][m].id \in Nat
                      /\ scopes[d][m].id < fresh
    OBVIOUS
  <2>1. ~(d = L /\ m = n)
    BY <1>3 DEF Declared
  <2>2. scopes[d][m] \in Info
    BY <1>1 DEF Scope, Declared
  <2> QED BY <1>5, <2>1, <2>2, InfoNotNone DEF ScopeInv, Numbered
<1> HIDE DEF L
<1>8. Numbered'
  <2>1. \A d \in 1..L, m \in Variables : Declared(d, m)' => scopes'[d][m].id < fresh'
    <3> SUFFICES ASSUME NEW d \in 1..L, NEW m \in Variables, Declared(d, m)'
                 PROVE  scopes'[d][m].id < fresh + 1
      BY <1>1
    <3>1. CASE Declared(d, m)
      BY <1>1, <1>7, <3>1
    <3>2. CASE d = L /\ m = n
      <4>1. scopes'[d][m].id = fresh
        BY <1>2, <1>5, <3>2
      <4> QED BY <1>1, <4>1
    <3> QED BY <1>6, <3>1, <3>2
  <2>2. ASSUME NEW d \in 1..L, NEW e \in 1..L, NEW m \in Variables, NEW o \in Variables,
               Declared(d, m)', Declared(e, o)'
        PROVE  /\ scopes'[d][m].id = scopes'[e][o].id => d = e /\ m = o
               /\ d < e => scopes'[d][m].id < scopes'[e][o].id
    <3>1. CASE Declared(d, m) /\ Declared(e, o)
      <4>1. scopes'[d][m] = scopes[d][m] /\ scopes'[e][o] = scopes[e][o]
        BY <1>7, <3>1
      <4>2. d \in 1..Len(scopes) /\ e \in 1..Len(scopes)
        BY DEF L
      <4> QED BY <3>1, <4>1, <4>2 DEF ScopeInv, Numbered
    <3>2. CASE Declared(d, m) /\ e = L /\ o = n
      <4>1. scopes'[d][m].id < fresh /\ scopes'[d][m].id \in Nat /\ scopes'[e][o].id = fresh
        BY <1>2, <1>5, <1>7, <3>2
      <4> QED BY <1>1, <4>1
    <3>3. CASE Declared(e, o) /\ d = L /\ m = n
      <4>1. scopes'[e][o].id < fresh /\ scopes'[e][o].id \in Nat /\ scopes'[d][m].id = fresh
        BY <1>2, <1>5, <1>7, <3>3
      <4>2. ~(d < e)
        BY <1>1, <3>3
      <4> QED BY <1>1, <4>1, <4>2
    <3>4. CASE d = L /\ e = L /\ m = n /\ o = n
      BY <1>1, <3>4
    <3> QED BY <1>6, <2>2, <3>1, <3>2, <3>3, <3>4
  <2>3. \A g \in gives' : g < fresh'
    <3>1. gives \subseteq Nat /\ \A g \in gives : g < fresh
      <4> HIDE DEF DeadExactly, Searchable
      <4> QED  BY DEF ScopeInv, Numbered
    <3>2. \A g \in Nat : g < fresh => g < fresh + 1
      BY <1>1
    <3> QED  BY <1>1, <3>1, <3>2
  <2> QED BY <1>5, <2>1, <2>2, <2>3 DEF Numbered
<1>9. DeadExactly'
  <2> SUFFICES ASSUME NEW d \in 1..L, NEW m \in Variables, Declared(d, m)'
               PROVE  scopes'[d][m].dead <=> scopes'[d][m].id \in gives
    BY <1>1, <1>5 DEF DeadExactly, Declared
  <2>1. CASE Declared(d, m)
    BY <1>7, <2>1 DEF ScopeInv, DeadExactly, Declared, L
  <2>2. CASE d = L /\ m = n
    <3>1. scopes'[d][m] = i
      BY <1>5, <2>2
    <3>2. fresh \notin gives
      BY <1>1 DEF ScopeInv, Numbered
    <3> QED BY <1>2, <3>1, <3>2
  <2> QED BY <1>6, <2>1, <2>2
<1>10. Searchable'
  <2> SUFFICES ASSUME NEW m \in Variables, NEW k \in 0..L, NEW c \in 1..k, Declared(c, m)'
               PROVE  \E d \in 1..k : Declared(d, m)' /\ \A e \in 1..k : Declared(e, m)' => e <= d
    BY <1>5 DEF Searchable
  <2>0. 1..k \subseteq 1..L
    BY <1>1
  <2>1. CASE k = L /\ m = n
    <3>1. \E l \in 1..k : l = k /\ Declared(l, m)'
      BY <1>1, <1>6, <2>1
    <3>2. \A e \in 1..k : e <= k
      OBVIOUS
    <3> QED BY <3>1, <3>2
  <2>2. CASE ~(k = L /\ m = n)
    <3>1. \A e \in 1..k : Declared(e, m)' <=> Declared(e, m)
      <4>1. \A e \in 1..k : ~(e = L /\ m = n)
        BY <1>1, <2>2
      <4> QED BY <1>6, <2>0, <4>1
    <3>2. PICK d \in 1..k : Declared(d, m) /\ \A e \in 1..k : Declared(e, m) => e <= d
      BY <3>1 DEF ScopeInv, Searchable, L
    <3> QED BY <3>1, <3>2
  <2> QED BY <2>1, <2>2
<1> QED BY <1>1, <1>5, <1>8, <1>9, <1>10 DEF ScopeInv, L

LEMMA MarkDead ==
    ASSUME ScopeInv, TypeOK, NEW n \in Variables, var_in_scope(n), mark_var_dead(n),
           gives' = gives \cup {Meaning(n)}, fresh' = fresh
    PROVE  ScopeInv' /\ Len(scopes') = Len(scopes)
<1> DEFINE D == ScopeOf(n)
<1>1. /\ D \in 1..Len(scopes) /\ Declared(D, n) /\ scopes[D][n] \in Info
      /\ Meaning(n) = scopes[D][n].id /\ Meaning(n) \in Nat /\ Meaning(n) < fresh
  BY Resolve DEF ScopeInv, get_var_info
<1>2. scopes' = [scopes EXCEPT ![D][n].dead = TRUE] /\ scopes \in Seq(Scope)
  BY DEF mark_var_dead, ScopeInv
<1> HIDE DEF D
<1> DEFINE i == [scopes[D][n] EXCEPT !.dead = TRUE]
<1>3. i \in Info /\ i.id = scopes[D][n].id /\ i.dead = TRUE
  BY <1>1 DEF Info
<1>4. scopes[D] \in Scope /\ scopes' = [scopes EXCEPT ![D] = [scopes[D] EXCEPT ![n] = i]]
  BY <1>1, <1>2
<1> HIDE DEF i
<1>5. [scopes[D] EXCEPT ![n] = i] \in Scope
  BY <1>3, <1>4 DEF Scope
<1>6. /\ scopes' \in Seq(Scope) /\ Len(scopes') = Len(scopes)
      /\ \A d \in 1..Len(scopes), m \in Variables :
            scopes'[d][m] = IF d = D /\ m = n THEN i ELSE scopes[d][m]
  <2> DEFINE w == [scopes[D] EXCEPT ![n] = i]
  <2>1. w \in Scope /\ \A m \in Variables : w[m] = IF m = n THEN i ELSE scopes[D][m]
    BY <1>4, <1>5 DEF Scope
  <2>2. scopes' = [scopes EXCEPT ![D] = w]
    BY <1>4
  <2> HIDE DEF w
  <2>3. /\ scopes' \in Seq(Scope) /\ Len(scopes') = Len(scopes)
        /\ \A d \in 1..Len(scopes) : scopes'[d] = IF d = D THEN w ELSE scopes[d]
    <3>1. scopes \in Seq(Scope) /\ D \in 1..Len(scopes) /\ w \in Scope
      BY <1>1, <1>2, <2>1
    <3> QED BY <2>2, <3>1, Replace
  <2> QED BY <2>1, <2>3
<1>7. \A d \in 1..Len(scopes), m \in Variables :
         /\ Declared(d, m)' <=> Declared(d, m)
         /\ scopes'[d][m].id = scopes[d][m].id
  BY <1>1, <1>3, <1>6, InfoNotNone DEF Declared
<1>8. Numbered'
  <2>1. \A g \in gives' : g < fresh'
    BY <1>1 DEF ScopeInv, Numbered
  <2> QED BY <1>6, <1>7, <2>1 DEF ScopeInv, Numbered
<1>9. Searchable'
  <2>1. \A k \in 0..Len(scopes) : 1..k \subseteq 1..Len(scopes)
    BY <1>2
  <2> QED BY <1>6, <1>7, <2>1 DEF ScopeInv, Searchable
<1>10. DeadExactly'
  <2> SUFFICES ASSUME NEW d \in 1..Len(scopes), NEW m \in Variables, Declared(d, m)
               PROVE  scopes'[d][m].dead <=> scopes[d][m].id \in gives \cup {Meaning(n)}
    BY <1>6, <1>7 DEF DeadExactly, Declared
  <2>1. CASE d = D /\ m = n
    BY <1>1, <1>3, <1>6, <2>1
  <2>2. CASE ~(d = D /\ m = n)
    <3>1. scopes'[d][m] = scopes[d][m]
      BY <1>6, <2>2
    <3>2. scopes[d][m].id # Meaning(n)
      BY <1>1, <2>2 DEF ScopeInv, Numbered
    <3> QED BY <3>1, <3>2 DEF ScopeInv, DeadExactly, Declared
  <2> QED BY <2>1, <2>2
<1>11. gives' \in SUBSET Nat
  BY <1>1 DEF ScopeInv
<1> QED BY <1>6, <1>8, <1>9, <1>10, <1>11 DEF ScopeInv
-----------------------------------------------------------------------------
LEMMA InitIInv == CheckInit => IInv
<1> SUFFICES ASSUME CheckInit PROVE IInv
  OBVIOUS
<1>1. Len(scopes) = 1 /\ scopes[1] = Empty /\ scopes \in Seq(Scope)
  BY EmptyScope DEF CheckInit
<1>2. \A d \in 1..Len(scopes), n \in Variables : ~Declared(d, n)
  <2>1. \A d \in 1..Len(scopes) : scopes[d] = Empty
    BY <1>1
  <2> QED BY <2>1, EmptyScope DEF Declared
<1>3. TypeOK
  <2>1. blocks \in Seq(Block) /\ Len(blocks) = 0
    BY DEF CheckInit
  <2>2. prev \in Block \cup {NoBlock} /\ errors \in SUBSET Codes
    BY DEF CheckInit
  <2>3. given \in SUBSET Nat /\ gives \in SUBSET Nat /\ misused \in BOOLEAN
    BY DEF CheckInit
  <2>4. fresh \in Nat /\ fns \in Nat
    BY DEF CheckInit
  <2> QED BY <1>1, <2>1, <2>2, <2>3, <2>4 DEF TypeOK
<1>4. Numbered /\ DeadExactly
  BY <1>2 DEF CheckInit, Numbered, DeadExactly, Declared
<1>5. Searchable
  <2>1. \A k \in 0..Len(scopes) : 1..k \subseteq 1..Len(scopes)
    BY <1>1
  <2> QED BY <1>2, <2>1 DEF Searchable
<1> QED BY <1>3, <1>4, <1>5 DEF CheckInit, IInv, Given

LEMMA AccessType ==
    ASSUME TypeOK, NEW n, Access(n)
    PROVE  misused' \in BOOLEAN
  BY DEF Access, TypeOK

(* What a step does to the blocks, for the type invariant.                 *)
LEMMA LeftType ==
    ASSUME TypeOK, NEW from \in 1..Len(blocks), NEW threw \in BOOLEAN
    PROVE  /\ Left(from, threw) \in Seq(Block) /\ Len(Left(from, threw)) = Len(blocks)
           /\ \A b \in 1..Len(blocks) : Left(from, threw)[b].kind = blocks[b].kind
<1> DEFINE f(b) == IF b >= from THEN [blocks[b] EXCEPT !.runs = FALSE, !.threw = threw /\ b = from]
                                ELSE blocks[b]
<1>1. \A b \in 1..Len(blocks) : f(b) \in Block /\ f(b).kind = blocks[b].kind
  <2> SUFFICES ASSUME NEW b \in 1..Len(blocks) PROVE f(b) \in Block /\ f(b).kind = blocks[b].kind
    OBVIOUS
  <2> DEFINE t == threw /\ b = from
  <2>1. t \in BOOLEAN
    OBVIOUS
  <2>2. blocks[b] \in Block
    BY DEF TypeOK
  <2> HIDE DEF t
  <2>3. [blocks[b] EXCEPT !.runs = FALSE, !.threw = t] \in Block
    BY <2>1, <2>2 DEF Block
  <2>4. [blocks[b] EXCEPT !.runs = FALSE, !.threw = t].kind = blocks[b].kind
    BY <2>2 DEF Block
  <2> QED BY <2>2, <2>3, <2>4 DEF t
<1>2. Left(from, threw) = [b \in 1..Len(blocks) |-> f(b)]
  BY DEF Left
<1> HIDE DEF f
<1> QED BY <1>1, <1>2 DEF TypeOK

THEOREM IInvNext == IInv /\ [CheckNext]_checkVars => IInv'
<1> SUFFICES ASSUME IInv, [CheckNext]_checkVars PROVE IInv'
  OBVIOUS
<1>0. /\ TypeOK /\ ScopeInv /\ given \subseteq gives
      /\ Len(scopes) \in Nat /\ Len(blocks) \in Nat /\ Len(scopes) = Len(blocks) + 1
  BY DEF IInv, TypeOK, ScopeInv, Given
<1> SUFFICES TypeOK' /\ ScopeInv' /\ Given'
  BY DEF IInv, ScopeInv
<1>1. ASSUME NEW n \in Variables, Use(n) PROVE TypeOK' /\ ScopeInv' /\ Given'
  <2>1. ScopeInv' /\ Given'
    BY <1>0, <1>1, SameScopes DEF Use, Given
  <2>2. misused' \in BOOLEAN
    BY <1>0, <1>1, AccessType DEF Use, TypeOK
  <2>3. errors' \in SUBSET Codes
    BY <1>0, <1>1 DEF Use, TypeOK, NameErrors, Codes
  <2> QED BY <1>0, <1>1, <2>1, <2>2, <2>3 DEF Use, TypeOK
<1>2. ASSUME NEW n \in Variables, Give(n) PROVE TypeOK' /\ ScopeInv' /\ Given'
  <2>1. errors' \in SUBSET Codes
    BY <1>0, <1>2 DEF Give, TypeOK, NameErrors, Codes
  <2>2. CASE var_in_scope(n)
    <3>1. Meaning(n) \in Nat
      BY <1>0, <2>2, Resolve DEF ScopeInv
    <3>2. ScopeInv' /\ Len(scopes') = Len(scopes)
      BY <1>0, <1>2, <2>2, MarkDead DEF Give
    <3>3. misused' \in BOOLEAN
      BY <1>0, <1>2, <2>2, AccessType DEF Give
    <3>4. Given' /\ given' \in SUBSET Nat /\ gives' \in SUBSET Nat
      BY <1>0, <1>2, <2>2, <3>1 DEF Give, Given, TypeOK
    <3>5. UNCHANGED <<fresh, fns, blocks>> /\ prev' = NoBlock
      BY <1>2 DEF Give
    <3>6. scopes' \in Seq(Scope)
      BY <3>2 DEF ScopeInv
    <3> QED BY <1>0, <2>1, <3>2, <3>3, <3>4, <3>5, <3>6 DEF TypeOK
  <2>3. CASE ~var_in_scope(n)
    <3>1. UNCHANGED <<scopes, misused, blocks, given, gives, fresh, fns>> /\ prev' = NoBlock
      BY <1>2, <2>3 DEF Give
    <3>2. ScopeInv' /\ Given'
      BY <1>0, <3>1, SameScopes DEF Given
    <3> QED BY <1>0, <2>1, <3>1, <3>2 DEF TypeOK
  <2> QED BY <2>2, <2>3
<1>3. ASSUME NEW n \in Variables, NEW owned \in BOOLEAN, Declare(n, owned)
      PROVE  TypeOK' /\ ScopeInv' /\ Given'
  <2>1. ScopeInv' /\ Len(scopes') = Len(scopes)
    BY <1>0, <1>3, DeclareVar
  <2>2. scopes' \in Seq(Scope) /\ fresh' \in Nat
    BY <2>1 DEF ScopeInv
  <2> QED BY <1>0, <1>3, <2>1, <2>2 DEF Declare, path, TypeOK, Given
<1>4. CASE BeginFn
  <2> DEFINE body == [kind |-> "fn", runs |-> TRUE, entered |-> TRUE, threw |-> FALSE]
  <2>1. ScopeInv' /\ Len(scopes') = Len(scopes) + 1
    BY <1>0, <1>4, PushScope DEF BeginFn
  <2>2. body \in Block
    BY DEF Block
  <2> HIDE DEF body
  <2>3. blocks' \in Seq(Block) /\ Len(blocks') = 1 /\ Len(blocks) = 0
    BY <1>0, <1>4, <2>2 DEF BeginFn, InFn, TypeOK, body
  <2>4. scopes' \in Seq(Scope) /\ Len(scopes') = Len(blocks') + 1
    BY <1>0, <2>1, <2>3 DEF ScopeInv
  <2>5. fns' \in Nat /\ Given' /\ given' = {}
    BY <1>0, <1>4 DEF BeginFn, TypeOK, Given
  <2> QED BY <1>0, <1>4, <2>1, <2>3, <2>4, <2>5 DEF BeginFn, TypeOK
<1>5. ASSUME NEW k \in Kinds, Open(k) PROVE TypeOK' /\ ScopeInv' /\ Given'
  <2>1. ScopeInv' /\ Len(scopes') = Len(scopes) + 1 /\ scopes' \in Seq(Scope)
    BY <1>0, <1>5, PushScope DEF Open, ScopeInv
  <2>2. Len(blocks) \in 1..Len(blocks) /\ Top \in Block
    BY <1>0, <1>5 DEF Open, InFn, Top, TypeOK
  <2>3. Top.runs \in BOOLEAN /\ k \in AllKinds
    BY <2>2, KindsAssumption DEF Block
  <2>4. prev.entered \in BOOLEAN /\ prev.threw \in BOOLEAN
    <3>1. prev \in Block \cup {NoBlock}
      BY <1>0 DEF TypeOK
    <3>2. CASE prev \in Block
      BY <3>2 DEF Block
    <3>3. CASE prev = NoBlock
      BY <3>3 DEF NoBlock
    <3> QED BY <3>1, <3>2, <3>3
  <2>5. Enters(k) \subseteq BOOLEAN
    <3>1. CASE k \in {"if", "loop"}
      BY <3>1 DEF Enters
    <3>2. CASE k = "else"
      <4>1. Enters(k) = {Top.runs /\ ~prev.entered}
        BY <3>2 DEF Enters
      <4> QED BY <4>1, <2>3, <2>4
    <3>3. CASE k = "catch"
      BY <2>4, <3>3 DEF Enters
    <3>4. CASE k \in {"block", "try", "defer"}
      BY <2>3, <3>4 DEF Enters
    <3> QED BY <2>3, <3>1, <3>2, <3>3, <3>4 DEF AllKinds
  <2>6. PICK runs \in Enters(k) :
          blocks' = Append(blocks, [kind |-> k, runs |-> runs, entered |-> runs, threw |-> FALSE])
    BY <1>5 DEF Open
  <2> DEFINE nb == [kind |-> k, runs |-> runs, entered |-> runs, threw |-> FALSE]
  <2>7. nb \in Block
    BY <2>3, <2>5 DEF Block
  <2>8. blocks' = Append(blocks, nb)
    BY <2>6
  <2> HIDE DEF nb
  <2>11. blocks' \in Seq(Block) /\ Len(blocks') = Len(blocks) + 1
    BY <1>0, <2>7, <2>8 DEF TypeOK
  <2>12. UNCHANGED <<errors, fresh, fns, path, gives>> /\ prev' = NoBlock
    BY <1>5 DEF Open
  <2> QED BY <1>0, <2>1, <2>11, <2>12 DEF TypeOK, Given, path
<1>6. ASSUME Len(blocks) > 0, scopes' = SubSeq(scopes, 1, Len(scopes) - 1),
             UNCHANGED <<fresh, gives>>
      PROVE  ScopeInv' /\ Len(scopes') = Len(blocks) /\ scopes' \in Seq(Scope)
  BY <1>0, <1>6, PopScope DEF ScopeInv
<1>7. CASE Close
  <2>1. Len(blocks) > 1 /\ Len(blocks) - 1 \in 0..Len(blocks) /\ Len(blocks) \in 1..Len(blocks)
    BY <1>0, <1>7 DEF Close
  <2>2. ScopeInv' /\ Len(scopes') = Len(blocks) /\ scopes' \in Seq(Scope)
    BY <1>0, <1>6, <1>7, <2>1 DEF Close
  <2>3. blocks' \in Seq(Block) /\ Len(blocks') = Len(blocks) - 1
    BY <1>0, <1>7, <2>1, Cut DEF Close, TypeOK
  <2>4. Top \in Block
    BY <1>0, <2>1 DEF Top, TypeOK
  <2>5. prev' \in Block \cup {NoBlock}
    BY <1>7, <2>4 DEF Close, Before, Block
  <2>7. UNCHANGED <<errors, fresh, fns, path, gives>>
    BY <1>7 DEF Close
  <2>8. Len(scopes') = Len(blocks') + 1
    BY <1>0, <2>2, <2>3
  <2> QED BY <1>0, <2>2, <2>3, <2>5, <2>7, <2>8 DEF TypeOK, Given, path
<1>8. CASE Ret
  <2>1. 1 \in 1..Len(blocks)
    BY <1>0, <1>8 DEF Ret, OnPath, InFn, TypeOK
  <2>2. blocks' \in Seq(Block) /\ Len(blocks') = Len(blocks)
    BY <1>0, <1>8, <2>1, LeftType DEF Ret
  <2>3. ScopeInv'
    BY <1>0, <1>8, SameScopes DEF Ret, checker
  <2> QED BY <1>0, <1>8, <2>2, <2>3 DEF Ret, checker, path, TypeOK, Given
<1>9. CASE Throw
  <2>1. blocks' \in Seq(Block) /\ Len(blocks') = Len(blocks)
    BY <1>0, <1>9, LeftType DEF Throw
  <2>2. ScopeInv'
    BY <1>0, <1>9, SameScopes DEF Throw, checker
  <2> QED BY <1>0, <1>9, <2>1, <2>2 DEF Throw, checker, path, TypeOK, Given
<1>10. CASE EndFn
  <2>1. Len(blocks) = 1 /\ blocks' = <<>> /\ Len(blocks') = 0 /\ blocks' \in Seq(Block)
    BY <1>10 DEF EndFn
  <2>2. ScopeInv' /\ Len(scopes') = Len(blocks') + 1 /\ scopes' \in Seq(Scope)
    <3>1. scopes' = SubSeq(scopes, 1, Len(scopes) - 1) /\ UNCHANGED <<fresh, gives>>
      BY <1>10 DEF EndFn
    <3>2. ScopeInv' /\ Len(scopes') = Len(blocks) /\ scopes' \in Seq(Scope)
      BY <1>6, <2>1, <3>1
    <3>3. Len(scopes') = Len(blocks') + 1
      BY <2>1, <3>2
    <3> QED BY <3>2, <3>3
  <2> QED BY <1>0, <1>10, <2>1, <2>2 DEF EndFn, path, TypeOK, Given
<1>11. CASE UNCHANGED checkVars
  <2>1. ScopeInv'
    BY <1>0, <1>11, SameScopes DEF checkVars, checker
  <2> QED BY <1>0, <1>11, <2>1 DEF checkVars, checker, path, TypeOK, Given
<1> QED
  BY <1>1, <1>2, <1>3, <1>4, <1>5, <1>7, <1>8, <1>9, <1>10, <1>11 DEF CheckNext
-----------------------------------------------------------------------------
(* push_scope and pop_scope match the nesting of the program (checker.c    *)
(* check_stmts), and every variable keeps its type.                        *)
THEOREM TypeCorrect == CheckSpec => []TypeOK
<1>1. IInv => TypeOK
  BY DEF IInv
<1> QED BY InitIInv, IInvNext, <1>1, PTL DEF CheckSpec

(* The dead marks of mark_var_dead are exactly the declarations that some  *)
(* `@` of the text names, for every program.                               *)
THEOREM DeadMarksExact == CheckSpec => []DeadExactly
<1>1. IInv => DeadExactly
  BY DEF IInv
<1> QED BY InitIInv, IInvNext, <1>1, PTL DEF CheckSpec

(* An access of what was given is reported at once.                        *)
LEMMA AccessSound ==
    ASSUME IInv, NoMissedUse, NEW n \in Variables, var_in_scope(n), Access(n),
           errors \cup NameErrors(n) \subseteq errors'
    PROVE  NoMissedUse'
<1>1. /\ TypeOK /\ Numbered /\ Searchable /\ DeadExactly /\ given \subseteq gives
      /\ NoMissedUse
  BY DEF IInv, Given
<1>2. /\ ScopeOf(n) \in 1..Len(scopes) /\ Declared(ScopeOf(n), n)
      /\ Meaning(n) = get_var_info(n).id
  BY <1>1, Resolve
<1>3. Meaning(n) \in given => get_var_info(n).dead
  BY <1>1, <1>2 DEF DeadExactly, Declared, get_var_info
<1>4. Meaning(n) \in given => "E010" \in errors'
  BY <1>3 DEF NameErrors
<1> QED BY <1>1, <1>4 DEF Access, NoMissedUse

(* No execution accesses, after the `@` in the text, what it has given     *)
(* away, unless the compiler has reported E010 (check_var_access).         *)
THEOREM NoUseMissed == CheckSpec => []NoMissedUse
<1> DEFINE Inv == IInv /\ NoMissedUse
<1>1. CheckInit => Inv
  BY InitIInv DEF CheckInit, NoMissedUse
<1>2. Inv /\ [CheckNext]_checkVars => Inv'
  <2> SUFFICES ASSUME Inv, [CheckNext]_checkVars PROVE NoMissedUse'
    BY IInvNext
  <2>1. ASSUME NEW n \in Variables, Use(n) PROVE NoMissedUse'
    BY <2>1, AccessSound DEF Use, NoMissedUse
  <2>2. ASSUME NEW n \in Variables, Give(n) PROVE NoMissedUse'
    <3>1. errors \cup NameErrors(n) \subseteq errors'
      BY <2>2 DEF Give
    <3>2. CASE var_in_scope(n)
      BY <2>2, <3>1, <3>2, AccessSound DEF Give
    <3>3. CASE ~var_in_scope(n)
      BY <2>2, <3>1, <3>3 DEF Give, NoMissedUse
    <3> QED BY <3>2, <3>3
  <2>3. ASSUME NEW n \in Variables, NEW owned \in BOOLEAN, Declare(n, owned) PROVE NoMissedUse'
    BY <2>3 DEF Declare, path, NoMissedUse
  <2>4. ASSUME NEW k \in Kinds, Open(k) PROVE NoMissedUse'
    BY <2>4 DEF Open, path, NoMissedUse
  <2>5. BeginFn \/ Close \/ Ret \/ Throw \/ EndFn => NoMissedUse'
    BY DEF BeginFn, Close, Ret, Throw, EndFn, checker, path, NoMissedUse
  <2>6. UNCHANGED checkVars => NoMissedUse'
    BY DEF checkVars, checker, path, NoMissedUse
  <2> QED BY <2>1, <2>2, <2>3, <2>4, <2>5, <2>6 DEF CheckNext
<1>3. Inv => NoMissedUse
  OBVIOUS
<1> QED BY <1>1, <1>2, <1>3, PTL DEF CheckSpec
=============================================================================

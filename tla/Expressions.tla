----------------------------- MODULE Expressions -----------------------------
(***************************************************************************)
(* An expression from the tokens of the source to the tokens of C:         *)
(* parse_expr of parser.c makes a tree of it, check_expr of checker.c puts *)
(* types on the tree, and emit_expr of emitter.c writes it down again with *)
(* no parentheses but those of operators.  The cast `(T)` is one token.    *)
(***************************************************************************)
EXTENDS Marshalling, FiniteSets

CONSTANTS NameType,    \* what get_var_type answers: a type, or <<>> for none
          Channels     \* the names that are containers among the parameters
                       \* of an async function

ContainerMethods == {"push", "pop", "peek", "size"}
Cast == "(T)"
Operand == DOMAIN NameType
Node(op, subs) == [op |-> op, subs |-> subs, of |-> ""]
Call(op, f, subs) == [op |-> op, subs |-> subs, of |-> f]
Leaf(x) == Call("name", x, <<>>)
-----------------------------------------------------------------------------
(* precedence                                                              *)
Assignments == {"=", "+="}
Precedence(op) == CASE op \in Assignments -> 1 [] op = "&&" -> 3 [] op = "<>" -> 4 [] op = "<" -> 5
                    [] op = "+" -> 7 [] op = "-" -> 7 [] op = "*" -> 8 [] op = "&" -> 9 [] OTHER -> 0
UnaryOps == {"!", "-", "->", "&", "@"}

(* The parser: each operator takes the tokens and a position and returns a *)
(* tree and the position after it; texts are well-formed.                  *)
Token(s, i) == IF i <= Len(s) THEN s[i] ELSE "eof"
Parsed(tree, pos) == [tree |-> tree, pos |-> pos]

RECURSIVE Binary(_, _, _), Arguments(_, _)
Expr(s, i) == Binary(s, i, 1)

(* parse_primary: what follows a cast is cast as a whole; an argument of a *)
(* call that is an `&` is passed by reference.                             *)
ByReference(args) == [j \in DOMAIN args |-> IF args[j].op = "&" /\ Len(args[j].subs) = 1
                                            THEN [args[j] EXCEPT !.op = "&ref"] ELSE args[j]]
Primary(s, i) ==
    CASE s[i] = Cast -> LET e == Expr(s, i + 1) IN Parsed(Node(Cast, <<e.tree>>), e.pos)
      [] s[i] = "("  -> LET e == Expr(s, i + 1) IN Parsed(e.tree, e.pos + 1)
      [] s[i] \in Operand /\ Token(s, i + 1) = "(" ->
            LET args == Arguments(s, i + 2) IN Parsed(Call("call", s[i], ByReference(args.tree)), args.pos)
      [] OTHER -> Parsed(Leaf(s[i]), i + 1)

(* The arguments of a call and of a method.                                *)
Arguments(s, i) ==
    IF s[i] = ")" THEN Parsed(<<>>, i + 1)
    ELSE LET e    == Expr(s, i)
             rest == Arguments(s, IF s[e.pos] = "," THEN e.pos + 1 ELSE e.pos)
         IN  Parsed(<<e.tree>> \o rest.tree, rest.pos)

(* parse_postfix                                                           *)
RECURSIVE Postfix(_, _, _)
Postfix(s, e, i) ==
    CASE Token(s, i) = "["  -> LET at == Expr(s, i + 1)
                               IN  Postfix(s, Node("[", <<e, at.tree>>), at.pos + 1)
      [] Token(s, i) = "++" -> Postfix(s, Node("p++", <<e>>), i + 1)
      [] Token(s, i) \in {".", ".>"} /\ Token(s, i + 2) = "(" ->
            LET args == Arguments(s, i + 3)
            IN  Postfix(s, Call("method", s[i + 1], <<e>> \o args.tree), args.pos)
      [] Token(s, i) \in {".", ".>"} /\ Token(s, i + 2) # "(" ->
            Postfix(s, Call(s[i], s[i + 1], <<e>>), i + 2)
      [] OTHER -> Parsed(e, i)

RECURSIVE Unary(_, _)
Unary(s, i) ==
    IF s[i] \in UnaryOps THEN LET e == Unary(s, i + 1) IN Parsed(Node(s[i], <<e.tree>>), e.pos)
    ELSE LET e == Primary(s, i) IN Postfix(s, e.tree, e.pos)

(* Mutant: an assignment groups to the left like the other operators.      *)
LeftLevel(op) == Precedence(op) + 1

(* parse_binary                                                            *)
RightLevel(op) == Precedence(op) + (IF op \in Assignments THEN 0 ELSE 1)
RECURSIVE Climb(_, _, _, _)
Climb(s, left, i, level) ==
    LET op == Token(s, i)
    IN  IF Precedence(op) = 0 \/ Precedence(op) < level THEN Parsed(left, i)
        ELSE LET right == Binary(s, i + 1, RightLevel(op))
             IN  Climb(s, Node(op, <<left, right.tree>>), right.pos, level)
Binary(s, i, level) == LET e == Unary(s, i) IN Climb(s, e.tree, e.pos, level)

Parse(s) == Expr(s, 1).tree
-----------------------------------------------------------------------------
IsContainer(t) == \E c \in Containers : t \in {<<c>>, <<"raw", c>>}
IsReference(e) == e.op \in {"&", "&ref"} /\ Len(e.subs) = 1
OnContainer(e, t) == IsContainer(t) /\ e.of \in ContainerMethods

(* check_expr: the type it leaves on a node; containers hold i32.  Methods *)
(* and errors are not checked, and nothing in them has a type.             *)
RECURSIVE TypeOf(_, _)
TypeOf(e, checked) ==
    CASE ~checked -> <<>>
      [] checked /\ e.op = "name" -> NameType[e.of]
      [] checked /\ e.op = Cast   -> <<"T">>
      [] checked /\ e.op = "method" ->
            LET t == TypeOf(e.subs[1], checked)
            IN  IF OnContainer(e, t) THEN <<IF e.of = "push" THEN "void" ELSE "i32">> ELSE t
      [] checked /\ IsReference(e) -> <<"raw">> \o TypeOf(e.subs[1], checked)
      [] checked /\ e.op = "[" ->
            LET t == TypeOf(e.subs[1], checked)
            IN  IF t # <<>> /\ Head(t) = "array" THEN Tail(t) ELSE <<>>
      [] OTHER -> <<>>

(* emit_expr.  Operators are parenthesised; a cast, a reference, a field,  *)
(* an index and a method are not.                                          *)
InC(op) == CASE op = "->" -> "*" [] op = "@" -> "&" [] op = "<>" -> "!=" [] op = ".>" -> "->" [] OTHER -> op
RECURSIVE Emit(_, _)
Listed(args, checked) ==
    FlattenSeq([j \in DOMAIN args |-> (IF j = 1 THEN <<>> ELSE <<",">>) \o Emit(args[j], checked)])

(* A method that containers have: with the address of the container, unless*)
(* it is a pointer or a parameter of an async function.                    *)
EmitContainerMethod(e, t, checked) ==
    LET left == e.subs[1]
        addr == IF t[1] = "raw" \/ (left.op = "name" /\ left.of \in Channels) THEN <<>> ELSE <<"&">>
    IN  (IF e.of \in {"pop", "peek"} THEN <<"*", Cast>> ELSE <<>>)
        \o <<Last(t) \o "_" \o e.of, "(">> \o addr \o Listed(e.subs, checked) \o <<")">>

(* Another one: under the name of the type, which containers and pointers  *)
(* do not have, with the address of what is on the left.                   *)
HasName(t) == Len(t) = 1 /\ t[1] # "raw" /\ ~IsContainer(t)
EmitMethod(e, checked) ==
    LET t == TypeOf(e.subs[1], checked)
    IN  IF OnContainer(e, t) THEN EmitContainerMethod(e, t, checked)
        ELSE <<IF HasName(t) THEN t[1] \o "_" \o e.of ELSE e.of, "(", "&">>
             \o Listed(e.subs, checked) \o <<")">>

Emit(e, checked) ==
    LET L == Emit(e.subs[1], checked)
        R == Emit(e.subs[2], checked)
    IN  CASE e.op = "name" -> <<e.of>>
          [] e.op = "call" -> <<IF e.of = "size" /\ Len(e.subs) = 1
                                   /\ Len(TypeOf(e.subs[1], checked)) = 1 /\ IsContainer(TypeOf(e.subs[1], checked))
                                THEN TypeOf(e.subs[1], checked)[1] \o "_" \o e.of ELSE e.of, "(">>
                              \o Listed(e.subs, checked) \o <<")">>
          [] e.op = "method" -> EmitMethod(e, checked)
          [] e.op = "&ref" -> <<"&">> \o L
          [] e.op = "p++"  -> <<"(">> \o L \o <<"++", ")">>
          [] e.op = Cast   -> <<Cast>> \o L
          [] e.op = "["    -> L \o <<"[">> \o R \o <<"]">>
          [] e.op \in {".", ".>"} -> L \o <<InC(e.op), e.of>>
          [] OTHER -> IF Len(e.subs) = 1 THEN <<"(", InC(e.op)>> \o L \o <<")">>
                      ELSE <<"(">> \o L \o <<InC(e.op)>> \o R \o <<")">>

Emitted(text, checked) == Emit(Parse(text), checked)
-----------------------------------------------------------------------------
(* How a text groups: the reference for both languages.  The last of the   *)
(* operators that bind least is the root, of assignments the first; then   *)
(* come the prefixes, a cast being one, then what follows a primary.       *)
Level(op, lang) ==
    IF lang = "tig" THEN Precedence(op)
    ELSE CASE op = "!=" -> 5 [] op = "<" -> 6 [] op = "&" -> 4 [] op = "<>" -> 0 [] OTHER -> Precedence(op)
PrefixOps(lang) == {Cast} \cup (IF lang = "tig" THEN UnaryOps ELSE {"!", "-", "*", "&"})
Fields(lang)   == IF lang = "tig" THEN {".", ".>"} ELSE {".", "->"}

Depth(s, i)   == Cardinality({j \in 1..i : s[j] \in {"(", "["}}) - Cardinality({j \in 1..i-1 : s[j] \in {")", "]"}})
Ends(token, lang) == token \in {")", "]", "++"} \/ ~(token \in {"(", "[", ",", "."} \cup PrefixOps(lang)
                                                   \cup Fields(lang) \/ Level(token, lang) > 0)
Operators(s, lang) == {i \in 2..Len(s) : /\ Level(s[i], lang) > 0 /\ Ends(s[i - 1], lang) /\ Depth(s, i) = 0}
Opening(s) == CHOOSE i \in 1..Len(s) : s[i] \in {"(", "["} /\ Depth(s, i) = 1
                                        /\ \A j \in i+1..Len(s) : ~(s[j] \in {"(", "["} /\ Depth(s, j) = 1)

RECURSIVE Grouping(_, _), GroupList(_, _)
GroupList(s, lang) ==
    LET commas == {i \in DOMAIN s : s[i] = "," /\ Depth(s, i) = 0}
    IN  IF s = <<>> THEN <<>>
        ELSE IF commas = {} THEN <<Grouping(s, lang)>>
        ELSE LET i == CHOOSE i \in commas : \A j \in commas : i <= j
             IN  <<Grouping(SubSeq(s, 1, i - 1), lang)>> \o GroupList(SubSeq(s, i + 1, Len(s)), lang)
Grouping(s, lang) ==
    LET ops   == Operators(s, lang)
        least == {i \in ops : \A j \in ops : Level(s[i], lang) <= Level(s[j], lang)}
        root  == CHOOSE i \in least : \A j \in least : IF s[i] \in Assignments THEN i <= j ELSE j <= i
        n     == Len(s)
        k     == Opening(s)
        Part(i, j) == Grouping(SubSeq(s, i, j), lang)
    IN  CASE ops # {} -> Node(s[root], <<Part(1, root - 1), Part(root + 1, n)>>)
          [] ops = {} /\ s[1] \in PrefixOps(lang) -> Node(s[1], <<Part(2, n)>>)
          [] ops = {} /\ s[1] \notin PrefixOps(lang) ->
             CASE n = 1 -> Leaf(s[1])
               [] s[n] = "++" -> Node("p++", <<Part(1, n - 1)>>)
               [] s[n] = "]"  -> Node("[", <<Part(1, k - 1), Part(k + 1, n - 1)>>)
               [] s[n] = ")" /\ k = 1 -> Part(2, n - 1)
               [] s[n] = ")" /\ k = 2 -> Call("call", s[1], GroupList(SubSeq(s, 3, n - 1), lang))
               [] s[n] = ")" /\ k > 2 -> Call("method", s[k - 1], <<Part(1, k - 3)>> \o GroupList(SubSeq(s, k + 1, n - 1), lang))
               [] OTHER -> Call(s[n - 1], s[n], <<Part(1, n - 2)>>)

(* What a grouping of the source means in C: methods are calls with the    *)
(* address of the receiver, which C takes only of a place in memory, or    *)
(* with the receiver if it is a pointer.                                   *)
Place(e) == e.op \in {"name", "[", ".", ".>", "->"}
RECURSIVE Meaning(_)
Meaning(e) ==
    LET subs == [j \in DOMAIN e.subs |-> Meaning(e.subs[j])]
        t    == IF e.op \in {"method", "call"} /\ Len(e.subs) > 0 THEN TypeOf(e.subs[1], TRUE) ELSE <<>>
        call == Call("call", Last(t) \o "_" \o e.of,
                     IF t[1] = "raw" THEN subs ELSE [subs EXCEPT ![1] = Node(IF Place(e.subs[1]) THEN "&" ELSE "place", <<@>>)])
    IN  CASE e.op = "name" -> e
          [] (e.op = "method" \/ (e.op = "call" /\ e.of = "size")) /\ OnContainer(e, t) ->
                IF e.of \in {"pop", "peek"} THEN Node("*", <<Node(Cast, <<call>>)>>) ELSE call
          [] e.op = "method" /\ ~OnContainer(e, t) /\ t \notin {<<>>, <<"raw">>} -> call
          [] OTHER -> Call(InC(e.op), e.of, subs)

RECURSIVE NodesOf(_)
NodesOf(e) == {e} \cup UNION {NodesOf(e.subs[j]) : j \in DOMAIN e.subs}

(* What C does not read as the source groups it:                           *)
(*   - a cast with an operator after it, which the parser casts with it;   *)
(*   - an index, a field, a `++` of a cast in parentheses or of a pop,     *)
(*     which C applies before the cast or the pop;                         *)
(*   - a method of a pointer to a struct, of what has no type or no place  *)
(*     in memory, or that a container does not have;                       *)
(*   - a container function written as a call, size(q);                    *)
(*   - a method of a container that is a parameter of an async function;   *)
(*   - any method in the body of a method or of an error.                  *)
CastOfMore(text) == \E i, j \in DOMAIN text :
    /\ i < j /\ text[i] = Cast /\ Precedence(text[j]) > 0 /\ Ends(text[j - 1], "tig")
    /\ \A k \in i..j : Depth(text, k) >= Depth(text, j)  /\ Depth(text, i) = Depth(text, j)
Begins(e)   == e.op = Cast \/ (e.op = "method" /\ e.of \in {"pop", "peek"})
Misread(e, checked) ==
    \/ e.op \in {"[", ".", ".>", "p++"} /\ Begins(e.subs[1])
    \/ /\ e.op = "method"
       /\ LET left == e.subs[1]
              t    == TypeOf(left, checked)
          IN  \/ ~checked
              \/ left.op = "name" /\ left.of \in Channels
              \/ ~Place(left) /\ ~(OnContainer(e, t) /\ Head(t) = "raw")
              \/ ~OnContainer(e, t) /\ ~HasName(t)
    \/ e.op = "call" /\ e.of = "size" /\ Len(e.subs) > 0 /\ OnContainer(e, TypeOf(e.subs[1], TRUE))

(* c, read by the rules of C, is what the source text means, but for these.*)
ReadsAsMeant(text, c, checked) ==
    LET source == Grouping(text, "tig")
    IN  Grouping(c, "C") = Meaning(source)
        <=> ~CastOfMore(text) /\ \A e \in NodesOf(source) : ~Misread(e, checked)
=============================================================================

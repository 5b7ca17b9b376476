------------------------------- MODULE Parser -------------------------------
(***************************************************************************)
(* The recursive descent of compiler/src/parser.c over the tokens of one   *)
(* file: the cursor p->pos, the errors that are collected without stopping *)
(* the descent, and the places that read ahead and go back.                *)
(*                                                                         *)
(* The C stack is `todo`, what the active functions still have to do, in   *)
(* order: a token text is a call expect(p, text), a name is a function or  *)
(* the rest of one.  Trees are left out but for the kind of the expression *)
(* parsed last, on which the parser branches.  The tokens are chosen when  *)
(* the cursor reaches them.                                                *)
(***************************************************************************)
EXTENDS Naturals, Sequences, SequencesExt

CONSTANTS Names,     \* identifiers
          Samples    \* what is parsed: the tokens it begins with, those it may
                     \* go on with, and how many of them

ASSUME NamesAssumption == Names \cap {"eof", "(", ")", "[", "]", "{", "}"} = {}
ASSUME SamplesAssumption ==
    \A s \in Samples : /\ s.start \in Seq(STRING) /\ s.words \subseteq STRING /\ s.more \in Nat
                       /\ "eof" \notin s.words /\ \A i \in 1..Len(s.start) : s.start[i] # "eof"

VARIABLES todo,      \* what remains to be done
          ahead,     \* tokens from the cursor on, as far as they are known
          back,      \* tokens passed since the first mark
          marks,     \* positions to go back to, with the brackets open there
          val,       \* the last expression parsed
          types,     \* p->structs and p->enums
          pins,      \* p->pinned
          reported,  \* an error has been collected
          open,      \* the closing brackets that the text calls for (history)
          outcome,
          words, left   \* the rest of the sample

cursor == <<ahead, back, marks, open, left>>
vars   == <<todo, ahead, back, marks, val, types, pins, reported, open, outcome, words, left>>
-----------------------------------------------------------------------------
(* Token texts.  "i32" stands for all plain type names, "1" for numbers,   *)
(* "'s'" for strings; "(." is a parenthesis that begins a line.          *)
TypeNames == {"i32", "queue", "stack"}                          \* is_type_name
Keywords  == TypeNames \cup
             {"if", "else", "loop", "break", "defer", "ret", "struct", "enum", "fn", "use",
              "pin", "sizeof", "async", "select", "error", "throw", "try", "catch", "raw"}
Idents      == Names \cup {"_", "cast", "alloc", "while", "match", "strun"}
Literals    == {"1", "'s'"}
PointerOps  == {"->", "=>"}
AssignOps   == {"=", "+="}                                      \* is_assignment
BinOps      == AssignOps \cup {"<", ">", "+", "-", "&"}           \* precedence > 0
UnaryOps    == {"@", "-", "++", "->", "&"}
Text(k)     == IF k = "(." THEN "(" ELSE k

(* parse_stmt and parse_primary: the tokens with which a type may begin.   *)
StartsType(k) == k \in TypeNames \cup PointerOps \cup {"fn"} \cup types

Name(k) == [kind |-> "name", name |-> k]
Val(kd) == [kind |-> kd, name |-> ""]
-----------------------------------------------------------------------------
(* A rule: for a token that may be at the cursor, whether it is stepped    *)
(* over or only looked at, and what is then to be done; and what is to be  *)
(* done at any other token.                                                *)
Eat(ks, then) == {[at |-> k, eaten |-> TRUE, then |-> then] : k \in ks}
See(ks, then) == {[at |-> k, eaten |-> FALSE, then |-> then] : k \in ks}
Rule(rows, other) == [rows |-> rows, other |-> other]

QueueSizeOpen == Rule(Eat({"("}, <<"Expr">>), <<>>)       \* mutant: no expect(p, ")")
QueueSize     == Rule(Eat({"("}, <<"Expr", ")">>), <<>>)

(* parse_type                                                              *)
TypeGrammar ==
    [ Type    |-> Rule(Eat(PointerOps, <<"Type", "Dims">>) \cup
                       Eat({"queue"}, <<"Elem", "Size", "Dims">>) \cup
                       Eat({"stack"}, <<"Elem", "Dims">>) \cup
                       Eat({"fn"}, <<"(", "FnTypes", ")", "Type", "Dims">>), <<"Id", "Dims">>),
      Elem    |-> Rule(Eat({"<"}, <<"Type", ">">>), <<"Type">>),
      Size    |-> QueueSize,
      FnTypes |-> Rule(See({")"}, <<>>), <<"Type", "MoreFnTypes">>),
      MoreFnTypes |-> Rule(Eat({","}, <<"FnTypes">>), <<>>),
      Dims    |-> Rule(Eat({"["}, <<"Expr", "]", "Dims">>), <<>>) ]

(* The arguments of a call.  Those of the builtins cast and alloc are types*)
(* at one place, and wherever a type name or a pointer sign begins them.   *)
TypeArg(next) == <<"Type", "?,", next>>
ExprArg(next) == <<"Expr", "Deref", "?,", next>>
TypeSigns(which) == IF which = "either" THEN TypeNames \cup PointerOps ELSE {}

(* Mutant: `...` is looked at and not stepped over.                        *)
ArgumentsStuck(which, next) ==
    Rule(Eat({")"}, <<>>) \cup See({"..."}, <<"?,", next>>) \cup See(TypeSigns(which), TypeArg(next)),
         IF which = "type" THEN TypeArg(next) ELSE ExprArg(next))

Arguments(which, next) ==
    Rule(Eat({")"}, <<>>) \cup Eat({"..."}, <<"?,", next>>) \cup See(TypeSigns(which), TypeArg(next)),
         IF which = "type" THEN TypeArg(next) ELSE ExprArg(next))

CallGrammar ==
    [ Args        |-> Arguments("expr", "Args"),
      BuiltinArgs |-> Arguments("either", "BuiltinArgs"),
      AllocArgs   |-> Arguments("type", "BuiltinArgs"),
      CastArgs    |-> Arguments("either", "CastType"),
      CastType    |-> Arguments("type", "BuiltinArgs") ]

(* parse_postfix: an index or a slice, a field, a method, an increment.    *)
PostfixGrammar ==
    [ Postfix    |-> Rule(Eat({"["}, <<"Expr", "Slice", "]", "Wrap", "Postfix">>) \cup
                          Eat({"."}, <<"?>", "Id", "Method", "Postfix">>) \cup
                          Eat({"++"}, <<"Wrap", "Postfix">>), <<>>),
      Slice      |-> Rule(Eat({":"}, <<"Expr">>), <<>>),
      Method     |-> Rule(Eat({"("}, <<"Deref", "MethodArgs", "Wrap">>), <<"Wrap">>),
      MethodArgs |-> Rule(Eat({")"}, <<>>), <<"Expr", "?,", "MethodArgs">>) ]

(* parse_unary, parse_binary, parse_initializer: which operator binds      *)
(* first is in the tree only, the loop of the outermost call takes them    *)
(* all.                                                                    *)
ExprGrammar ==
    [ Expr     |-> Rule({}, <<"Unary", "Binary">>),
      Unary    |-> Rule(Eat(UnaryOps, <<"Unary", "Wrap">>), <<"Primary", "Postfix">>),
      Binary   |-> Rule(Eat(BinOps, <<"Unary", "Binary2">>), <<>>),
      Binary2  |-> Rule(Eat(BinOps, <<"Unary", "Binary2">>), <<"Wrap">>),
      Init     |-> Rule(Eat({"{"}, <<"InitList">>), <<"Expr">>),
      InitList |-> Rule(Eat({"}"}, <<>>), <<"Expr", "?,", "InitList">>) ]
-----------------------------------------------------------------------------
(* parse_stmt up to line 648, the statements that a word announces.        *)
If == <<"(", "Expr", ")", "Block", "Else">>
StmtGrammar ==
    [ Stmt |-> Rule(Eat({"select"}, <<"{", "Cases">>) \cup Eat({"if"}, If) \cup
                    Eat({"loop"}, <<"LoopIf", "Block">>) \cup
                    Eat({"while"}, <<"(", "Expr", ")", "Block">>) \cup
                    Eat({"match"}, <<"(", "Expr", ")", "{", "Arms">>) \cup
                    Eat({"defer"}, <<"Defer">>) \cup Eat({"ret"}, <<"RetExpr">>) \cup
                    Eat({"break"}, <<>>) \cup Eat({"pin"}, <<"PinName">>) \cup
                    Eat({"throw"}, <<"Expr">>) \cup
                    Eat({"try"}, <<"Block", "catch", "{", "Catches">>) \cup
                    Eat({"{"}, <<"Stmts">>) \cup Eat({"C"}, <<>>), <<"DeclOrExpr">>),
      Block    |-> Rule({}, <<"{", "Stmts">>),
      Stmts    |-> Rule(Eat({"}"}, <<>>), <<"Stmt", "Stmts">>),
      Cases    |-> Rule(Eat({"}"}, <<>>), <<"Expr", "=>", "CaseBody", "?,", "Cases">>),
      CaseBody |-> Rule(Eat({"{"}, <<"Stmts">>), <<"Stmt">>),
      Else     |-> Rule(Eat({"else"}, <<"ElseIf">>), <<>>),
      ElseIf   |-> Rule(Eat({"if"}, If), <<"Block">>),
      LoopIf   |-> Rule(Eat({"if"}, <<"(", "Expr", ")">>), <<>>),
      Arms     |-> Rule(Eat({"}"}, <<>>) \cup Eat({"_"}, <<"=", "Block", "Arms">>),
                        <<"Unary", "=", "Block", "Arms">>),
      Defer    |-> Rule(Eat({"{"}, <<"Stmts">>), <<"Stmt">>),
      RetExpr  |-> Rule(See({"}"}, <<>>), <<"Expr">>),
      Catches  |-> Rule(Eat({"}"}, <<>>),
                        <<"CatchName", "CatchRet", "CatchBody", "?,", "Catches">>),
      CatchName |-> Rule(Eat({"_"}, <<>>), <<"Id", "CatchArgs">>),
      CatchArgs |-> Rule(Eat({"("}, <<"CatchVals", ")">>), <<>>),
      CatchVals |-> Rule(See({")"}, <<>>), <<"Expr", "MoreVals">>),
      MoreVals  |-> Rule(Eat({","}, <<"Expr", "MoreVals">>), <<>>),
      CatchRet  |-> Rule(Eat({"ret"}, <<"Expr">>), <<>>),
      CatchBody |-> Rule(Eat({"{"}, <<"Stmts">>), <<>>) ]

(* parse_stmt from line 660 on, once it is known that a declaration or an  *)
(* expression follows.                                                     *)
DeclGrammar ==
    [ VarInit  |-> Rule(Eat({"="}, <<"Init">>), <<>>),
      MoreVars |-> Rule(Eat({","}, <<"NextVar">>), <<"?;">>),
      NextVar  |-> Rule(See(Idents, <<"Id", "VarInit", "MoreVars">>), <<"?;">>),
      ExprStmt |-> Rule({}, <<"Unary", "Target">>) ]
-----------------------------------------------------------------------------
(* parse_program_with_types, parse_fn, parse_struct, parse_enum and        *)
(* parse_error.                                                            *)
Params(stops, dots, more) ==
    Rule(Eat(dots, <<>>) \cup See(stops, <<>>), <<"Type", "Id", more>>)

TopGrammar ==
    [ Decls  |-> Rule(Eat({"@"}, <<"At", "Decls">>) \cup
                      Eat({"use"}, <<"Path", "Decls">>) \cup
                      Eat({"C"}, <<"Decls">>) \cup Eat({".s"}, <<"Decl", "Decls">>) \cup
                      See({"eof"}, <<>>), <<"Decl", "Decls">>),
      At     |-> Rule(Eat({"strun"}, <<"NewType", "{", "Fields">>), <<"use", "AtPath">>),
      Decl   |-> Rule(Eat({"struct", "strun"}, <<"NewType", "{", "Fields">>) \cup
                      Eat({"enum"}, <<"EnumType", "NewType", "{", "Members">>) \cup
                      Eat({"error"}, <<"Id", ":", "ErrorParams", "Block">>) \cup
                      Eat({"async"}, <<"Raw">>), <<"Raw">>),
      Raw    |-> Rule(Eat({"raw"}, <<"FnOrVar">>), <<"FnOrVar">>),
      FnOrVar |-> Rule(Eat({"fn"}, <<"Function">>), <<"Type", "OldFn">>),
      Function |-> Rule({}, <<"Type", "Id", ":", "Params", "NewBody", "Block">>),
      OldFn  |-> Rule(Eat({"fn"}, <<"Id", ":", "OldParams", "NewBody", "Block">>),
                      <<"Id", "VarInit">>),
      Params      |-> Params({"{"}, {"..."}, "MoreParams"),
      MoreParams  |-> Rule(Eat({","}, <<"Params">>), <<>>),
      OldParams   |-> Params({"{", ";", "}"}, {"..."}, "MoreOldParams"),
      MoreOldParams |-> Rule(Eat({","}, <<"OldParams">>), <<>>),
      ErrorParams |-> Params({"{"}, {}, "MoreErrorParams"),
      MoreErrorParams |-> Rule(Eat({","}, <<"ErrorParams">>), <<>>) ]

DataGrammar ==
    [ Fields  |-> Rule(Eat({"}"}, <<>>) \cup
                       Eat({"fn"}, <<"Function", "Fields">>) \cup
                       Eat({"&"}, <<"Type", "Field", "?,", "Fields">>),
                       <<"Type", "Field", "?,", "Fields">>),
      Field   |-> Rule(See({";", ","}, <<>>), <<"Id">>),
      EnumType |-> Rule(See(TypeNames, <<"Type">>), <<>>),
      Members |-> Rule(Eat({"}"}, <<>>), <<"Id", "?,", "Members">>) ]

(* match(p, text) whose answer is not used                                 *)
OptGrammar == [ opt \in {"?,", "?;", "?>"} |->
                  Rule(Eat({IF opt = "?," THEN "," ELSE IF opt = "?;" THEN ";" ELSE ">"}, <<>>), <<>>) ]

Grammars == {TypeGrammar, CallGrammar, PostfixGrammar, ExprGrammar, StmtGrammar,
             DeclGrammar, TopGrammar, DataGrammar, OptGrammar}

Terminals == {"(", ")", "]", "{", ">", ":", "=", "=>", "catch", "use"}
Calls     == {"Id", "NewType", "PinName"}
Own       == {"Wrap", "Deref", "NewBody", "Pinned", "Judge", "Primary", "Call", "Paren",
              "DeclOrExpr", "AfterType", "Cast", "Target", "Path", "AtPath"}
Symbols   == UNION {DOMAIN grammar : grammar \in Grammars} \cup Terminals \cup Calls \cup Own
-----------------------------------------------------------------------------
(* cur(p), once it is known                                                *)
Known == ahead # <<>>
Cur   == Text(Head(ahead))
Do(symbols) == todo' = symbols \o Tail(todo)
At(symbol)  == outcome = "running" /\ todo # <<>> /\ Head(todo) = symbol

(* p->pos++                                                                *)
Closing == [k \in {"(", "[", "{"} |-> IF k = "(" THEN ")" ELSE IF k = "[" THEN "]" ELSE "}"]
Brackets(k) ==
    CASE k \in DOMAIN Closing                -> <<Closing[k]>> \o open
      [] open # <<>> /\ k = Head(open)       -> Tail(open)
      [] k \in {")", "]", "}"} /\ ~(open # <<>> /\ k = Head(open)) -> <<"unmatched">> \o open
      [] OTHER                               -> open
Step == /\ ahead' = Tail(ahead)
        /\ back' = IF marks = <<>> THEN <<>> ELSE Append(back, Head(ahead))
        /\ open' = Brackets(Cur)
        /\ UNCHANGED <<marks, left, words>>
Stay == UNCHANGED <<cursor, words>>

(* The lexer's next token.                                                 *)
Lex == /\ outcome = "running" /\ todo # <<>> /\ ahead = <<>>
       /\ \E k \in (IF left = 0 THEN {} ELSE words) \cup {"eof"} :
            ahead' = <<k>> /\ left' = IF k = "eof" THEN 0 ELSE left - 1
       /\ UNCHANGED <<todo, back, marks, val, types, pins, reported, open, outcome, words>>

(* What the rules say, after match(p, text) or at(p, text).                *)
Apply(rule) ==
    \/ \E row \in rule.rows : Cur = row.at /\ Do(row.then) /\ IF row.eaten THEN Step ELSE Stay
    \/ Cur \notin {row.at : row \in rule.rows} /\ Do(rule.other) /\ Stay
Follow ==
    /\ outcome = "running" /\ todo # <<>> /\ Known
    /\ \E grammar \in Grammars : Head(todo) \in DOMAIN grammar /\ Apply(grammar[Head(todo)])
    /\ UNCHANGED <<val, types, pins, reported, outcome>>

(* expect(p, text), and lines 1119 and 960                                 *)
Expect ==
    /\ outcome = "running" /\ todo # <<>> /\ Head(todo) \in Terminals /\ Known
    /\ Do(<<>>)
    /\ IF Cur = Head(todo) THEN Step /\ UNCHANGED reported
                           ELSE Stay /\ reported' = TRUE
    /\ UNCHANGED <<val, types, pins, outcome>>

(* expect_ident, which steps over anything, the last token included; the   *)
(* name is a type in parse_struct and parse_enum, pinned in parse_stmt.    *)
StepOver(good) ==
    /\ reported' = (reported \/ ~good)
    /\ IF Cur = "eof" THEN Stay /\ outcome' = "past" ELSE Step /\ UNCHANGED outcome
    /\ Do(<<>>)
Ident ==
    /\ outcome = "running" /\ todo # <<>> /\ Head(todo) \in Calls /\ Known
    /\ StepOver(Cur \in Idents \cup TypeNames)
    /\ types' = IF Head(todo) = "NewType" THEN types \cup {Cur} ELSE types
    /\ pins'  = IF Head(todo) = "PinName" THEN pins \cup {Cur} ELSE pins
    /\ UNCHANGED val

(* The string of a `use`, and of an `@use`, whose file is followed in      *)
(* Imports and may be missing: the first and the last character of the     *)
(* token are cut off, though it may have only one.                         *)
Path == At("Path") /\ Known /\ StepOver(Cur = "'s'") /\ UNCHANGED <<val, types, pins>>
AtPath ==
    /\ At("AtPath") /\ Known /\ Do(<<>>)
    /\ \/ /\ Cur # "eof" /\ Step /\ UNCHANGED outcome
          /\ \E missing \in BOOLEAN : reported' = (reported \/ missing \/ Cur # "'s'")
       \/ Cur # "'s'" /\ Stay /\ reported' = TRUE /\ outcome' = "cut"
    /\ UNCHANGED <<val, types, pins>>

(* p->pin_count = 0                                                        *)
NewBody == /\ At("NewBody") /\ pins' = {} /\ Do(<<>>) /\ Stay
           /\ UNCHANGED <<val, types, reported, outcome>>
-----------------------------------------------------------------------------
(* Mutant: no error for what is not an expression.                         *)
PrimaryQuiet ==
    /\ At("Primary") /\ Known
    /\ \/ Cur \in Literals /\ Do(<<>>) /\ Step /\ val' = Val("literal") /\ UNCHANGED reported
       \/ Cur \in Idents \cup Keywords /\ Do(<<"Call">>) /\ Step /\ val' = Name(Cur) /\ UNCHANGED reported
       \/ Cur = "(" /\ Do(<<"Paren">>) /\ Step /\ UNCHANGED <<val, reported>>
       \/ /\ Cur \notin Literals \cup Idents \cup Keywords \cup {"("}
          /\ Do(<<>>) /\ Stay /\ val' = Val("NULL") /\ UNCHANGED reported
    /\ UNCHANGED <<types, pins, outcome>>

(* parse_primary                                                           *)
Primary ==
    /\ At("Primary") /\ Known
    /\ \/ Cur \in Literals /\ Do(<<>>) /\ Step /\ val' = Val("literal") /\ UNCHANGED reported
       \/ Cur \in Idents \cup Keywords /\ Do(<<"Call">>) /\ Step /\ val' = Name(Cur) /\ UNCHANGED reported
       \/ Cur = "(" /\ Do(<<"Paren">>) /\ Step /\ UNCHANGED <<val, reported>>
       \/ /\ Cur \notin Literals \cup Idents \cup Keywords \cup {"("}
          /\ Do(<<>>) /\ Stay /\ val' = Val("NULL") /\ reported' = TRUE
    /\ UNCHANGED <<types, pins, outcome>>

(* A parenthesis in the line of the name makes it a call.                  *)
ArgsOf(name) ==
    CASE name = "sizeof" -> <<"Type", ")", "Wrap">>
      [] name = "cast"   -> <<"CastArgs", "Wrap">>
      [] name = "alloc"  -> <<"AllocArgs", "Wrap">>
      [] OTHER           -> <<"Args", "Wrap">>
Call == /\ At("Call") /\ Known
        /\ IF Head(ahead) = "(" THEN Do(ArgsOf(val.name)) /\ Step ELSE Do(<<>>) /\ Stay
        /\ UNCHANGED <<val, types, pins, reported, outcome>>

(* A new node around the last expression.                                  *)
Wrap == At("Wrap") /\ val' = Val("other") /\ Do(<<>>) /\ Stay /\ UNCHANGED <<types, pins, reported, outcome>>

(* arg->kind, e->type and s->expr->kind                                    *)
Deref == /\ At("Deref") /\ Do(<<>>) /\ Stay
         /\ outcome' = IF val.kind = "NULL" THEN "null" ELSE outcome
         /\ UNCHANGED <<val, types, pins, reported>>
-----------------------------------------------------------------------------
(* int mark = p->pos and p->pos = mark; p->tokens from the first mark on   *)
(* are back and ahead.                                                     *)
Mark == marks' = Append(marks, [at |-> Len(back), open |-> open])
Forget == /\ marks' = Front(marks)
          /\ back' = IF Len(marks) = 1 THEN <<>> ELSE back
Return == LET m == Last(marks)
          IN  /\ ahead' = SubSeq(back, m.at + 1, Len(back)) \o ahead
              /\ back' = SubSeq(back, 1, m.at)
              /\ open' = m.open
              /\ marks' = Front(marks)
Marked == SubSeq(back, Last(marks).at + 1, Len(back)) \o ahead

(* Is it a cast?                                                           *)
Paren ==
    /\ At("Paren") /\ Known
    /\ IF StartsType(Cur)
       THEN Do(<<"Type", "Cast">>) /\ Mark /\ UNCHANGED <<ahead, back, open, left, words>>
       ELSE Do(<<"Expr", ")">>) /\ Stay
    /\ UNCHANGED <<val, types, pins, reported, outcome>>
Cast ==
    /\ At("Cast") /\ Known
    /\ IF Cur = ")"
       THEN /\ Do(<<"Expr", "Wrap">>) /\ Forget
            /\ ahead' = Tail(ahead) /\ open' = Brackets(Cur)
       ELSE Do(<<"Expr", ")">>) /\ Return
    /\ UNCHANGED <<val, types, pins, reported, outcome, left, words>>

(* Is it a declaration?                                                    *)
DeclOrExpr ==
    /\ At("DeclOrExpr") /\ Known
    /\ IF StartsType(Cur)
       THEN Do(<<"Type", "AfterType">>) /\ Mark /\ UNCHANGED <<ahead, back, open, left, words>>
       ELSE Do(<<"ExprStmt">>) /\ Stay
    /\ UNCHANGED <<val, types, pins, reported, outcome>>
AfterType ==
    /\ At("AfterType") /\ Known
    /\ IF Cur \in Idents
       THEN /\ Do(<<"Id", "VarInit", "MoreVars">>) /\ Forget
            /\ UNCHANGED <<ahead, open, reported>>
       ELSE /\ Do(<<"ExprStmt">>) /\ Return
            /\ reported' = (reported \/ Head(Marked) = "fn")
    /\ UNCHANGED <<val, types, pins, outcome, left, words>>

(* An assignment to a pinned name, a bare name, a bare literal.            *)
Target ==
    /\ At("Target") /\ Known /\ Stay
    /\ Do(<<"Binary", "?;", "Deref">> \o
          (IF Cur \in AssignOps /\ val.kind = "name" /\ val.name \in pins THEN <<"Pinned">> ELSE <<"Judge">>))
    /\ UNCHANGED <<val, types, pins, reported, outcome>>
Pinned == At("Pinned") /\ reported' = TRUE /\ Do(<<>>) /\ Stay /\ UNCHANGED <<val, types, pins, outcome>>
Judge  == /\ At("Judge") /\ Do(<<>>) /\ Stay
          /\ reported' = (reported \/ val.kind \in {"name", "literal"})
          /\ UNCHANGED <<val, types, pins, outcome>>
-----------------------------------------------------------------------------
Init == /\ todo = <<"Decls">> /\ back = <<>> /\ marks = <<>>
        /\ val = Val("other") /\ types = {} /\ pins = {} /\ reported = FALSE
        /\ open = <<>> /\ outcome = "running"
        /\ \E s \in Samples : ahead = s.start /\ words = s.words /\ left = s.more

Next == \/ Lex \/ Follow \/ Expect \/ Ident \/ Path \/ AtPath \/ NewBody
        \/ Primary \/ Call \/ Wrap \/ Deref \/ Paren \/ Cast
        \/ DeclOrExpr \/ AfterType \/ Target \/ Pinned \/ Judge

Spec     == Init /\ [][Next]_vars
FairSpec == Spec /\ WF_vars(Next)
-----------------------------------------------------------------------------
(* A NULL expression is dereferenced, or the cursor leaves the tokens, only*)
(* after an error has been collected.                                      *)
CrashExplained == (outcome # "running" \/ val.kind = "NULL") => reported

(* As long as no error is collected the text read so far nests, and what   *)
(* remains to be done asks for exactly the brackets that are open.         *)
Braced  == {"Stmts", "Cases", "Arms", "Catches", "InitList", "Fields", "Members"}
Parened == {"MethodArgs", "Paren", "Cast", ")"} \cup DOMAIN CallGrammar
Closes  == [k \in Braced \cup Parened \cup {"]"} |->
              IF k \in Braced THEN "}" ELSE IF k \in Parened THEN ")" ELSE "]"]
Ask(symbol, rest) ==
    CASE symbol \in DOMAIN Closes -> <<Closes[symbol]>> \o rest
      [] symbol \in {"(", "{"}    -> Tail(rest)
      [] OTHER                    -> rest
Asked(symbols) ==
    LET n == Len(symbols)
        asked[i \in 0..n] == IF i = 0 THEN <<>> ELSE Ask(symbols[n + 1 - i], asked[i - 1])
    IN  asked[n]
Balanced == ~reported /\ outcome = "running" => Asked(todo) = open

(* A text without errors is read to its end.                               *)
Done == todo = <<>>
Ends == <>(Done \/ reported)
=============================================================================

-------------------------------- MODULE Lexer --------------------------------
(***************************************************************************)
(* lex_source of compiler/src/lexer.c: a text becomes tokens, the macros   *)
(* it defines are entered in global_macros and those it uses are expanded, *)
(* each expansion being lexed as a text of its own, at most MaxDepth deep. *)
(*                                                                         *)
(* A text is a sequence of units: a letter or a digit is one character,    *)
(* and so are the marks; "->" stands for any symbol of several characters, *)
(* and the signs of comments and of inline C are one unit each.  Columns   *)
(* and hexadecimal and binary numbers are left out.                        *)
(***************************************************************************)
EXTENDS Naturals, Sequences, FiniteSets, SequencesExt

CONSTANTS
    Letters,      \* units that names are made of
    Digits,       \* units that begin a number
    Marks,        \* symbols of one character
    KeywordNames, \* the names is_keyword knows
    Texts,        \* the sources that are considered
    MaxDepth      \* expansions nested in one another (10)

Quote == "quote"
Comma == ","
CodeMark == "C{"                       \* the four characters "C"{
Space == {"space", "newline"}
Signs == {"#", "->", Quote, "'", "\\", "//", "/*", "*/", CodeMark}
Units == Letters \cup Digits \cup Marks \cup Space \cup Signs

ASSUME MarksAssumption == {"(", ")", ",", "{", "}", ".", "-"} \subseteq Marks
ASSUME UnitsAssumption == /\ Letters \cap Digits = {} /\ (Letters \cup Digits) \cap Marks = {}
                          /\ (Letters \cup Digits \cup Marks) \cap (Space \cup Signs) = {}
ASSUME TextsAssumption == Texts \subseteq Seq(Units)
ASSUME DepthAssumption == MaxDepth \in Nat

(* A definition; a macro without parentheses is not parametric.            *)
Macro == [name : Seq(Units), parametric : BOOLEAN, params : Seq(Seq(Units)), text : Seq(Units)]

VARIABLES
    src,        \* the source
    frames,     \* the calls of lex_source_with_depth, the source's first
    macros,     \* global_macros
    errors,     \* codes given to tc_error
    status      \* "lexing", "done", "hang", or "astray" past the text's end

lexvars == <<src, frames, macros, errors, status>>

(* at: where in the source a token comes from, an expansion's being the    *)
(* call in the source (history).                                           *)
Token(kind, text, line, at) == [kind |-> kind, text |-> text, line |-> line, at |-> at]

(* line, at: as of the call that is expanded.                              *)
Frame(text, line, at) == [text |-> text, i |-> 1, line |-> 1, toks |-> <<>>,
                          from |-> [line |-> line, at |-> at]]

LexInit == /\ src \in Texts
           /\ frames = <<Frame(src, 1, 1)>>
           /\ macros = <<>> /\ errors = {} /\ status = "lexing"

Top       == frames[Len(frames)]
SetTop(f) == [frames EXCEPT ![Len(frames)] = f]
-----------------------------------------------------------------------------
(* Scanning a text from position i, which may be past its end.             *)
First(text, i, S) == Min({j \in i..(i + Len(text)) : j > Len(text) \/ text[j] \in S})
Past(text, i, S)  == Min({j \in i..(i + Len(text)) : j > Len(text) \/ text[j] \notin S})
Is(text, i, u) == i \in 1..Len(text) /\ text[i] = u
Count(text, i, j, u) == Cardinality({k \in i..j : Is(text, k, u)})
Newlines(text, i, j) == Count(text, i, j, "newline")
Piece(text, i, end) == SubSeq(text, i, end - 1)
Positions == Nat \ {0}

TrimLeft(text) == SubSeq(text, Past(text, 1, Space), Len(text))
Trim(text)     == LET kept == {i \in 1..Len(text) : text[i] \notin Space}
                  IN  IF kept = {} THEN <<>> ELSE SubSeq(text, Min(kept), Max(kept))
OneLine(text)  == Newlines(text, 1, Len(text)) = 0

(* Past the closing quote, which no odd number of backslashes stands       *)
(* before; Len + 2 if there is none.                                       *)
Escaped(text, i, j) ==
    Cardinality({k \in i..(j - 1) : \A n \in k..(j - 1) : text[n] = "\\"}) % 2 = 1
QuoteEnd(text, i, quote) ==
    Min({j + 1 : j \in {k \in i..Len(text) : text[k] = quote /\ ~Escaped(text, i, k)}}
        \cup {Len(text) + 2})

(* The units of inline C from i on, less what is in its strings, characters*)
(* and comments.                                                           *)
Code(text, i) ==
    LET from[j \in Nat] ==
          IF j > Len(text) THEN {}
          ELSE {j} \cup from[CASE text[j] \in {Quote, "'"} -> QuoteEnd(text, j + 1, text[j])
                               [] text[j] = "//"           -> First(text, j, {"newline"})
                               [] text[j] = "/*"           -> First(text, j, {"*/"}) + 1
                               [] OTHER                    -> j + 1]
    IN  from[i]

(* Past the brace that closes inline C; Len + 2 if there is none.          *)
CodeCloses(text, i) ==
    LET In(S, j) == Cardinality({k \in Code(text, i) : k <= j /\ text[k] \in S})
    IN  {j \in i..Len(text) : In({"}"}, j) > In({"{", CodeMark}, j)}
CodeEnd(text, i) == Min({j + 1 : j \in CodeCloses(text, i)} \cup {Len(text) + 2})
-----------------------------------------------------------------------------
(* A definition: `# name(parameters) { replacement }`.                     *)

(* Past the brace that closes the body: the first at which the braces      *)
(* since the `#` are even.                                                 *)
Opens(text, i, j) == Count(text, i, j, "{") + Count(text, i, j, CodeMark)
BodyCloses(text, i) ==
    {j \in i..Len(text) : /\ text[j] = "}" /\ Opens(text, i, j) > 0
                          /\ Opens(text, i, j) = Count(text, i, j, "}")}
MacroEnd(text, i) == Min({j + 1 : j \in BodyCloses(text, i)} \cup {Len(text) + 1})
Unterminated(text, i) == /\ BodyCloses(text, i) = {}
                         /\ Opens(text, i, Len(text)) > Count(text, i, Len(text), "}")

(* The names from i to the closing parenthesis; two commas have one of no  *)
(* characters between them.                                                *)
ParameterEnd(text, j)  == First(text, j, Space \cup {Comma, ")"})
NextParameter(text, j) ==
    LET n == Past(text, ParameterEnd(text, j), Space)
    IN  Past(text, IF Is(text, n, Comma) THEN n + 1 ELSE n, Space)
Parameters(text, i) ==
    LET from[j \in Positions] ==
          IF j > Len(text) \/ Is(text, j, ")") THEN <<>>
          ELSE <<Piece(text, j, ParameterEnd(text, j))>> \o from[NextParameter(text, j)]
    IN  from[Past(text, i, Space)]

NameStart(text, i) == Past(text, i + 1, Space)
NameEnd(text, i)   == First(text, NameStart(text, i), Space \cup {"(", "{"})
HeadEnd(text, i)   == IF Is(text, NameEnd(text, i), "(")
                      THEN Past(text, First(text, NameEnd(text, i), {")"}) + 1, Space)
                      ELSE Past(text, NameEnd(text, i), Space)
HasBody(text, i)   == Is(text, HeadEnd(text, i), "{")

(* Of a body that is not closed the last character is lost.                *)
Defined(text, i) ==
    LET end  == NameEnd(text, i)
        para == Is(text, end, "(")
    IN  [name       |-> Piece(text, NameStart(text, i), end),
         parametric |-> para,
         params     |-> IF para THEN Parameters(text, end + 1)
                        ELSE <<>>,
         text       |-> Piece(text, First(text, end, {"{"}) + 1, MacroEnd(text, i) - 1)]

(* find_macro: the last definition of a name.                              *)
Find(table, name) == {m \in 1..Len(table) : table[m].name = name /\
                        \A n \in (m + 1)..Len(table) : table[n].name # name}
-----------------------------------------------------------------------------
(* A use of a macro.                                                       *)

(* Past the parenthesis that closes a call whose arguments begin at i.     *)
CallCloses(text, i) == {j \in i..Len(text) : /\ text[j] = ")"
                                             /\ Count(text, i, j, ")") = Count(text, i, j, "(") + 1}
CallEnd(text, i) == Min({j + 1 : j \in CallCloses(text, i)} \cup {Len(text) + 1})

(* The pieces between commas, at most n; the white space after a comma is *)
(* left out, and so is a last piece of nothing.                            *)
ArgumentsUsed(args, n) ==
    LET from[j \in Positions] ==
          IF j > Len(args) THEN <<>>
          ELSE LET e == First(args, j, {Comma})
               IN  <<Piece(args, j, e)>> \o from[Past(args, e + 1, Space)]
    IN  SubSeq(from[1], 1, Min({n, Len(from[1])}))

Here(text, i, name) == /\ i + Len(name) <= Len(text) + 1
                       /\ SubSeq(text, i, i + Len(name) - 1) = name
Joins(text, i) == i \in 1..Len(text) /\ text[i] \in Letters \cup Digits
Whole(text, i, name) == Here(text, i, name) /\ ~Joins(text, i - 1) /\ ~Joins(text, i + Len(name))

(* Mutant: a parameter is replaced inside longer names too.                *)
ReplaceInside(text, param, arg) ==
    LET from[t \in Seq(Units)] ==
          IF t = <<>> THEN <<>>
          ELSE IF Here(t, 1, param) THEN arg \o from[SubSeq(t, Len(param) + 1, Len(t))]
          ELSE <<Head(t)>> \o from[Tail(t)]
    IN  from[text]

(* replace_parameter.                                                      *)
Replace(text, param, arg) ==
    LET from[i \in Positions] ==
          IF i > Len(text) THEN <<>>
          ELSE IF Whole(text, i, param) THEN arg \o from[i + Len(param)]
          ELSE <<text[i]>> \o from[i + 1]
    IN  from[1]

(* The parameters are replaced one after the other, in the text that the   *)
(* earlier ones have left.                                                 *)
Substitute(text, params, args, n) ==
    LET upto[k \in 0..n] == IF k = 0 THEN text ELSE Replace(upto[k - 1], params[k], args[k])
    IN  upto[n]

(* The buffer is sized for every occurrence of the parameter, also those   *)
(* inside longer names, which keep their length: it is too short then if   *)
(* the argument is shorter.                                                *)
Overruns(m, given) ==
    \E k \in 1..Len(given) : \E text \in {Substitute(m.text, m.params, given, k - 1)} :
       /\ Len(given[k]) < Len(m.params[k])
       /\ \E i \in 1..Len(text) : Here(text, i, m.params[k]) /\ ~Whole(text, i, m.params[k])

(* Mutant: the loop does not move past a comma.                            *)
LoopsAtComma(m, args, given) ==
    \E j \in 1..Len(args) : args[j] \in {"(", ")", ","} /\ Count(args, 1, j, ",") < Len(m.params)

(* The loop over the arguments does not move past a parenthesis, and the   *)
(* one that counts occurrences not past an empty name.                     *)
Loops(m, args, given) ==
    \/ \E j \in 1..Len(args) : args[j] \in {"(", ")"} /\ Count(args, 1, j, ",") < Len(m.params)
    \/ \E k \in 1..Len(given) : m.params[k] = <<>>

(* expand_parametric_macro, with the arguments that are used.  A text of   *)
(* several lines, or of blanks, is not trimmed.                            *)
Trimmed[new \in Seq(Units)] == IF OneLine(new) /\ Trim(new) # <<>> THEN Trim(new) ELSE new
Expanded(m, given) ==
    IF m.params = <<>> THEN m.text
    ELSE Trimmed[Substitute(m.text, m.params, given, Len(given))]

(* An expansion that is a token as it stands: one that begins like a       *)
(* number, whatever follows, one between quotes, or a keyword.             *)
IsNumber(text) == \/ text[1] \in Digits
                  \/ text[1] = "-" /\ Len(text) > 1 /\ text[2] \in Digits
IsString(text) == text[1] \in {Quote, CodeMark} /\ text[Len(text)] = Quote
Verbatim(text) == /\ text # <<>> /\ OneLine(text)
                  /\ IsNumber(text) \/ IsString(text) \/ text \in KeywordNames
-----------------------------------------------------------------------------
(* The loop of lex_source_with_depth: one action for each of its branches. *)

Lexing == status = "lexing" /\ Top.i <= Len(Top.text)
AtUnit(S) == Lexing /\ Top.text[Top.i] \in S
Where  == IF Len(frames) = 1 THEN Top.i ELSE 1

Moved(end, toks) == [Top EXCEPT !.i = end, !.line = @ + Newlines(Top.text, Top.i, end - 1),
                                !.toks = @ \o toks]
Advance(end, toks) == frames' = SetTop(Moved(end, toks))
Found(kind, text)  == <<Token(kind, text, Top.line, Where)>>
Report(codes)      == errors' = errors \cup codes

(* A body of which nothing but the brace is there has the length -1.       *)
Define ==
    /\ AtUnit({"#"}) /\ HasBody(Top.text, Top.i)
    /\ Report(IF Unterminated(Top.text, Top.i) THEN {"E012"} ELSE {})
    /\ \E end \in {MacroEnd(Top.text, Top.i)} :
           /\ status' = IF end - 1 <= First(Top.text, Top.i, {"{"}) THEN "astray" ELSE status
           /\ macros' = Append(macros, Defined(Top.text, Top.i))
           /\ Advance(end, <<>>)
    /\ UNCHANGED src

Hash ==
    /\ AtUnit({"#"}) /\ ~HasBody(Top.text, Top.i)
    /\ Report(IF Unterminated(Top.text, Top.i) THEN {"E012"} ELSE {})
    /\ Advance(Top.i + 1, Found("symbol", <<"#">>))
    /\ UNCHANGED <<src, macros, status>>

Blank == AtUnit(Space) /\ Advance(Top.i + 1, <<>>) /\ UNCHANGED <<src, macros, errors, status>>

LineComment ==
    /\ AtUnit({"//"})
    /\ Advance(First(Top.text, Top.i, {"newline"}), <<>>)
    /\ UNCHANGED <<src, macros, errors, status>>

(* One that is not closed is stepped over together with the text's end.    *)
BlockComment ==
    /\ AtUnit({"/*"})
    /\ \E end \in {First(Top.text, Top.i, {"*/"})} :
           /\ Advance(end + 1, <<>>)
           /\ Report(IF end > Len(Top.text) THEN {"E012"} ELSE {})
           /\ status' = IF end > Len(Top.text) THEN "astray" ELSE status
    /\ UNCHANGED <<src, macros>>

(* `.name` after white space or at the start of the text.                  *)
AtSection == /\ Top.text[Top.i] = "." /\ Top.i < Len(Top.text)
             /\ Top.text[Top.i + 1] \in Letters
             /\ \A j \in {Top.i - 1} \ {0} : Top.text[j] \in Space

Section ==
    /\ AtUnit({"."}) /\ AtSection
    /\ LET end == Past(Top.text, Top.i + 1, Letters \cup Digits)
       IN  Advance(end, Found("section", Piece(Top.text, Top.i, end)))
    /\ UNCHANGED <<src, macros, errors, status>>

Symbol ==
    /\ AtUnit(Marks \cup {"->", "*/"}) /\ ~AtSection
    /\ Advance(Top.i + 1, Found("symbol", <<Top.text[Top.i]>>))
    /\ UNCHANGED <<src, macros, errors, status>>

(* The code is taken as it stands; if it is not closed, but its last       *)
(* character, and if there is none the length is -1.                       *)
InlineC ==
    /\ AtUnit({CodeMark})
    /\ \E close \in {CodeEnd(Top.text, Top.i + 1)} :
       LET end   == Min({close, Len(Top.text) + 1})
           open  == close > Len(Top.text) + 1
       IN  /\ Advance(end, Found("inline c", Piece(Top.text, Top.i + 1, end - 1)))
           /\ Report(IF open THEN {"E012"} ELSE {})
           /\ status' = IF open /\ Top.i = Len(Top.text) THEN "astray" ELSE status
    /\ UNCHANGED <<src, macros>>

(* Lines are not counted in a string, but one that has any is an error.    *)
StringLiteral ==
    /\ AtUnit({Quote})
    /\ \E close \in {QuoteEnd(Top.text, Top.i + 1, Quote)} :
       LET open  == close > Len(Top.text) + 1
           text  == Piece(Top.text, Top.i, Min({close, Len(Top.text) + 1}))
       IN  /\ frames' = SetTop([Top EXCEPT !.i = close, !.toks = @ \o Found("string", text)])
           /\ Report(IF open \/ ~OneLine(text) THEN {"E012"} ELSE {})
           /\ status' = IF open THEN "astray" ELSE status
    /\ UNCHANGED <<src, macros>>

Number ==
    /\ AtUnit(Digits)
    /\ LET end == Past(Top.text, Top.i, Letters \cup Digits \cup {"."})
       IN  Advance(end, Found("number", Piece(Top.text, Top.i, end)))
    /\ UNCHANGED <<src, macros, errors, status>>

NameHere == Piece(Top.text, Top.i, Past(Top.text, Top.i, Letters \cup Digits))

LexName ==
    /\ AtUnit(Letters)
    /\ \E name \in {NameHere} :
         /\ Find(macros, name) = {}
         /\ Advance(Top.i + Len(name),
                    Found(IF name \in KeywordNames THEN "keyword" ELSE "ident", name))
    /\ UNCHANGED <<src, macros, errors, status>>

(* The expansion is nothing, being empty or too deep, or a token, or it   *)
(* is lexed in its turn.                                                   *)
Become(text, end) ==
    \/ /\ text = <<>> \/ (~Verbatim(text) /\ Len(frames) > MaxDepth)
       /\ Advance(end, <<>>)
    \/ Verbatim(text) /\ Advance(end, Found("verbatim", text))
    \/ /\ text # <<>> /\ ~Verbatim(text) /\ Len(frames) <= MaxDepth
       /\ frames' = Append(SetTop(Moved(end, <<>>)), Frame(text, Top.line, Where))

ExpandName(m, end) ==
    /\ ~m.parametric \/ ~Is(Top.text, end, "(")
    /\ \E text \in {Trim(m.text)} : Become(text, end)
    /\ UNCHANGED <<src, macros, errors, status>>

(* A call that is not closed loses the last character of its arguments,    *)
(* and if it has none their length is -1.                                  *)
ExpandCall(m, end) ==
    /\ m.parametric /\ Is(Top.text, end, "(")
    /\ \E after \in {CallEnd(Top.text, end + 1)}, open \in {CallCloses(Top.text, end + 1) = {}} :
       \E args \in {Piece(Top.text, end + 1, after - 1)} :
       \E given \in {ArgumentsUsed(args, Len(m.params))} :
         /\ Report(IF open THEN {"E012"} ELSE {})
         /\ \/ open /\ after = end + 1 /\ status' = "astray" /\ UNCHANGED frames
            \/ Loops(m, args, given) /\ status' = "hang" /\ UNCHANGED frames
            \/ /\ ~Loops(m, args, given) /\ Overruns(m, given)
               /\ status' = "astray" /\ UNCHANGED frames
            \/ /\ ~(open /\ after = end + 1) /\ ~Loops(m, args, given)
               /\ \E text \in {Expanded(m, given)} : Become(text, after)
               /\ UNCHANGED status
    /\ UNCHANGED <<src, macros>>

Expand == /\ AtUnit(Letters)
          /\ \E m \in Find(macros, NameHere) : \E end \in {Top.i + Len(NameHere)} :
                ExpandName(macros[m], end) \/ ExpandCall(macros[m], end)

(* Mutant: the tokens of an expansion keep the lines of its text.          *)
ReturnUnlabelled ==
    /\ status = "lexing" /\ Top.i > Len(Top.text) /\ Len(frames) > 1
    /\ frames' = [Front(frames) EXCEPT ![Len(frames) - 1].toks =
                    @ \o [k \in 1..Len(Top.toks) |-> [Top.toks[k] EXCEPT !.at = Top.from.at]]]
    /\ UNCHANGED <<src, macros, errors, status>>

(* The end of an expansion: its tokens are those of the call.              *)
EndExpansion ==
    /\ status = "lexing" /\ Top.i > Len(Top.text) /\ Len(frames) > 1
    /\ frames' = [Front(frames) EXCEPT ![Len(frames) - 1].toks =
                    @ \o [k \in 1..Len(Top.toks) |->
                            [Top.toks[k] EXCEPT !.line = Top.from.line, !.at = Top.from.at]]]
    /\ UNCHANGED <<src, macros, errors, status>>

Finish ==
    /\ status = "lexing" /\ Top.i > Len(Top.text) /\ Len(frames) = 1
    /\ frames' = SetTop([Top EXCEPT !.toks = @ \o Found("eof", <<>>)])
    /\ status' = "done"
    /\ UNCHANGED <<src, macros, errors>>

(* A character of no branch is reported, and again, for ever.              *)
Unexpected ==
    /\ AtUnit({"'", "\\"})
    /\ Report({"E013"})
    /\ UNCHANGED <<src, frames, macros, status>>

LexNext == \/ Define \/ Hash \/ Blank \/ LineComment \/ BlockComment
           \/ Section \/ Symbol \/ InlineC \/ StringLiteral \/ Number \/ LexName
           \/ Expand \/ EndExpansion \/ Finish \/ Unexpected

LexSpec == LexInit /\ [][LexNext]_lexvars /\ WF_lexvars(LexNext)
-----------------------------------------------------------------------------
(* What a text says, after the reference's "pure text substitution": every *)
(* parameter is replaced by its argument, all at once; a macro is known    *)
(* from its definition on; MaxDepth expansions may nest.  White space does *)
(* not count, and a verbatim token is the text it was made of.             *)
Plain(text) == \A i \in 1..Len(text) : text[i] \notin {Quote, "'", "\\", "//", "/*", "*/", ".", CodeMark}

(* The word at i; a mark is one of its own.                                *)
WordEnd(text, i) == IF Joins(text, i) THEN Past(text, i, Letters \cup Digits) ELSE i + 1
Word(text, i) == Piece(text, i, WordEnd(text, i))
Substituted(text, params, args) ==
    LET from[i \in Positions] ==
          IF i > Len(text) THEN <<>>
          ELSE LET mine == {k \in 1..Len(args) : params[k] = Word(text, i)}
               IN  (IF mine = {} THEN Word(text, i) ELSE args[Min(mine)]) \o from[WordEnd(text, i)]
    IN  from[1]

Words(text) == FlattenSeq([i \in 1..Len(text) |-> IF text[i] \in Space THEN <<>> ELSE <<text[i]>>])

Given(m, text, end) ==
    ArgumentsUsed(Piece(text, end + 1, CallEnd(text, end + 1) - 1), Len(m.params))
Body(m, text, end) ==
    IF ~m.parametric \/ ~Is(text, end, "(") THEN Trim(m.text)
    ELSE IF m.params = <<>> THEN m.text
    ELSE Trimmed[Substituted(m.text, m.params, Given(m, text, end))]
After(m, text, end) == IF m.parametric /\ Is(text, end, "(") THEN CallEnd(text, end + 1) ELSE end

(* A call whose parameters can be replaced one after the other: they are   *)
(* words, and no argument holds a later one, which would be replaced in it.*)
Apart(m, text, end) ==
    m.parametric /\ Is(text, end, "(") /\ m.params # <<>> =>
       LET given == Given(m, text, end)
       IN  \A k \in 1..Len(given) :
              /\ ToSet(m.params[k]) \subseteq Letters \cup Digits
              /\ \A n \in (k + 1)..Len(given), i \in 1..Len(given[k]) : ~Whole(given[k], i, m.params[n])

(* Where a text is read on, with the macros known there and the number of  *)
(* expansions that may nest; the macro that is used there, if any.         *)
Places == [text : Seq(Units), i : Positions, table : Seq(Macro), depth : Nat]
Place(text, i, table, depth) == [text |-> text, i |-> i, table |-> table, depth |-> depth]

DefinitionsAt(p) == {k \in 1..Len(p.table) : p.text[p.i] \in Letters /\ p.table[k].name = Word(p.text, p.i)}
MacroAt(p) == p.table[Max(DefinitionsAt(p))]
BodyAt(p)  == Body(MacroAt(p), p.text, WordEnd(p.text, p.i))
Behind(p)  == IF DefinitionsAt(p) = {} THEN WordEnd(p.text, p.i)
              ELSE After(MacroAt(p), p.text, WordEnd(p.text, p.i))
ApartAt(p) == DefinitionsAt(p) = {} \/ Apart(MacroAt(p), p.text, WordEnd(p.text, p.i))

Alone(p, says) == [says |-> says, table |-> p.table, apart |-> TRUE]

(* What is said from there on, the macros known in the end, and whether    *)
(* all calls that were met on the way are as above.                        *)
Meaning[p \in Places] ==
    LET inner == IF DefinitionsAt(p) = {} THEN Alone(p, Words(Word(p.text, p.i)))
                 ELSE IF Verbatim(BodyAt(p)) THEN Alone(p, Words(BodyAt(p)))
                 ELSE IF p.depth = 0 THEN Alone(p, <<>>)
                 ELSE Meaning[Place(BodyAt(p), 1, p.table, p.depth - 1)]
        rest  == Meaning[Place(p.text, Behind(p), inner.table, p.depth)]
    IN  IF p.i > Len(p.text) THEN Alone(p, <<>>)
        ELSE IF p.text[p.i] = "#" /\ HasBody(p.text, p.i)
        THEN Meaning[Place(p.text, MacroEnd(p.text, p.i),
                           Append(p.table, Defined(p.text, p.i)), p.depth)]
        ELSE [says |-> inner.says \o rest.says, table |-> rest.table,
              apart |-> ApartAt(p) /\ inner.apart /\ rest.apart]

Result == frames[1].toks
Said   == FlattenSeq([k \in 1..Len(Result) |-> Words(Result[k].text)])

(* Manual (1.2.x-full.md, "Macro Rules"): the tokens of a text are those   *)
(* of its substitution, whatever is nested, redefined or left out in it.   *)
SubstitutionExact ==
    status = "done" /\ errors = {} /\ Plain(src) =>
       \E meaning \in {Meaning[Place(src, 1, <<>>, MaxDepth)]} : meaning.apart => Said = meaning.says

(* Every token, those of expansions included, bears the line of its text   *)
(* in the source, unless an unterminated literal has been reported.        *)
LineExact ==
    status = "done" /\ "E012" \notin errors =>
       \A k \in 1..Len(Result) : Result[k].line = 1 + Newlines(src, 1, Result[k].at - 1)

(* The call at hand, of a macro that takes arguments: the lexer cannot read *)
(* the arguments it uses if a parenthesis is in them or if a parameter has *)
(* no name, and may write past a buffer to put them in.                    *)
AtCall(Bad(_, _)) ==
    /\ Top.i <= Len(Top.text) /\ Top.text[Top.i] \in Letters
    /\ \E m \in Find(macros, NameHere), end \in {Top.i + Len(NameHere)} :
          /\ macros[m].parametric /\ Is(Top.text, end, "(")
          /\ Bad(macros[m], Given(macros[m], Top.text, end))
Parenthesised(m, given) == \E k \in 1..Len(given) : \E u \in {"(", ")"} : u \in ToSet(given[k])
Nameless(m, given)      == \E k \in 1..Len(given) : m.params[k] = <<>>
Overflows(m, given)     == ~Nameless(m, given) /\ Overruns(m, given)

(* A text is lexed to its end, however its macros call one another and     *)
(* whatever is wrong in it, but for a character that is not expected, which*)
(* is reported for ever; for a call as above, which must be the one the    *)
(* lexer stands at (the manual's `twice(add(a, b))`, 1.2.x-full.md:919, is *)
(* one); and for what is left open, past whose end it may read.            *)
LexEnds ==
    <>(\/ status = "done"
       \/ "E013" \in errors
       \/ status = "hang"   /\ (AtCall(Parenthesised) \/ AtCall(Nameless))
       \/ status = "astray" /\ ("E012" \in errors \/ AtCall(Overflows)))
=============================================================================

------------------------------ MODULE Imports ------------------------------
(***************************************************************************)
(* How tigc turns files into one program: main of compiler/src/main.c with *)
(* the import part of parser.c and the macro table of lexer.c.             *)
(*                                                                         *)
(* Each input is lexed, then read twice.  collect_imported_types reads it  *)
(* and, recursively, the files it names with `@use`, and registers their   *)
(* types (phase "collect"); parse_program_with_types reads them again with *)
(* those types known and splices the declarations of a used file in place  *)
(* ("parse").  The inputs are then linked.  A used file is lexed anew each *)
(* time it is read, and macros are kept in one table for the whole run.    *)
(*                                                                         *)
(* A file is a sequence of items; words stand for the names in it.  How    *)
(* the parser goes on after a syntax error is not modelled: errors only    *)
(* matters at the end, where any error stops the compiler.                 *)
(***************************************************************************)
EXTENDS Naturals, FiniteSets, SequencesExt

CONSTANTS
    Words,         \* names of types, functions and macros; "main" is one
    Dirs, Names,   \* a file is a name in a directory; "" is the working one
    Disks,         \* the contents of the disk that are considered
    CommandLines,  \* the lists of input files that are considered
    MaxExpand,     \* macro expansions nested before the lexer gives up (10)
    MaxStack,      \* nested `@use` the C stack has room for
    Gone           \* what is left of a word whose expansion is given up

Paths == [dir : Dirs, name : Names]
Kinds == {"@use", "use", "type", "fn", "oldfn", "macro"}

(* of: the name declared; is: a macro's replacement; path: the file named; *)
(* needs: the types of the variables declared in the body.                 *)
Item == [k : Kinds, of : Words \cup {Gone}, is : Words, path : Paths,
         needs : SUBSET (Words \cup {Gone})]

(* What is written in a file.  One that does not exist has no items:       *)
(* lex_source(NULL) is TOK_EOF.                                            *)
Written == {item \in Item : Gone \notin {item.of} \cup item.needs}
File   == [exists : BOOLEAN, text : Seq(Written)]
NoFile == [exists |-> FALSE, text |-> <<>>]
NoWord == "no word"

ASSUME WordsAssumption == Gone \notin Words /\ NoWord \notin Words
ASSUME DisksAssumption ==
    \A d \in Disks : /\ d \in [Paths -> File]
                     /\ \A p \in Paths : ~d[p].exists => d[p] = NoFile
ASSUME LinesAssumption == \A c \in CommandLines : c \in Seq(Paths)
ASSUME BoundAssumption == MaxExpand \in Nat /\ MaxStack \in Nat \ {0}

VARIABLES
    disk, inputs,   \* the files and the command line
    phase,          \* "next", "collect", "parse", or how the run ended
    done,           \* inputs begun
    stack,          \* the files being read, the input first
    macros,         \* global_macros: a word's last replacement
    reg,            \* TypeRegistry of the current input
    program,        \* the merged declarations
    mains,          \* main_count
    errors,         \* the codes tc_error collected
    lexed,          \* what phase "collect" made of each used file (history)
    drift,          \* files that phase "parse" reads differently (history)
    unknown         \* types the parser did not know (history)

reading == <<stack, macros, lexed, drift>>
result  == <<reg, program, mains, errors, unknown>>
vars    == <<disk, inputs, phase, done, reading, result>>

(* A file being read: lex: the items lexed so far; pos: the tokens parsed. *)
Decl  == [k : {"use", "type", "fn"}, of : Words \cup {Gone}, path : Paths]
Frame == [path : Paths, lex : Nat, toks : Seq(Item), pos : Nat,
          types : SUBSET (Words \cup {Gone}), decls : Seq(Decl)]
Open(path, types) == [path |-> path, lex |-> 0, toks |-> <<>>, pos |-> 0,
                      types |-> types, decls |-> <<>>]

Ends == {"accepted", "no input", "errors", "multiple main", "duplicate symbol",
         "circular dependency", "stack overflow"}

Init == /\ disk \in Disks /\ inputs \in CommandLines
        /\ phase = "next" /\ done = 0
        /\ stack = <<>>
        /\ macros = [w \in Words |-> NoWord]
        /\ reg = {} /\ program = <<>> /\ mains = 0 /\ errors = {}
        /\ lexed = {} /\ drift = {} /\ unknown = {}

Text(path) == disk[path].text
Top   == stack[Len(stack)]
SetTop(f) == [stack EXCEPT ![Len(stack)] = f]
Input == inputs[done]
-----------------------------------------------------------------------------
(* lex_source_with_depth on a word: its replacement is lexed again, one    *)
(* deeper, and deeper than the bound there is nothing left.                *)
Expand(table, word) ==
    LET after[n \in Nat] ==
          IF n = 0 THEN word
          ELSE LET w == after[n - 1] IN IF table[w] = NoWord THEN w ELSE table[w]
        last == after[MaxExpand]
    IN  IF last \in Words /\ table[last] = NoWord THEN last ELSE Gone

Reading == phase \in {"collect", "parse"}
Lexing  == Reading /\ Top.lex < Len(Text(Top.path))

Token(item, table) == [item EXCEPT !.of    = Expand(table, item.of),
                                   !.needs = {Expand(table, w) : w \in item.needs}]

(* Mutant: a file's macros are entered when the whole file has been lexed. *)
LexItemLate ==
    /\ Lexing
    /\ LET item == Text(Top.path)[Top.lex + 1]
           toks == IF item.k = "macro" THEN Top.toks
                   ELSE Append(Top.toks, Token(item, macros))
           last == Top.lex + 1 = Len(Text(Top.path))
           mine == {i \in 1..Len(Text(Top.path)) : Text(Top.path)[i].k = "macro"}
       IN  /\ stack' = SetTop([Top EXCEPT !.lex = @ + 1, !.toks = toks])
           /\ macros' = IF ~last THEN macros
                        ELSE [w \in Words |->
                                IF \E i \in mine : Text(Top.path)[i].of = w
                                THEN Text(Top.path)[CHOOSE i \in mine : Text(Top.path)[i].of = w].is
                                ELSE macros[w]]
           /\ lexed' = IF last /\ phase = "collect" /\ Len(stack) > 1
                       THEN lexed \cup {<<Top.path, toks>>} ELSE lexed
           /\ drift' = IF last /\ phase = "parse" /\ Len(stack) > 1 /\ <<Top.path, toks>> \notin lexed
                       THEN drift \cup {Top.path} ELSE drift
    /\ UNCHANGED <<disk, inputs, phase, done, result>>

(* One item of the file on top: a macro goes into the table, anything else *)
(* becomes a token with the macros known so far expanded.                  *)
LexItem ==
    /\ Lexing
    /\ LET item == Text(Top.path)[Top.lex + 1]
           toks == IF item.k = "macro" THEN Top.toks
                   ELSE Append(Top.toks, Token(item, macros))
           last == Top.lex + 1 = Len(Text(Top.path))
       IN  /\ stack' = SetTop([Top EXCEPT !.lex = @ + 1, !.toks = toks])
           /\ macros' = IF item.k = "macro" THEN [macros EXCEPT ![item.of] = item.is]
                        ELSE macros
           /\ lexed' = IF last /\ phase = "collect" /\ Len(stack) > 1
                       THEN lexed \cup {<<Top.path, toks>>} ELSE lexed
           /\ drift' = IF last /\ phase = "parse" /\ Len(stack) > 1 /\ <<Top.path, toks>> \notin lexed
                       THEN drift \cup {Top.path} ELSE drift
    /\ UNCHANGED <<disk, inputs, phase, done, result>>
-----------------------------------------------------------------------------
(* main takes the next input.  read_file dies if it cannot be opened.      *)
NextInput ==
    /\ phase = "next" /\ done < Len(inputs)
    /\ done' = done + 1
    /\ IF ~disk[inputs[done + 1]].exists
       THEN phase' = "no input" /\ UNCHANGED <<stack, reg, lexed>>
       ELSE /\ phase' = "collect"
            /\ stack' = <<Open(inputs[done + 1], {})>>
            /\ reg' = {} /\ lexed' = {}
    /\ UNCHANGED <<disk, inputs, macros, drift, program, mains, errors, unknown>>

At(k)  == /\ Reading /\ ~Lexing
          /\ Top.pos < Len(Top.toks) /\ Top.toks[Top.pos + 1].k \in k
AtEnd  == Reading /\ ~Lexing /\ Top.pos = Len(Top.toks)
Tok    == Top.toks[Top.pos + 1]
Past   == [Top EXCEPT !.pos = @ + 1]

(* resolve_path, always from the input: not from the file with the `@use`. *)
Resolve(base, rel) == IF base.dir # "" /\ rel.dir = "" THEN [base EXCEPT !.name = rel.name]
                                                       ELSE rel

(* Reading the file of an `@use`, which begins with these types.           *)
ReadUsed(types) ==
    LET used == Resolve(Input, Tok.path)
    IN  /\ errors' = errors \cup (IF disk[used].exists THEN {} ELSE {"E009"})
        /\ IF Len(stack) < MaxStack
           THEN stack' = Append(SetTop(Past), Open(used, types)) /\ UNCHANGED phase
           ELSE phase' = "stack overflow" /\ UNCHANGED stack
        /\ UNCHANGED <<disk, inputs, done, macros, lexed, drift, reg, program, mains, unknown>>

(* Mutant: only the `@use` of the input itself are followed.               *)
CollectUseShallow ==
    /\ phase = "collect" /\ At({"@use"})
    /\ IF Len(stack) = 1 THEN ReadUsed({})
       ELSE stack' = SetTop(Past) /\ UNCHANGED <<disk, inputs, phase, done, macros, lexed, drift, result>>

CollectUse == phase = "collect" /\ At({"@use"}) /\ ReadUsed({})

(* Mutant: a used file starts without the types of its user.               *)
ParseUseAlone == phase = "parse" /\ At({"@use"}) /\ ReadUsed({})

ParseUse   == phase = "parse" /\ At({"@use"}) /\ ReadUsed(Top.types)

(* The types of a body that the parser does not know start expressions:    *)
(* the statement is a bare identifier, E005.  No name where one must be is *)
(* E002.                                                                   *)
BodyErrors(types) == (IF Tok.needs \subseteq types THEN {} ELSE {"E005"})
                     \cup (IF Tok.of = Gone THEN {"E002"} ELSE {})
Missing(types) == {[phase |-> phase, input |-> Input, type |-> w] : w \in Tok.needs \ types}

(* collect_imported_types at a struct: parse_struct parses its methods,    *)
(* knowing the types that came before in this file.                        *)
CollectType ==
    /\ phase = "collect" /\ At({"type"})
    /\ LET types == Top.types \cup {Tok.of}
       IN  /\ errors' = errors \cup BodyErrors(types)
           /\ unknown' = unknown \cup Missing(types)
           /\ stack' = SetTop([Past EXCEPT !.types = types])
    /\ reg' = reg \cup {Tok.of}
    /\ UNCHANGED <<disk, inputs, phase, done, macros, lexed, drift, program, mains>>

(* Mutant: it does not step over a directive.                              *)
CollectSkipInPlace ==
    /\ phase = "collect" /\ At({"use", "fn", "oldfn"})
    /\ errors' = errors \cup (IF Tok.k = "oldfn" THEN {"E002"} ELSE {})
    /\ stack' = SetTop(IF Tok.k = "use" THEN Top ELSE Past)
    /\ UNCHANGED <<disk, inputs, phase, done, macros, lexed, drift, reg, program, mains, unknown>>

(* It skips the rest; a function in the old syntax, `type fn name:`, is    *)
(* taken for one in the new and has no parameter name before the `:`.      *)
CollectSkip ==
    /\ phase = "collect" /\ At({"use", "fn", "oldfn"})
    /\ errors' = errors \cup (IF Tok.k = "oldfn" THEN {"E002"} ELSE {})
    /\ stack' = SetTop(Past)
    /\ UNCHANGED <<disk, inputs, phase, done, macros, lexed, drift, reg, program, mains, unknown>>

(* parse_program_with_types at a declaration.                              *)
ParseDecl ==
    /\ phase = "parse" /\ At({"use", "type", "fn", "oldfn"})
    /\ LET kind  == IF Tok.k = "oldfn" THEN "fn" ELSE Tok.k
           types == IF kind = "type" THEN Top.types \cup {Tok.of} ELSE Top.types
       IN  /\ errors' = errors \cup (IF kind = "use" THEN {} ELSE BodyErrors(types))
           /\ unknown' = IF kind = "use" THEN unknown ELSE unknown \cup Missing(types)
           /\ stack' = SetTop([Past EXCEPT !.types = types,
                !.decls = Append(@, [k |-> kind, of |-> Tok.of, path |-> Tok.path])])
    /\ UNCHANGED <<disk, inputs, phase, done, macros, lexed, drift, reg, program, mains>>

Below == SubSeq(stack, 1, Len(stack) - 1)

(* Mutant: the declarations of the used file come before its user's.       *)
ReturnPrepending ==
    /\ AtEnd /\ Len(stack) > 1
    /\ stack' = [Below EXCEPT ![Len(stack) - 1].decls =
                   IF phase = "parse" THEN Top.decls \o @ ELSE @]
    /\ UNCHANGED <<disk, inputs, phase, done, macros, lexed, drift, result>>

(* The end of a used file: its declarations follow those of its user.      *)
Return ==
    /\ AtEnd /\ Len(stack) > 1
    /\ stack' = [Below EXCEPT ![Len(stack) - 1].decls =
                   IF phase = "parse" THEN @ \o Top.decls ELSE @]
    /\ UNCHANGED <<disk, inputs, phase, done, macros, lexed, drift, result>>

(* The input has been collected; its tokens are parsed from the start.     *)
BeginParse ==
    /\ phase = "collect" /\ AtEnd /\ Len(stack) = 1
    /\ phase' = "parse"
    /\ stack' = <<[Top EXCEPT !.pos = 0, !.types = reg]>>
    /\ UNCHANGED <<disk, inputs, done, macros, lexed, drift, result>>

(* It has been parsed: its declarations are merged.                        *)
Mains(decls) == Cardinality({i \in 1..Len(decls) : decls[i].k = "fn" /\ decls[i].of = "main"})

Merge ==
    /\ phase = "parse" /\ AtEnd /\ Len(stack) = 1
    /\ phase' = "next"
    /\ stack' = <<>>
    /\ program' = program \o [i \in 1..Len(Top.decls) |->
                               [file |-> Input, decl |-> Top.decls[i]]]
    /\ mains' = mains + Mains(Top.decls)
    /\ UNCHANGED <<disk, inputs, done, macros, lexed, drift, reg, errors, unknown>>
-----------------------------------------------------------------------------
Declared(i) == program[i].decl

(* Mutant: only declarations of two inputs are compared.                   *)
DuplicateAcrossFiles == \E i, j \in 1..Len(program) :
    /\ i < j /\ Declared(i).k # "use" /\ program[i].file # program[j].file
    /\ Declared(i).k = Declared(j).k /\ Declared(i).of = Declared(j).of

Duplicate == \E i, j \in 1..Len(program) :
    /\ i < j /\ Declared(i).k # "use"
    /\ Declared(i).k = Declared(j).k /\ Declared(i).of = Declared(j).of

(* The circular dependency check follows from each input the first `use`   *)
(* of each file.  A `use` holds the text of its token, quotes included.    *)
Quoted(path)  == [path |-> path, quotes |-> TRUE]
AsInput(path) == [path |-> path, quotes |-> FALSE]

Edges == SelectSeq(program, LAMBDA d : d.decl.k = "use")
Follow(from) ==
    LET out == {j \in 1..Len(Edges) : AsInput(Edges[j].file) = from}
    IN  IF out = {} THEN from
        ELSE Quoted(Edges[CHOOSE j \in out : \A l \in out : j <= l].decl.path)

Circular == \E i \in 1..Len(inputs) :
    LET start == AsInput(inputs[i])
        after[n \in Nat] == IF n = 0 THEN start ELSE Follow(after[n - 1])
    IN  \E n \in 1..(Len(Edges) + 10) :
           after[n] = start /\ after[n] # after[n - 1]

(* tc_report_errors, the linker checks and the end (check_program and the  *)
(* emitter are Ownership's and others').                                   *)
Link ==
    /\ phase = "next" /\ done = Len(inputs)
    /\ phase' = IF errors # {} THEN "errors"
                ELSE IF mains > 1 THEN "multiple main"
                ELSE IF Duplicate THEN "duplicate symbol"
                ELSE IF Circular THEN "circular dependency"
                ELSE "accepted"
    /\ UNCHANGED <<disk, inputs, done, reading, result>>

Next == \/ NextInput \/ LexItem
        \/ CollectUse \/ CollectType \/ CollectSkip \/ BeginParse
        \/ ParseUse \/ ParseDecl \/ Return \/ Merge
        \/ Link

Spec == Init /\ [][Next]_vars /\ WF_vars(Next)
-----------------------------------------------------------------------------
TypeOK ==
    /\ phase \in {"next", "collect", "parse"} \cup Ends
    /\ done \in 0..Len(inputs)
    /\ stack \in Seq(Frame) /\ Len(stack) <= MaxStack
    /\ \A f \in 1..Len(stack) : /\ stack[f].lex <= Len(Text(stack[f].path))
                                /\ stack[f].pos <= Len(stack[f].toks)
    /\ Reading => done > 0 /\ stack # <<>> /\ stack[1].path = Input
    /\ phase = "next" => stack = <<>>
    /\ macros \in [Words -> Words \cup {NoWord}]
    /\ reg \subseteq Words \cup {Gone}
    /\ program \in Seq([file : Paths, decl : Decl])
    /\ mains \in Nat
    /\ errors \subseteq {"E002", "E005", "E009"}

(* parser.h, "Phase 2: Parse with all imported types already registered":  *)
(* every file is parsed knowing what was collected and what its user knew. *)
TypesFlowDown ==
    phase = "parse" => /\ reg \subseteq stack[1].types
                       /\ \A f, g \in 1..Len(stack) :
                             f <= g => stack[f].types \subseteq stack[g].types

(* What the disk says, read without the compiler.                          *)
ItemsOf(p, k) == {Text(p)[i] : i \in {j \in 1..Len(Text(p)) : Text(p)[j].k = k}}
Uses(input, p) == {Resolve(input, item.path) : item \in ItemsOf(p, "@use")}
Follows(input, files) == \A p \in files : Uses(input, p) \subseteq files
Reach(input) == {p \in Paths : \A files \in SUBSET Paths :
                                  input \in files /\ Follows(input, files) => p \in files}
TypesOf(input) == {item.of : item \in UNION {ItemsOf(p, "type") : p \in Reach(input)}}
NoMacros == \A p \in Paths : \A i \in 1..Len(Text(p)) : Text(p)[i].k # "macro"

(* So no type that an input or a file it uses declares, anywhere, is       *)
(* unknown to the parse.                                                   *)
TypesPreregistered ==
    NoMacros => \A u \in unknown : u.phase = "parse" => u.type \notin TypesOf(u.input)

(* README: `@use` is "recursive parse + splice": the program is the text   *)
(* of the inputs with every used file in the place of its `@use`.          *)
Kind(item)     == IF item.k = "oldfn" THEN "fn" ELSE item.k
Said(item)     == [k |-> Kind(item), of |-> item.of, path |-> item.path]
UsedBy(item, input, texts) == texts[Resolve(input, item.path)]
InPlace(input, p, texts) ==
    FlattenSeq([i \in 1..Len(Text(p)) |->
                  IF Text(p)[i].k = "@use" THEN UsedBy(Text(p)[i], input, texts)
                  ELSE <<Said(Text(p)[i])>>])
Inlined(input) ==
    LET flat[n \in Nat] == [p \in Paths |-> IF n = 0 THEN <<>> ELSE InPlace(input, p, flat[n - 1])]
    IN  flat[MaxStack][input]

Spliced ==
    NoMacros /\ phase = "next" =>
       [i \in 1..Len(program) |-> Declared(i)] = FlattenSeq([n \in 1..done |-> Inlined(inputs[n])])

(* Every declaration of an accepted program was read once: a file with     *)
(* declarations that is reached along two paths is rejected.               *)
Visiting(input, p, visits) ==
    <<p>> \o FlattenSeq([i \in 1..Len(Text(p)) |->
               IF Text(p)[i].k = "@use" THEN UsedBy(Text(p)[i], input, visits) ELSE <<>>])
Visited(input) ==
    LET visits[n \in Nat] == [p \in Paths |-> IF n = 0 THEN <<>> ELSE Visiting(input, p, visits[n - 1])]
    IN  visits[MaxStack][input]

ReadOnce ==
    NoMacros /\ phase = "accepted" =>
       LET visited == FlattenSeq([n \in 1..Len(inputs) |-> Visited(inputs[n])])
       IN  \A i, j \in 1..Len(visited) :
              /\ visited[i] = visited[j]
              /\ \E l \in 1..Len(Text(visited[i])) : Text(visited[i])[l].k \in {"type", "fn"}
              => i = j

(* The two phases read a file alike unless it mentions, perhaps through    *)
(* other macros, a word that another file, or its own later text, defines. *)
MacroItems == UNION {ItemsOf(q, "macro") : q \in Paths}
Says(p)     == UNION {{item.of} \cup item.needs : item \in UNION {ItemsOf(p, k) : k \in Kinds \ {"macro"}}}
Mentions(p) == {w \in Words : \A said \in SUBSET Words :
                  /\ Says(p) \subseteq said
                  /\ \A m \in MacroItems : m.of \in said => m.is \in said
                  => w \in said}
Disturbed(p) ==
    \E q \in Paths : \E i \in 1..Len(Text(q)) :
       /\ Text(q)[i].k = "macro" /\ Text(q)[i].of \in Mentions(p)
       /\ q = p => \E j \in 1..(i - 1) : Text(p)[j].k # "macro"
DriftExplained == \A p \in drift : Disturbed(p)

(* The compiler ends, whatever the files name.                             *)
Terminates == <>(phase \in Ends)
=============================================================================

------------------------------ MODULE Emission ------------------------------
(***************************************************************************)
(* The order in which emitter.c writes the C of a program: emit_program,   *)
(* and emit_hot_split for the hot library and its host.  Each loop over    *)
(* the declarations is a step and writes pieces of C; a piece needs names  *)
(* that C wants declared before it, and declares names itself.  What a C   *)
(* compiler says of the file follows from the pieces and their order.      *)
(* Marshalling has the arguments of async calls; what is written for an    *)
(* expression is left open here (Expressions has it).                      *)
(***************************************************************************)
EXTENDS Marshalling, FiniteSets

CONSTANTS Programs,      \* the programs that are considered
          Nesting,       \* how deep their blocks are nested, at most
          ExprC(_, _)    \* the C of an expression that was checked, or not

Outputs == {"program", "library", "host"}

VARIABLES program,    \* the declarations, in the order of the merged source
          output,     \* which file is written
          phase,      \* the loop that comes next: its place in Phases
          file        \* the pieces written so far

vars == <<program, output, phase, file>>

(* A declaration.  fields: of a struct, the parameters of anything else;   *)
(* names: what an included header or a piece of inline C declares; type:   *)
(* <<>> if there is none; init: the global an initializer reads.           *)
Field   == [type : Seq(STRING), union : BOOLEAN, anonymous : BOOLEAN]
Default == [kind |-> "fn", name |-> "", type |-> <<>>, fields |-> <<>>, async |-> FALSE,
            body |-> <<>>, methods |-> <<>>, names |-> {}, init |-> {}]

(* A statement: type of a `var`; of: what a call or a throw names; text:   *)
(* of an `expr`; alt: an else block, or the arms of a try.                 *)
Statement == [k |-> "act", type |-> <<>>, of |-> "", args |-> <<>>, text |-> <<>>, body |-> <<>>, alt |-> <<>>]

(* The statements of a body and of the blocks in it, or of those that      *)
(* `body` holds alone.                                                     *)
Blocks(body, alts) ==
    LET level[n \in 0..Nesting] ==
            IF n = 0 THEN {body}
            ELSE UNION {UNION {{b[i].body} \cup (IF alts THEN {b[i].alt} ELSE {}) : i \in DOMAIN b} : b \in level[n - 1]}
    IN  UNION {level[n] : n \in 0..Nesting}
Within(body, alts) == UNION {Range(b) : b \in Blocks(body, alts)}
Statements(body)   == Within(body, TRUE)

TypesIn(parts) == [i \in DOMAIN parts |-> parts[i].type]
Types(d) == TypesIn(d.fields)
-----------------------------------------------------------------------------
(* The programs considered: each name is declared, once, and is what it is *)
(* used as; an async call is one that C would take of a plain function.    *)
Kinds == {"struct", "enum", "error", "fn", "var", "use", "inline"}
Outer == {"raw", "fat", "array"}
Reserved == Scalars \cup Outer \cup {"void"}
DeclaredBy(d) == (IF d.kind \in {"use", "inline"} THEN d.names ELSE {d.name})
                 \cup {d.methods[m].name : m \in DOMAIN d.methods}
NamesOf(p, kinds) == UNION {IF p[i].kind \in kinds THEN {p[i].name} ELSE {} : i \in DOMAIN p}
NamesIn(p)   == UNION {IF p[i].kind \in {"use", "inline"} THEN p[i].names ELSE {} : i \in DOMAIN p}
MethodsIn(p) == UNION {IF p[i].kind = "struct" THEN {p[i].methods[m].name : m \in DOMAIN p[i].methods} ELSE {}
                          : i \in DOMAIN p}
Values(p)    == NamesOf(p, {"fn", "var", "enum"}) \cup NamesIn(p)

IsType(p, t) ==
    /\ t \in Seq(STRING) \ {<<>>}
    /\ t[Len(t)] \in Scalars \cup Containers \cup {"void"} \cup NamesOf(p, {"struct", "enum"}) \cup NamesIn(p)
    /\ \A i \in 1..Len(t) - 1 : t[i] \in Outer \cup Containers
Accepts(p, args, params) ==
    /\ Len(args) = Len(params)
    /\ \A j \in DOMAIN args : IsType(p, args[j].type) /\ Assignable(args[j].type, params[j])
IsStatement(p, s) ==
    /\ s.type = <<>> \/ IsType(p, s.type)
    /\ s.k \in {"var", "throw", "try", "call", "act", "expr", "method", "if", "name"}
    /\ s.k = "var"    => s.type # <<>>
    /\ s.k = "throw"  => s.of \in NamesOf(p, {"error"})
    /\ s.k = "method" => s.of \in MethodsIn(p)
    /\ s.k \in {"call", "name"} => s.of \in Values(p)
    /\ s.k = "call" => /\ s.args \in Seq(Range(s.args))
                       /\ \A i \in DOMAIN p : p[i].kind = "fn" /\ p[i].name = s.of /\ p[i].async
                                              => Accepts(p, s.args, Types(p[i]))
IsBody(p, body) ==
    /\ \A b \in Blocks(body, TRUE) : b \in Seq(Statements(body))
    /\ \A s \in Statements(body) : IsStatement(p, s) /\ {s.body, s.alt} \subseteq Blocks(body, TRUE) \cup {<<>>}
IsCode(p, d) ==
    /\ d.fields \in Seq(Field) /\ \A i \in DOMAIN d.fields : IsType(p, d.fields[i].type)
    /\ d.type = <<>> \/ IsType(p, d.type)
    /\ IsBody(p, d.body)
IsProgram(p) ==
    /\ p \in Seq(Range(p))
    /\ \A i \in DOMAIN p :
          /\ p[i].kind \in Kinds /\ p[i].async \in BOOLEAN /\ IsCode(p, p[i]) /\ p[i].init \subseteq Values(p)
          /\ p[i].methods \in Seq(Range(p[i].methods)) /\ \A m \in DOMAIN p[i].methods : IsCode(p, p[i].methods[m])
          /\ DeclaredBy(p[i]) \cap Reserved = {}
          /\ p[i].kind \notin {"use", "inline"} => DeclaredBy(p[i]) \cap Containers = {}
          /\ \A j \in DOMAIN p \ {i} : DeclaredBy(p[i]) \cap DeclaredBy(p[j]) = {}

ASSUME NestingAssumption == Nesting \in Nat
ASSUME ProgramsAssumption == \A p \in Programs : IsProgram(p)
-----------------------------------------------------------------------------
Decls(kind)  == {i \in DOMAIN program : program[i].kind = kind}
Named(kind, x) == {i \in Decls(kind) : program[i].name = x}
HasArgs(d)   == d.name = "main" /\ Len(d.fields) = 1 /\ Head(d.fields[1].type) = "fat"

(* fat_type_tag                                                            *)
Tag(t) == CASE Len(t) = 1 /\ t[1] \notin Containers -> t[1]
            [] t[1] = "raw" -> "ptr"
            [] OTHER -> "x"

(* The C names a type needs where it is written (emit_type): of a struct   *)
(* that is only pointed at its tag, else its definition.                   *)
Fat(t) == <<"fat", Tag(t), t>>
TypeNeeds(t) ==
    LET first == CHOOSE i \in DOMAIN t : /\ t[i] \notin {"raw", "array"}
                                         /\ \A j \in 1..i - 1 : t[j] \in {"raw", "array"}
        x     == t[first]
    IN  IF t = <<>> THEN {}
        ELSE IF x = "fat" THEN {Fat(SubSeq(t, first + 1, Len(t)))}
        ELSE IF x \in Containers THEN {<<"name", x>>}
        ELSE IF Named("struct", x) # {}
             THEN {<<IF \E j \in 1..first - 1 : t[j] = "raw" THEN "tag" ELSE "struct", x>>}
        ELSE IF x \in Scalars \cup {"void"} THEN {} ELSE {<<"name", x>>}

(* At the top of the file a mention of `struct S` declares its tag; inside *)
(* a parameter list it declares another struct.                            *)
Tags(names) == {n \in names : n[1] = "tag"}
Incomplete(names) == {IF n[1] = "struct" THEN <<"tag", n[2]>> ELSE n : n \in names}
TypesNeed(types) == UNION {TypeNeeds(types[i]) : i \in DOMAIN types}

(* The calls of async functions among the statements of a block.           *)
IsAsync(f)   == \E i \in Named("fn", f) : program[i].async
Signature(f) == Types(program[CHOOSE i \in Named("fn", f) : program[i].async])

StatementNeeds(s) ==
    CASE s.k = "var"   -> TypeNeeds(s.type)
      [] s.k = "throw" -> {<<"error", s.of>>, <<"name", "tc_throw">>}
      [] s.k = "try"   -> {<<"name", "tc_throw">>}
      [] s.k = "call" /\ IsAsync(s.of) ->
            {<<"name", "thread_pool_submit">>,
             <<IF Marshal(s.args, Signature(s.of)).how = "wrapper" THEN "wrapper" ELSE "name", s.of>>}
      [] s.k \in {"act", "expr", "if"} -> {}
      [] s.k = "method" -> {<<"method", s.of>>}
      [] OTHER         -> {<<"name", s.of>>}
BodyNeeds(body) == UNION {StatementNeeds(s) : s \in Statements(body)}

(* The marshalled calls of a body, and its expressions with the C that is  *)
(* written for them.                                                       *)
Marshalled(s) ==
    LET m == Marshal(s.args, Signature(s.of))
    IN  [fn |-> s.of, args |-> s.args, how |-> m.how, what |-> m.what, types |-> m.types]
CallsOf(body) == {Marshalled(s) : s \in {s \in Statements(body) : s.k = "call" /\ IsAsync(s.of)}}
ExpressionsOf(body, checked) ==
    {[text |-> body[i].text, c |-> ExprC(body[i].text, checked)] :
        i \in {i \in DOMAIN body : body[i].k = "expr"}}
-----------------------------------------------------------------------------
(* A piece of C: it is `what` of declaration `of`.                         *)
Piece(what, of, needs, gives) ==
    [what |-> what, of |-> of, needs |-> needs, gives |-> gives, calls |-> {}, texts |-> {}, slots |-> <<>>]

(* A piece that stands at the top of the file: it declares the tags that   *)
(* it mentions outside parameter lists.                                    *)
Top(what, of, mentions, needs, gives) ==
    Piece(what, of, mentions \cup needs, gives \cup Tags(mentions))

(* What is on before the declarations: async.h comes in for an async       *)
(* function or for a try or a throw in the block of some function.         *)
Runtime == {<<"name", x>> : x \in {"queue", "stack", "tc_throw", "thread_pool_submit"}}
NeedsRuntime == \E i \in Decls("fn") :
    \/ program[i].async
    \/ \E j \in DOMAIN program[i].body : program[i].body[j].k \in {"try", "throw"}
Preamble == <<Piece("preamble", 0, {}, IF output = "program" /\ NeedsRuntime THEN Runtime ELSE {})>>

(* The pieces of the declarations of a kind, in their order.               *)
Each(kind, pieces) ==
    FlattenSeq([i \in DOMAIN program |-> IF program[i].kind = kind THEN pieces[i] ELSE <<>>])

Provides(what, i) == Piece(what, i, {}, {<<"name", x>> : x \in program[i].names})
InlineC     == Each("inline", [i \in DOMAIN program |-> <<Provides("inline", i)>>])
UseIncludes == Each("use", [i \in DOMAIN program |-> <<Provides("use", i)>>])

(* Mutant: the bodies of functions are not scanned.                        *)
ScannedSignatures == FlattenSeq([i \in DOMAIN program |-> <<program[i].type>> \o Types(program[i])])

(* scan_fat_types_in_stmts looks at the type and the body of a statement,  *)
(* not at its alternatives; no one looks at the methods of a struct.  Each *)
(* statement is followed by those of its body, which is opened then.       *)
Opened(body) == FlattenSeq([i \in DOMAIN body |->
                   <<[type |-> body[i].type, body |-> <<>>]>> \o body[i].body])
ScanBody(body) ==
    LET open[n \in 0..Nesting] == IF n = 0 THEN body ELSE Opened(open[n - 1])
    IN  TypesIn(open[Nesting])
Scanned == FlattenSeq([i \in DOMAIN program |->
              <<program[i].type>> \o Types(program[i]) \o ScanBody(program[i].body)])

(* collect_fat_types: the fat pointers of a type from the outside in, each *)
(* tag once.                                                               *)
FatParts(t) == FlattenSeq([i \in DOMAIN t |->
                  IF t[i] = "fat" THEN <<SubSeq(t, i + 1, Len(t))>> ELSE <<>>])
Collect(seen, t) == IF \E i \in DOMAIN seen : Tag(seen[i]) = Tag(t) THEN seen ELSE Append(seen, t)
Seen(inners) ==
    LET seen[n \in 0..Len(inners)] == IF n = 0 THEN <<>> ELSE Collect(seen[n - 1], inners[n])
    IN  seen[Len(inners)]
FatTypes ==
    LET inner == Seen(FlattenSeq([i \in DOMAIN Scanned |-> FatParts(Scanned[i])]))
    IN  [i \in DOMAIN inner |->
            LET mentions == TypeNeeds(<<"raw">> \o inner[i])
            IN  Top("fat", 0, mentions, {}, {Fat(inner[i])} \cup Tags(mentions))]

(* The fields of a struct and the storage they get: those of one number    *)
(* overlap, 0 is none.  An open union takes the next `&` field; a field    *)
(* without a name is padding of its own.                                   *)
Nothing == [slots |-> <<>>, open |-> FALSE, last |-> 0]
Fresh(laid)  == laid.last + 1
Put(laid, slot, open, last) == [slots |-> Append(laid.slots, slot), open |-> open, last |-> last]
Member(laid, f) == IF f.union /\ laid.open THEN Put(laid, laid.last, TRUE, laid.last)
                   ELSE Put(laid, Fresh(laid), f.union, Fresh(laid))

(* Mutant: padding leaves the union open.                                  *)
SlotOpen(laid, f) == IF f.anonymous THEN Put(laid, Fresh(laid), laid.open, Fresh(laid)) ELSE Member(laid, f)

(* In the hot files a field without a name declares nothing.               *)
Slot(laid, f)    == IF f.anonymous THEN Put(laid, Fresh(laid), FALSE, Fresh(laid)) ELSE Member(laid, f)
HotSlot(laid, f) == IF f.anonymous THEN [Member(laid, f) EXCEPT !.slots = Append(laid.slots, 0)] ELSE Member(laid, f)
Slots(fields) ==
    LET laid[n \in 0..Len(fields)] == IF n = 0 THEN Nothing ELSE Slot(laid[n - 1], fields[n])
    IN  laid[Len(fields)].slots
HotSlots(fields) ==
    LET laid[n \in 0..Len(fields)] == IF n = 0 THEN Nothing ELSE HotSlot(laid[n - 1], fields[n])
    IN  laid[Len(fields)].slots

(* struct S in a program; in the two hot files `typedef struct { ... } S`. *)
Struct(i) ==
    LET d == program[i]
    IN  IF output = "program"
        THEN [Top("struct", i, TypesNeed(Types(d)), {}, {<<"tag", d.name>>, <<"struct", d.name>>})
                 EXCEPT !.slots = Slots(d.fields)]
        ELSE [Top("struct", i, TypesNeed(Types(d)), {}, {<<"name", d.name>>})
                 EXCEPT !.slots = HotSlots(d.fields)]

(* The methods of a struct are declared just after it.                     *)
MethodPrototypes(i) ==
    LET methods == program[i].methods
    IN  [m \in DOMAIN methods |->
            Top("method", i, Incomplete(TypeNeeds(methods[m].type)),
                Incomplete(TypesNeed(Types(methods[m]))), {<<"method", methods[m].name>>})]

Enum(i) == Piece("enum", i, {}, {<<"name", program[i].name>>})

(* The body of an error declaration is written where it stands.            *)
Error(i) ==
    LET d == program[i]
    IN  [Piece("error", i, TypesNeed(Types(d)) \cup BodyNeeds(d.body), {<<"error", d.name>>})
            EXCEPT !.calls = CallsOf(d.body), !.texts = ExpressionsOf(d.body, FALSE)]

(* The loop over structs, enums and errors, in the order of the source.    *)
TypeDefinitions ==
    FlattenSeq([i \in DOMAIN program |->
        CASE program[i].kind = "struct" -> <<Struct(i)>> \o
                 (IF output = "program" THEN MethodPrototypes(i) ELSE <<>>)
          [] program[i].kind = "enum"  /\ output = "program" -> <<Enum(i)>>
          [] program[i].kind = "error" /\ output = "program" -> <<Error(i)>>
          [] OTHER -> <<>>])

Prototype(i) ==
    LET d == program[i]
    IN  Top("prototype", i, Incomplete(TypeNeeds(d.type)),
            IF HasArgs(d) THEN {} ELSE Incomplete(TypesNeed(Types(d))), {<<"name", d.name>>})
Prototypes == Each("fn", [i \in DOMAIN program |-> <<Prototype(i)>>])

Wrapper(i) == Piece("wrapper", i, TypesNeed(Types(program[i])) \cup {<<"name", program[i].name>>},
                    {<<"wrapper", program[i].name>>})
Wrappers == Each("fn", [i \in DOMAIN program |->
                IF program[i].async /\ HasWrapper(Types(program[i])) THEN <<Wrapper(i)>> ELSE <<>>])

Global(i) == Top("global", i, TypeNeeds(program[i].type), {<<"name", x>> : x \in program[i].init},
                 {<<"name", program[i].name>>})
Globals == Each("var", [i \in DOMAIN program |-> <<Global(i)>>])

(* The definition of a function or a method with a body.                   *)
ArgsType == {<<"fat", "ptr", <<"raw", "i8">>>>}
Definition(what, i, d, body) ==
    [Top(what, i, TypeNeeds(d.type),
         BodyNeeds(body) \cup (IF HasArgs(d) THEN ArgsType ELSE TypesNeed(Types(d))),
         IF what = "methods" THEN {} ELSE {<<"name", d.name>>})
        EXCEPT !.calls = CallsOf(body), !.texts = ExpressionsOf(body, what = "body")]
Function(i) == Definition("body", i, program[i], program[i].body)
Bodies == Each("fn", [i \in DOMAIN program |->
              IF output = "library" /\ program[i].name = "main" THEN <<>> ELSE <<Function(i)>>])
MethodsOf(i) == [m \in DOMAIN program[i].methods |->
                    Definition("methods", i, program[i].methods[m], program[i].methods[m].body)]
Methods == Each("struct", [i \in DOMAIN program |-> MethodsOf(i)])

(* The host has a pointer to each function of the library and a stub that  *)
(* calls it; main is here in full.                                         *)
Pointer(i) == Top("pointer", i, Incomplete(TypeNeeds(program[i].type)),
                  Incomplete(TypesNeed(Types(program[i]))), {<<"pointer", program[i].name>>})
Table == Each("fn", [i \in DOMAIN program |->
             IF program[i].name = "main" THEN <<>> ELSE <<Pointer(i)>>])
Stubs == Each("fn", [i \in DOMAIN program |->
             <<IF program[i].name = "main" THEN Function(i) ELSE Definition("stub", i, program[i], <<>>)>>])
-----------------------------------------------------------------------------
Phases(o) ==
    CASE o = "program" -> <<"preamble", "inline", "fats", "uses", "types", "prototypes",
                            "wrappers", "globals", "bodies", "methods">>
      [] o = "library" -> <<"preamble", "uses", "fats", "types", "bodies">>
      [] o = "host"    -> <<"preamble", "fats", "types", "table", "stubs">>

Init == /\ program \in Programs
        /\ output \in Outputs
        /\ phase = 1 /\ file = <<>>

Done == phase > Len(Phases(output))
Write(name, pieces) == /\ ~Done /\ Phases(output)[phase] = name
                       /\ file' = file \o pieces
                       /\ phase' = phase + 1
                       /\ UNCHANGED <<program, output>>

WritePreamble    == Write("preamble", Preamble)
WriteInlineC     == Write("inline", InlineC)
WriteFatTypes    == Write("fats", FatTypes)
WriteIncludes    == Write("uses", UseIncludes)
WriteTypes       == Write("types", TypeDefinitions)
WritePrototypes  == Write("prototypes", Prototypes)
WriteWrappers    == Write("wrappers", Wrappers)
WriteGlobals     == Write("globals", Globals)
WriteBodies      == Write("bodies", Bodies)
WriteMethods     == Write("methods", Methods)
WriteTable       == Write("table", Table)
WriteStubs       == Write("stubs", Stubs)

Next == \/ WritePreamble \/ WriteInlineC \/ WriteFatTypes \/ WriteIncludes \/ WriteTypes
        \/ WritePrototypes \/ WriteWrappers \/ WriteGlobals \/ WriteBodies \/ WriteMethods
        \/ WriteTable \/ WriteStubs

Spec == Init /\ [][Next]_vars
-----------------------------------------------------------------------------
(* What a C compiler, reading down, does not find declared.  A definition  *)
(* may use its own names, but a struct is not complete inside itself.      *)
Missing(k) == file[k].needs \ ({n \in file[k].gives : n[1] # "struct"}
                                 \cup UNION {file[j].gives : j \in 1..k-1})

Before(i, kinds, x) == \E j \in 1..i-1 : program[j].kind \in kinds /\ program[j].name = x
Provided(kinds, x)  == \E j \in DOMAIN program : program[j].kind \in kinds /\ x \in program[j].names

(* The types that stand outside of methods and of every else and arm; a    *)
(* fat pointer type among them, and another that gets the same name.       *)
InView(body) == {s.type : s \in Within(body, FALSE)}
TypesInView == UNION {{program[j].type} \cup Range(Types(program[j])) \cup InView(program[j].body) :
                         j \in DOMAIN program}
Inners == UNION {{SubSeq(t, i + 1, Len(t)) : i \in {i \in DOMAIN t : t[i] = "fat"}} : t \in TypesInView}
Met(t)    == t \in Inners
Shared(t) == \E u \in Inners : u # t /\ Tag(u) = Tag(t)

Early == {"struct", "enum", "error", "method"}
Reason(p, n) ==
    \/ n[1] = "struct"  /\ p.what \in {"struct", "error"} /\ ~Before(p.of, {"struct"}, n[2])
    \/ n[1] = "tag"     /\ p.what \in {"error", "method"} /\ ~Before(p.of, {"struct"}, n[2])
    \/ n[1] = "fat"     /\ (~Met(n[3]) \/ Shared(n[3]) \/ p.what = "fat")
    \/ n[1] = "error"   /\ p.what = "error" /\ ~Before(p.of, {"error"}, n[2])
    \/ n[1] = "method"  /\ p.what = "error"
    \/ n[1] = "wrapper" /\ p.what = "error"
    \/ n \in Runtime    /\ ~NeedsRuntime /\ (p.what = "fat" \/ ~Provided({"use"}, n[2]))
    \/ n[1] = "name" /\ Provided({"use"}, n[2]) /\ p.what = "fat"
    \/ n[1] = "name" /\ Named("enum", n[2]) # {}
          /\ (p.what = "fat" \/ (p.what \in Early /\ ~Before(p.of, {"enum"}, n[2])))
    \/ n[1] = "name" /\ Named("fn", n[2]) # {} /\ p.what = "error"
    \/ n[1] = "name" /\ Named("var", n[2]) # {}
          /\ (p.what = "error" \/ (p.what = "global" /\ ~Before(p.of, {"var"}, n[2])))

(* The hot files have no enums, errors, globals, methods, inline C or      *)
(* runtime, no prototypes, and a struct only as a typedef.                 *)
HotReason(p, n) ==
    \/ n[1] \notin {"fat", "name"}
    \/ n[1] = "fat"  /\ (~Met(n[3]) \/ Shared(n[3]) \/ p.what = "fat")
    \/ n[1] = "name" /\ Named("fn", n[2]) = {} /\ (output = "host" \/ ~Provided({"use"}, n[2]))
    \/ n[1] = "name" /\ Named("fn", n[2]) # {}
          /\ (~Before(p.of, {"fn"}, n[2]) \/ (n[2] = "main" /\ output = "library"))

(* COMPILER_ARCHITECTURE.md: every name is declared before it is used, but *)
(* for the ones that these rules name.                                     *)
DeclaredBeforeUse ==
    Done => \A k \in DOMAIN file : \A n \in Missing(k) :
               IF output = "program" THEN Reason(file[k], n) ELSE HotReason(file[k], n)

(* TIG_LANGUAGE_SPECIFICATION.md:413-460: `&` fields that follow each      *)
(* other overlap, every other field has its own storage, and "anonymous    *)
(* fields separate union blocks".                                          *)
Overlaps(f) == f.union /\ ~f.anonymous
Laid(fields) ==
    [j \in DOMAIN fields |->
        Cardinality({i \in 1..j : ~(i > 1 /\ Overlaps(fields[i]) /\ Overlaps(fields[i - 1]))})]
LayoutAsDeclared ==
    Done => \A k \in DOMAIN file : file[k].what = "struct" =>
        LET fields == program[file[k].of].fields
        IN  \/ file[k].slots = Laid(fields)
            \/ output # "program" /\ \E j \in DOMAIN fields : fields[j].anonymous

(* The arguments of an async call arrive, or there is a reason.            *)
Exact(call, params) ==
    /\ \A j \in DOMAIN params : ~call.args[j].give
    /\ Len(params) = 1 => \/ params[1] \in {<<"i8">>, <<"i16">>, <<"i32">>}
                          \/ Head(params[1]) = "raw"
    /\ \A j \in DOMAIN params : ~IsHandle(params[j])
    /\ Len(params) > 1 => \A j \in DOMAIN params : call.args[j].known => call.args[j].type = params[j]
ArgumentsArrive ==
    Done => \A k \in DOMAIN file : \A call \in file[k].calls :
        LET params == Signature(call.fn)
        IN  Exact(call, params) => Arrives(call, params)
=============================================================================

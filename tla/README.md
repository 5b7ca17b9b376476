# Tight-C (`tigc`) verification project

TLA+ models, TLC runs and TLAPS proofs for the Tight-C compiler and the runtime its programs
use. Paths and line numbers refer to the repository (`compiler/...`, `stdlib/...` and `tests/...`
are under `src/`). `PROJECT.json` holds the same information for tools: components, runs, the
lines each definition models, hazards, theorems.

To check a run: `tlc -config <cfg> <MC module>`; a proof: `tlapm <Module>Proofs.tla`
(`StdlibProofs.tla` for the three containers,
`FrontProofs.tla` for command line and lexer, `SyntaxProofs.tla` for the parser and the ownership
checker, `EmissionProofs.tla` for `Emission` with `Marshalling`).

## 1. The system

`tigc` translates `.tc` files to C and calls a C compiler. One run is a straight line of phases;
the state that outlives a phase is the program being built, a few global tables and, with hot
reload, files shared with a running program. The generated C brings its own run-time state: the
chain of error handlers, queues and stacks, and, with hot reload, the table of stubs.

| Component | Code | State | Operations | Interacts with |
|---|---|---|---|---|
| Driver, imports | `compiler/src/main.c`, `parser.c` 870-1142 | options, input list, merged program, known types, the temporary C file | the command line, reading inputs twice, `@use`, merging, duplicate and cycle checks, writing C, calling the C compiler | every phase; the file system, other runs of tigc |
| Lexer, macros | `lexer.c` | global macro table, token vector | `lex_source`, `collect_macros`, expansion | parser; the table survives from file to file |
| Parser | `parser.c` | cursor, known struct and enum names, pin list | one function per construct, two places that try and go back | lexer, error list |
| Ownership checker | `checker.c` | stack of scopes of variables with a dead mark | `check_program`, `check_stmts`, `check_expr` | program, error list |
| Emitter | `emitter.c` | output string, program | one loop over the declarations per kind of C text, one C fragment per statement and expression | checker's types, runtime headers, C compiler |
| Error list | `common.c` | the errors collected | `tc_error`, `tc_report_errors` | all phases |
| Hot reload | `main.c` 641-753, `emitter.c` 2198-2742 | `lib.version`, `lib.c`, `lib_<v>.so`; the host's `current_version`, handle and stub table | full build, rebuild, `reload_check`, `load_hot_functions` | several tigc processes and a running host, through the directory only |
| Queues, stacks | `stdlib/snq.h` | ring buffer or array, capacity, indices, element size | create, push, pop, peek, size, clear, destroy | emitted code dereferences the returned pointers |
| Try and throw | `stdlib/error.h`, `emitter.c` 1278-1346 | `g_current_try_buf`, the error's name, `jmp_buf`s on the C stack | throw, try, catch arms | every function of the emitted program |
| Defers | `emitter.c` 1064-1078, 1386-1448 | none at run time: text copied to several places | `emit_defers` at `ret` and at the end of a function | queues and stacks, which are destroyed at the same place |
| Map | `stdlib/map.h` | chained hash table | set, get, has, remove, size, clear | emitted code |
| Async calls | `stdlib/async.h`, `emitter.c` 519-671, 1926-2066 | thread pool pointer | packing arguments, submit (synchronous), wrappers that unpack them | emitted calls |

What is hard in each, and what makes it correct:

- **Hot reload** is the only concurrent part: builders and host share a directory without locks,
  the version is published before its library exists, and a build may fail, stop or overlap with
  another one at any point. Correct: the stubs always belong to one library, the host never faults
  without a reason that can be named, a finished build is picked up.
- **Try and throw** keep one global pointer into dead or live stack frames. Correct: a throw finds
  the innermost active handler and jumps nowhere else; one arm runs.
- **Queues, stacks and the map** grow under way, may fail to, and hand out pointers into their
  buffer. Correct: they are the FIFO queue, the LIFO stack and the dictionary they are used as.
- **The ownership checker** sees a text once and must answer for all its executions, with
  shadowing and scopes it shares between functions.
- **Defers** are pasted at returns and ends of blocks. Correct: each deferred block that was
  passed runs once, last first, and nothing but the value of a `ret` is evaluated after it.
- **Imports** read each file twice, under a macro table that changes in between, into a type
  registry that the second reading depends on. Correct: the merged program is the text with the
  files in the place of their `@use`.
- **The parser** goes on after an error, with trees that may be NULL and a cursor that may not
  advance. Correct: it reads all of a text without errors, and only then may it do anything odd.
- **The lexer** expands macros by lexing texts it has made itself, into the same vector, with a
  table that the expansion may change. Correct: the tokens are those of the substitution, each
  bears the line of its use, and the lexer comes to the end, unless something keeps it that section 5 names.
- **The emitter** writes C in one order for every program, twice more for the two hot files, and
  relies on C to read its expressions and its declarations as meant. Correct: what is used is
  declared before, a struct has the fields that overlap on top of each other and no others, an
  expression groups in C as in the source, and an argument of an async call arrives unchanged.
- **Plain builds** of one directory share `__tigc_tmp.c`. Correct: a program is made of its own
  source, nothing is left behind and what was asked for is kept.

## 2. Modules

Each module names, definition by definition, the lines it models in `PROJECT.json`. Definitions
called *mutants* are plausible mistakes in the code; put in the place of what they mutate, they
break the property that is about it.

| Module | Models | State and actions |
|---|---|---|
| `HotReload` | builders and host | `vfile`, `hotc`, `lib`, `app` are the directory; a builder has a program counter and takes one step per file-system call (`ReadVersion` ... `Finish`); the host has `cur` (`current_version`), `handle`, `bound` (the table of `hot_<f>`) and one step per call of `reload_check` and `load_hot_functions` |
| `Container`, `SnqBuffer` | what the containers share | `capacity` and the bound on its growth; the cells, element size and last pointer that queues and stacks both have |
| `Fifo`, `SnqQueue` | `snq.h` queues | the struct's fields, `items` as a function on cells; one action per function and branch; `ptr` is the pointer that emitted code still holds, `out` what it read there |
| `Lifo`, `SnqStack` | `snq.h` stacks | the same for the array |
| `TryCatch` | `error.h` and the C emitted for try, throw, arms | `cur` is `g_current_try_buf`, a buffer is a number, `tries` the try statements whose block is active |
| `Ownership` | `checker.c` scopes and dead marks | `scopes` is the ScopeStack; the text is chosen statement by statement together with an execution of it (`given`, `misused`) |
| `Defers` | `emit_stmt_vec`, `emit_stmt_vec_with_defers`, `emit_defers` | `Defers(b, i)` and `Ending(b, i)` are the clean-up written before statement i of block b; `stack` is the execution of the C, each frame with the clean-up it still owes (`due`, `free`) and what has run (`ran`); `late` are the statements that evaluated an expression after clean-up |
| `Driver` | `main` around the compilation: options, C file, C compiler | `opts` is what `Parsed` makes of argv; a run has a program counter and takes one step per file-system call (`Open`, `Write`, `Compile`, `Link`, `RemoveTemp`), `file` is the directory, `met` the runs that overlapped |
| `Lexer` | `lex_source_with_depth` and the macro functions | `frames` are its nested calls (text, index, line, tokens), `macros` is `global_macros`; one action per branch of the loop |
| `Imports` | phases 1 and 2 of the driver | `stack` of files being read, `macros`, `reg` (TypeRegistry), `program`; one action per item read, file entered, file left |
| `Parser` | the recursive descent | `todo` is the C stack, `ahead` and `back` the tokens around the cursor, `marks` the saved positions; a table of rules for what `match` and `at` decide, actions for the rest |
| `Emission` | `emit_program` and `emit_hot_split` | `file` is the C written so far, as pieces that need and give names; one action per loop over the declarations, in the order `Phases` of the file written |
| `Marshalling` | the arguments of async calls | operators only, extended by `Emission`: what the caller packs and the wrapper unpacks, byte by byte |
| `Expressions` | `parse_expr`, `check_expr`, `emit_expr` | operators only, used by `Translation`: tokens to a tree, types on the tree, the tree to tokens of C; `Grouping` says without a parser how the source and C group them |
| `Translation` | `Emission` with the expressions `Expressions` writes | no state of its own; `ExprC` of `Emission` is given by `Expressions` in the instance, so that the pieces hold the C of their expressions |
| `Dictionary`, `HashMap` | `map.h` | `buckets` are sequences of entries; a call is begun with a key and a value (`Call`, `arg`) and ends with its effect; a growth moves entry by entry, so the refinement holds in the middle of one too |

`Fifo`, `Lifo` and `Dictionary` are what the containers promise; `SnqQueue`, `SnqStack` and
`HashMap` are shown to implement them under a mapping of their fields (`IsFifo`, `IsLifo`,
`IsDictionary`). A step of `Dictionary` begins a call with its arguments or ends it with the effect of its
operation on the key it was begun with, so that a lost update, a removal that does nothing or an effect on
another key is no step of it; only the set of an absent key may be refused. `MC*` modules give the instances, `*Proofs` modules the proofs.

Choices that matter:

- *HotReload.* A call of the C compiler is two steps (it reads `lib.c`, it completes its output).
  `careful` is a history of the developer, not of the program: one tigc at a time so far, none
  killed, a full build first and only rebuilds after it. Carelessness is open to the first
  `MaxReckless` runs, so that all orders are checked in one instance. On Linux the host link of a full build asks for `-l<lib>_1` (main.c:742) while the file is
  `<lib>_1.so`, and so fails unless a link of that name exists; `BuildHost` has both outcomes.
  A call through a pointer into a closed library faults or runs the old code, as it happens.
  Stubs are called from `main` only, since the library holds every other function.
- *SnqQueue, SnqStack.* A push whose `realloc` fails, or whose size differs from that of the
  first, is dropped as in the code. The indices are within the range of `int`.
- *TryCatch.* A `jmp_buf` is dead when its block has been left; `Throw` to a dead one ends the
  program as "undefined", which stands for C's undefined behaviour.
- *Ownership.* The executions compared with the text enter a loop at most once and leave
  deferred accesses aside: the checker does not claim more (checker.c:330 and 341 read a body once,
  where it stands). A `select` is no statement of the module, as the checker skips it (362-364). Calls' arity, async and methods are other checks and left out.
- *Imports.* Words stand for names of types, functions and macros; a file is a sequence of
  declarations with the types they need. The C stack has room for `MaxStack` files.
- *Parser.* The tree is left out but for the kind of the expression parsed last, on which the
  parser branches. Tokens are chosen when the cursor reaches them, so every text over a
  vocabulary is parsed. On twelve thousand random texts the model and the compiled `parser.c`
  agreed on the outcome: no error, an error, no end, a crash.
- *Lexer.* A text is a sequence of units (a character, or a sign of several); the source is kept
  whole, so that a token can be traced to its place (`at`). `Meaning` is the substitution written as a
  recursion over the text, without frames or tokens.
- *Emission.* What the pieces say is left out but for the names they need and give, the fields'
  slots and the arguments and expressions in them. `Reason` and `HotReason` list what is known to be used undeclared;
  each of their cases is needed: without any one of them `DeclaredBeforeUse` fails. `IsProgram` says which
  programs are considered: each name is declared once and used as what it is, an async call is one that C
  would take of a plain function. The name of a method stands for its C name, of which the struct's is
  part. `Nesting` bounds how deep blocks are nested, in order that no operator
  recurses over a body without an end; any number will do.
  Function pointers, sections, `packed`, varargs and freestanding mode are left out.
- *Marshalling.* A value is its bytes by number, so that a truncation, a conversion and an address in
  the place of a value can be told apart. Each call is taken by itself.
- *Expressions.* `(T)` is one token, since deciding what is a cast is part of `Parser`. sizeof,
  alloc, `cast()`, slices and initializer lists are left out.
- *Driver.* Each run compiles a program of its own, so that what a C file holds says whose it is. `Translate`
  stands for the phases before the C file, which the other modules have; a run with `-H` ends there
  and is a builder of `HotReload`. main.c:620-637 computes `needs_runtime`, on which nothing depends (769-773).
- *Defers.* A statement may have an expression (`expr`), which is evaluated when control is at it: that of a
  `ret` after the clean-up that is written before it (emitter.c:1216).
- *HashMap.* `hash_string` is any function of the keys. `strdup` is taken to succeed.

## 3. Runs

| Run | Module, cfg | Properties | Shows |
|---|---|---|---|
| `hot` | `MCHotReload`, `HotReload.cfg` | `StubsMatchLibrary`, `FaultExplained`, `NeverWritesMappedLibrary`, `NeverDeletesPublished`, `FreshBuildIsPickedUp` | Builds and rebuilds, of which any may fail, be killed or overlap, one of a source that drops a function, while the host runs, restarts and reloads at any point: the stubs are always those of one library, a fault is always a failed dlopen or a dropped function, and an untried complete build is picked up; if tigc runs one at a time, a rebuild never writes the mapped library and a reload never deletes the published one. |
| `queue` | `MCSnqQueue`, `SnqQueue.cfg` | `QueueLastPointerHolds`, `IsFifo` | Every sequence of push, pop, peek, clear and dropped push on rings of capacity 1, 3 and 8 that grow up to 6: the ring is a FIFO queue, and the last returned pointer keeps its value until reallocation or a full ring. |
| `stack` | `MCSnqStack`, `SnqStack.cfg` | `StackLastPointerHolds`, `IsLifo` | Every sequence of push, pop, peek, clear and dropped push on arrays of capacity 1, 3 and 8 that grow up to 6: the array is a LIFO stack, and a popped pointer keeps its value until reallocation or the next push over it. |
| `try` | `MCTryCatch`, `TryCatch.cfg` | `NeverSkipsHandler`, `HandlerIsInnermost`, `StrayThrowExplained`, `SecondArmExplained` | Every interleaving of calls, tries, throws, arms, rets and breaks, up to three activations and three tries: no throw passes over an active try, the current handler is the innermost one as long as every try is left by its end, and a throw into a dead block happens only after a ret or break out of a try, and an error runs a second arm only in an ambiguous clause or when an inner try has replaced its name. |
| `own` | `MCOwnership`, `Ownership.cfg` | `DeadExactly`, `NoMissedUse` | Every program of up to two functions, two declarations of a name (shadowing, a global that both functions share) and three nested blocks of every kind, with every execution of it: no access after a give in the text goes unreported, and the dead marks are exactly the declarations given. |
| `imports` | `MCImports`, `Imports.cfg` | `TypesFlowDown`, `TypesPreregistered`, `Spliced`, `ReadOnce`, `DriftExplained`, `Terminates` | Three command lines over 360 disks (chains, diamonds, cycles, missing files, directories, macros, one file used by two): the merged program is the inlined text, every declared type is known to the parse, an accepted program reads no declaration twice, the two readings of a file agree unless macros explain it, and the compiler always ends. |
| `lex` | `MCLexer`, `Lexer.cfg` | `SubstitutionExact`, `LineExact`, `LexEnds` | Every program of two macro definitions and a use, of 21 by 12 by 13 forms, with the depth limit exceeded, names redefined and definitions, calls and literals left open, and every text of up to three literal marks: the tokens are those of the substitution, each on its line, and the lexer comes to the end but for a character that is not expected, what is left open, and a call it stands at that has a parenthesis in an argument, a parameter without a name or an argument that is written past its buffer. |
| `defers` | `MCDefers`, `Defers.cfg` | `Guaranteed`, `CleanupIsLast`, `ReleasedOnce` | Every function of up to three statements and one nested block of each kind, with up to three defers, every way through it: a ret or the last } of a block runs the defers that were passed in that block once, last first, and after the first of them nothing of the block runs but the others and the return with the value it evaluates; at the last } the containers of the body are destroyed once each, and only then. |
| `parser` | `MCParser`, `Parser.cfg` | `CrashExplained`, `Balanced`, `Ends` | Texts over seventeen small vocabularies, each aimed at one part of the grammar: while no error is collected the brackets still to be asked for are those the text opened, whatever was tried and taken back, and the parser reaches the end of the file; a NULL expression or a step past the last token occurs only after an error. |
| `hash` | `MCHashMap`, `HashMap.cfg` | `Reachable`, `IsDictionary` | Every sequence of calls on a table that grows from one chain to eight or runs out of memory on the way, with keys that collide in small tables and part in larger ones: each entry stays where its key finds it, in every step of a growth, and each call ends with its own effect, for its own key and value: only the set of a key that is not there may be refused. |
| `emit` | `MCEmission`, `Emission.cfg` | `DeclaredBeforeUse`, `LayoutAsDeclared`, `ArgumentsArrive`, `ExpressionsRead` | The C written for every pair and many triples of some 250 declarations, every struct of up to four fields, every async call of up to two arguments and expressions of 30 primaries under every operator, as a program and as the two hot files: what is not declared before its use, overlaps, arrives changed or is read differently is exactly what the rules name. |
| `build` | `MCDriver`, `Driver.cfg` | `OwnProgram`, `NothingLeft`, `OutputKept` | Nineteen forms of the command line beside a plain build and one that keeps its C file, any of them failing or killed at any step: a program is made of another run's C only if that run went through the same file meanwhile, and what must be left or gone is. |

The bounds, and why they are enough:

- `hot`: three builders, so that a number is read, a predecessor removed and a third version comes
  after it, and that two overlap while a third is careless too late; two functions, one of which a
  later source drops, since a partial swap needs two; `MaxReckless` 2: the first two runs may overlap, follow
  a kill or repeat the full build. `MaxVersion` is above what so many builds can reach, and excludes nothing.
- `queue`, `stack`: capacity 3, which doubles once (with wrap-around in every position), capacity 1,
  which doubles twice, and the default 8, whose growth fails; two element values, one of which is what a cleared slot holds; two
  sizes, so that a push may be refused.
- `try`: three tries and two nested calls, so that a handler outlives an activation while
  another is entered; four catch clauses with one to three arms, with and without wildcard.
- `own`: one name, since every definition looks up one name and no two interact; two declarations shadow each
  other; three nested blocks of all seven kinds; two functions share the globals.
- `imports`: every disk over five main, six library, five leaf texts and a fourth file that one relative path may
  mean; chains, diamonds and cycles; `MaxStack` 4 is deeper than the files.
- `lex`: definitions of 19 simple and 10 parametric forms, 13 uses, in every combination: bodies that are
  empty, one token, several, recursive, or define a macro; arguments with brackets, commas and lines;
  `MaxDepth` 2 instead of ten, exceeded by the recursive ones. Every text of up to three of the marks of literals.
- `emit`: pairs, and triples with a declaration in front that the others lean on, since
  a name is used by one declaration and declared by another, and one more can stand between; four fields, so that a
  union is opened, closed and opened again; two parameters, since one and several are packed differently;
  up to three operators and two postfix parts, since precedence compares two neighbours.
- `build`: three runs, one with every form of the command line, so that two share a file while a third has its own;
  failing and being killed at any step.
- `defers`: all functions of up to three statements with one nested block of up to
  two, three deferred blocks with different contents.
- `parser`: seventeen vocabularies, each for a part of the grammar; four to six free tokens after
  a fixed beginning. Every rule of the grammar is followed by at least one of them.
- `hash`: four keys of which three collide in one and two chains and part in four or more; the table
  grows three times (1, 2, 4, 8), or does not, at any of them.

**Fairness.** `HotReload` assumes weak fairness of the host's steps and of each builder's: a
process that has started runs on; nothing obliges the developer to start one, nor a failed build to
be repeated. `Imports`, `Parser` and `Lexer` assume weak fairness of `Next`: a sequential program that can
take a step takes it. The other modules state no liveness.

`CHECK_DEADLOCK FALSE` stands where the program really stops: an ended build and host, an ended
program, an ended compilation, a parsed text.

## 4. Proofs

Each theorem holds for every value of the constants that satisfies the module's named assumptions
(well-typed parameters, `NULL` no element, a bound that is a number): any number of builders and
versions, any capacity, any depth of calls, any text, any disk.

| Module | Theorem | Property | What it says |
|---|---|---|---|
| `HotReloadProofs` | `TypeCorrect` |  | The host only handles version numbers in range, whatever it reads while tigc rewrites lib.version. |
| `HotReloadProofs` | `StubsConsistent` | `StubsMatchLibrary` | After any interleaving of builds, reloads and restarts, a mapped library is current_version and every stub points into it. |
| `HotReloadProofs` | `FaultsExplained` | `FaultExplained` | A stub faults only after a failed dlopen or when the new source dropped the function. |
| `HotReloadProofs` | `MappedUntouched` | `NeverWritesMappedLibrary` | With one tigc at a time, none killed and no second full build, no rebuild writes the library the host has mapped, however many versions and restarts. |
| `HotReloadProofs` | `PublishedKept` | `NeverDeletesPublished` | Under the same care, no reload deletes the library that lib.version names. |
| `StdlibProofs` | `TypeCorrect` |  | Indices stay in the buffer and the count within the capacity, for every capacity and element set. |
| `StdlibProofs` | `RingCorrect` |  | tail is always head plus count around the ring, the invariant the refinement rests on. |
| `StdlibProofs` | `PointerHolds` | `QueueLastPointerHolds` | A pointer pop or peek returned keeps its value until reallocation or a full ring. |
| `StdlibProofs` | `RingIsFifo` | `IsFifo` | The ring buffer implements the abstract FIFO queue: pops return what was pushed, in order, across wrap-around and growth. |
| `StdlibProofs` | `StackTypeCorrect` |  | top stays within the buffer, for every capacity and element set. |
| `StdlibProofs` | `StackPointerHolds` | `StackLastPointerHolds` | A pointer pop returned keeps its value until reallocation or the next push over it. |
| `StdlibProofs` | `StackArrayIsLifo` | `IsLifo` | The growing array implements the abstract LIFO stack. |
| `TryCatchProofs` | `TypeCorrect` |  | The activations of the active tries stay nested, whatever the program does. |
| `TryCatchProofs` | `NoHandlerSkipped` | `NeverSkipsHandler` | No throw passes over an active handler, for any number of tries and calls and any catch clauses. |
| `TryCatchProofs` | `HandlerExact` | `HandlerIsInnermost` | Without ret or break out of a try the current handler is exactly the innermost active try. |
| `TryCatchProofs` | `StrayThrows` | `StrayThrowExplained` | A throw jumps into a block that has been left only after a ret or break out of a try. |
| `TryCatchProofs` | `OneArmRuns` | `SecondArmExplained` | An error runs one arm, although arms fall through, unless the clause is ambiguous or an inner try has been entered. |
| `SyntaxProofs` | `TypeCorrect` |  | The scope stack has one scope per open block, for every program. |
| `SyntaxProofs` | `DeadMarksExact` | `DeadExactly` | A variable is marked dead exactly when the text gave that declaration, shadowing included. |
| `SyntaxProofs` | `NoUseMissed` | `NoMissedUse` | Every access after a give in the text, on any execution path, is reported. |
| `ImportsProofs` | `TypeCorrect` |  | For every disk and command line: tokens are read in bounds and the bottom of the stack of files is the input. |
| `ImportsProofs` | `TypesInherited` | `TypesFlowDown` | For every disk and command line, while a file is parsed everything collected and every type of its users is known to it. |
| `ImportsProofs` | `NoTypeUnknown` | `TypesPreregistered` | For every disk without macros and every command line: no type that an input, or any file it reaches, declares is unknown to the parse. |
| `ImportsProofs` | `ReadingsAgree` | `DriftExplained` | For every disk and command line: phases 1 and 2 make the same tokens of a file, unless a macro of another file, or a later one of its own, redefines a word it mentions. |
| `ImportsProofs` | `ProgramIsInlined` | `Spliced` | For every disk without macros and every command line: what is merged is the text of the inputs, in order, with every used file in the place of its `@use`, however the files use each other. |
| `ImportsProofs` | `DeclaredOnce` | `ReadOnce` | For every disk without macros and every command line: of an accepted program no file that declares anything was read for two uses. |
| `FrontProofs` | `SubstitutionIsExact` | `SubstitutionExact` | For every text without strings, comments or inline C, whatever its macros are and however they nest: if nothing is reported and no argument holds a parameter replaced after it, the tokens are those of the text with every use of a macro replaced by its body and the parameters by their arguments, all at once. |
| `FrontProofs` | `LinesAreExact` | `LineExact` | For every text and depth limit: a token bears the line of its text in the source, and the tokens of an expansion, however deep, that of the call. |
| `DefersProofs` | `CleanupGuaranteed` | `Guaranteed` | For every function, nested to any depth: a call that ends at a ret or its last } has run each defer it passed in that block once, the last first, whatever its branches, loops, throws and deferred blocks did. |
| `DefersProofs` | `NothingAfterCleanup` | `CleanupIsLast` | For every function, nested to any depth: once a deferred block of a block has run, nothing of that block or of one in it runs but its other deferred blocks and the return, and the only expression evaluated from then on is the value of a ret, which the code does evaluate after the clean-up. |
| `DefersProofs` | `ContainersReleasedOnce` | `ReleasedOnce` | The containers of the body are destroyed at most once, in the order of the text, and every one by a call that ends at the last }; after the first destruction only deferred blocks and a return are left to run. |
| `SyntaxProofs` | `CrashesAreExplained` | `CrashExplained` | The parser dereferences NULL or leaves its tokens only after it has collected an error, for every text. |
| `SyntaxProofs` | `ErrorsStick` |  | No step, going back included, takes a collected error back. |
| `SyntaxProofs` | `BracketsBalance` | `Balanced` | For every text: while no error is collected the brackets the active functions still ask for are those that are open, whatever the grammar tried and took back. |
| `StdlibProofs` | `MapReachable` | `Reachable` | For every hash function, initial capacity and set of keys: each entry lies in the chain its key is searched in, no key lies in the tables twice, and size counts the keys, in the middle of a growth too. |
| `StdlibProofs` | `MapRefinesDictionary` | `IsDictionary` | For every hash function, initial capacity and set of keys the table implements a dictionary whose calls are begun with a key and a value and ended by their effect on that key: no update of a key that is there, and no removal, is lost, whatever collides, whenever the table grows or cannot. |
| `EmissionProofs` | `AlwaysWellWritten` |  | Whatever was written is well formed: calls marshalled for the function they name, structs with the storage that was laid out for their fields. |
| `EmissionProofs` | `AlwaysArgumentsArrive` | `ArgumentsArrive` | The bytes of the arguments that an async call packs are those its function reads, for every signature and call but those Exact leaves out. |
| `EmissionProofs` | `AlwaysLayoutAsDeclared` | `LayoutAsDeclared` | Runs of `&` fields overlap and every other field has its own storage, for structs of any number of fields. |
| `EmissionProofs` | `AlwaysInOrder` |  | At every point of the output, what is missing is on the list of exceptions, and each finished loop left declared what later ones rely on. |
| `EmissionProofs` | `AlwaysDeclaredBeforeUse` | `DeclaredBeforeUse` | In the C of every program, of any length, names are declared before they are used but for the listed exceptions. |
| `FrontProofs` | `OwnProgramAlways` | `OwnProgram` | Any number of runs, failing or killed anywhere: a build that reports success compiled its own C, unless a run it overlapped used the same C file. |
| `FrontProofs` | `NothingLeftAlways` | `NothingLeft` | The temporary C file is left only by a run that was killed, kept it with -t or named it itself: no failure leaves one. |
| `FrontProofs` | `OutputStays` | `OutputKept` | A C file named with -o is never removed or emptied by another run, unless one of the same name rewrites it or makes it its program. |

How they go:

- *HotReload.* `TypeOK`, `StubsMatchLibrary` and `FaultExplained` are inductive together with
  `ReloadInv`, which says what holds in the middle of a reload: what is loaded has a number, and
  between `Load` and `Bind` the image is that of `current_version`. Without it `Bind` could not be
  shown to bind the right one. The two properties that need a careful developer follow from
  `CarefulInv`: at most one `tigc` is under way; no library on disk and no number the host remembers
  is above the version that `lib.version` names, or above the one a rebuild is about to make, whose
  library nobody has opened; and during a reload the library it will delete is not the published one.
- *SnqQueue* (in `StdlibProofs`, which extends the three containers). `RingInv`: `tail` is
  `head + count` around the ring, and without a buffer all are 0.
  `PtrInv` ties the last returned pointer to the front element or the cell before it. Every action then maps to an
  action of `Fifo` or to a stutter; growth is the case where the slots are renumbered. *SnqStack*
  likewise, with `ArrayInv`.
- *HashMap.* `MapInv`: the table and, during a growth, the new table are each sound (`Placed`, `Once`),
  no key is in both, the chains before `at` are empty, and `size` is the number of keys. Every step
  replaces one chain of one table: the lemmas `Rechain`, `Prepend`, `Cut` and `Rewrite` say what that does
  to the set of entries, so that no chain is ever followed and no induction is needed. `Reachable` is the
  soundness of both tables; with it what a key is found with is what `Contents` says, and each step maps
  to a step of `Dictionary` or to a stutter, a growth to stutters: a call is under way in the dictionary for as long as
  `pc` is in its function, and ends in the step that updates, inserts, refuses, removes or answers.
- *Defers.* `Sound` says of each frame that, where its statement owes clean-up, the defers that have
  run and those still due are together the defers of the block, and the due ones stand before those
  that have run; elsewhere nothing has run. `Nests` says that below a block control is at the
  statement that has it, unless the block is a deferred one, so that a frame with clean-up under way has only
  deferred blocks above it. `Clean` says the same of containers destroyed and to be destroyed. A `break` or a
  `throw` cuts the chain of frames anywhere, which keeps all three (`CutChain`). `Nests` is also why an expression that
  is evaluated after clean-up is that of a `ret`: of the innermost block and of those around it up to a deferred one,
  none has run a defer at any other statement (`NothingLate`).
- *TryCatch.* `Ordered` (the active tries' buffers and frames are nested) and `Chained` (of the
  active tries, the one whose buffer a try has saved is the next one out, and only the outermost
  has saved none) with `NeverSkipsHandler` are inductive. `HandlerIsInnermost` follows with
  `Exact`: as long as no try has been left by `ret` or `break`, each try has saved exactly the next
  one out and the current handler is the innermost. `SecondArmExplained` needs `ArmsInv`: what an
  unambiguous clause has run is one arm, and the name it matched is still there.
- *Ownership* (in `SyntaxProofs`). `Numbered` and `Searchable` say that declarations are found by the search from the
  innermost scope out, `Given` that an execution gives away only what the text gives. `DeadExactly`
  and `NoMissedUse` follow.
- *Imports.* `TypesFlowDown` is inductive with the types of the state and `World` (the disk and the
  command line do not change). `TInv` holds what the two phases know of each other. Of
  `TypesPreregistered`: of every file phase "collect" has lexed, each item parsed is in the registry
  if it is a type and its file has been begun if it is an `@use` (`Collecting`). When the input ends nothing is open,
  so the files lexed are closed under `@use`: what is reachable, the least such set, is among them. Of
  `DriftExplained`: in a file that no other disturbs, the words it mentions mean what the file itself says last of
  them (`Own`), in either phase (`Latest`), so each reading, however far, is the same sequence of
  tokens (`Readings`, `Recorded`). That two tables expand a word alike when they agree on every word
  it can become (`ExpandAgree`) is an induction over the times a word is replaced, as is that the iteration is defined at all.
  Without macros `SInv` says what the parse has built: a file being parsed holds what the items before its
  position stand for, with used files in place down to as many levels as the stack has room for
  (`Splicing`), and a file that waits is at an `@use` of the file above it. So what `Return` hands down is exactly what stands for that
  `@use`, and at the bottom of the stack it is the whole input (`Spliced`). `ReadOnce` follows by counting: by induction
  over the levels and over the items of a file (`VisitsCounted`), a file that declares something is
  visited no more often than its declaration is in the text, and an accepted program has no declaration
  twice. The library's `FlattenSeq` recurses over its argument: that it adds one sequence at
  a time is the lemma `FlatStep`, by the same induction.
- *Driver* (in `FrontProofs`). `Asked` says what the command line of a run must have said for it to be where it is, and
  `Acquainted` that runs under way together are in each other's `met`. So when a run writes its C
  into the file another is about to compile, the two have met and share it, which is what `OwnSource`
  allows (`OwnProgram`). `Accounted` names for the temporary file a run that will still remove it, was
  killed, or keeps it (`NothingLeft`); `Kept` is `OutputKept` from the moment the C is written on.
  What `Parsed` makes of the words is left open: the theorems hold for any parsing of them.
- *Lexer* (in `FrontProofs`). `LineInv`: the call of lex_source for the source has counted the newlines
  before its index, what it has produced and the call it is expanding bear their line, and of nested
  calls nothing is asked but that an outer one waits at the end of a use: `EndExpansion` replaces the
  lines of their tokens. A step of the source's call counts what it passes, because scanning never goes
  back: every end is the least of a set of later positions, or lies past the name just read. A string is the exception,
  whose newlines are not counted; if it has any, E012 is reported, which the property excludes.
  `SubstitutionExact` compares what is said with `Meaning`, a recursion over places, and both are built from further
  recursions over the positions of a text (`Replace`, `Substituted`, `Parameters`, `ArgumentsUsed`). That each has a solution, and that
  the solution is the one that `CHOOSE` takes, comes first, every time from the least counterexample (`MinIsFirst`).
  expand_parametric_macro replaces the parameters one after the other, the property all at once: by induction over the parameters the two agree
  where no argument holds a later one (`OneMore`, `OneByOne`), so that what is expanded is the body that is meant
  (`ExpandedIsBody`). The invariant is `Faithful`: what the active calls of lex_source have said and what is left of their
  texts still means, put together from the innermost call outwards, is what the source means (`Telling`). Each branch of
  the loop keeps it in one of three ways: a call goes on in its text (`GoesOn`), goes into an expansion (`GoesIn`), or comes out of
  one whose text is used up (`ComesOut`). When the source's call is done nothing is left to mean, and what is
  said is all there is.
- *Parser* (in `SyntaxProofs`). `CrashExplained` is inductive when it also says that a NULL expression has been
  reported, which is why the property says it. `ErrorsStick` is why a later success proves nothing.
  `Balanced` needs more than the count it names. `Fits` says of each symbol of the C stack what it does
  to the stack of open brackets, `Nests` that every rule of the grammar replaces a symbol by symbols that together
  do the same, after the token that is stepped over (proved table by table, row by row), and `Pile` that the
  whole C stack, from `todo`'s bottom up, takes what is open down to nothing. A place that tries and goes back (`Cast`,
  `AfterType`) is in the stack for as long as its mark is in `marks`, and `Pile` pairs them: the mark's brackets are
  those it would find open. So `Return` restores what the symbols put back need. The only
  assumption is that no identifier is a bracket (`NamesAssumption`).

- *Emission* with *Marshalling*. The assumption is that the programs are well formed (`IsProgram`) and `Nesting` a
  number. Every step writes what one loop over the declarations makes (`NextWrites`), and what a loop makes is put
  in terms of the declarations first: one piece for each, in their order (`Lists`, `TypesWritten`, `MethodsWritten`).
  `WellWritten` is about single pieces, whatever their order: the calls in one are marshalled for the
  signature of the function they name, and a struct's slots are those of its fields. A call like that arrives:
  the members of the struct that is passed do not overlap (`OffsetsGrow`), so that what is written to one is what is read
  of it (`WrittenIs`), and a box or a pointer keeps all bytes in the cases of `Exact` (`CallsArrive`). That slots and
  declaration agree is an induction over the fields: a field begins storage exactly when one more field of the list
  begins it (`LaidStep`).
  `InOrder` is about the order. It says that whatever is missing so far is excused, which alone is not
  inductive, and that each loop that is over left declared what it is for (`Kept`). `ChunkFits` is the step: where the
  earlier loops have left theirs, each name that a piece of the next loop needs has been declared by one of them, by an
  earlier piece of the same loop, or is on the list (`Fitting`). For that, the names that a type, a statement or a
  body can need are classified once (`TypeName`, `CodeName`), and each class is traced to the loop that declares it. Fat pointers
  need most: that every one in view is scanned through all levels of blocks (`ViewScanned`) and nothing else is
  (`ScannedInView`), and that one type is written for each tag (`SeenIs`), so that
  a missing one is out of view or shares its tag with another (`FatsWritten`).

Only model-checked, not proved: liveness (`FreshBuildIsPickedUp`, `Terminates`, `Ends`, `LexEnds`), which needs
fairness and ENABLED; and `ExpressionsRead`, since the parser and printer of `Expressions` are RECURSIVE operators over
tokens and trees, out of the provers' reach.

## 5. Where the code and its documents disagree

All of these were met while modelling. None has a run of its own: the properties of the runs
state what holds in spite of them, and name them as their exceptions.

Hot reload and builds:

- `load_hot_functions` sets `current_version` and closes the old library before `dlopen`
  (emitter.c:2574-2604). If that fails, because the version is published before it is built
  (main.c:665), `hot_<f>` point into the closed library and the version is not tried again, where
  tests/HOTSWAPPING/README.md:67 says the host "links the new stubs". `FaultExplained` counts it
  among the reasons for a fault.
- Overlapping builds may write the library the host has mapped, where tests/HOTSWAPPING/README.md:22
  promises uniquely named files; `NeverWritesMappedLibrary` is about careful developers.
- A full build starts again with version 1 (main.c:717). A host that is just leaving version 1 then deletes
  the new library as the old one (emitter.c:2624), and has nothing to pick up:
  the case `~Published` of `FreshBuildIsPickedUp`.
- Plain builds of one directory share `__tigc_tmp.c` (main.c:756): one may compile what another wrote,
  or find it removed. `OwnProgram` excludes it only where the runs overlap.
- Words after `--` that are options of tigc are taken by tigc (main.c:445-450), where the help says "Pass flags
  to C compiler". find_cc also tries `tigc` (236), so the message that no C compiler was found is not
  reached where tigc is on the PATH. `-o x.h -c app` makes a precompiled header called app and says "compiled";
  `--hot` without `-H` is ignored; `-H` with neither `-c` nor `--hot` writes no library.

Functions and blocks:

- README.md:105 promises defers "in reverse order before `}` and `return`"; the defers of a nested
  block are written only where a `ret` stands in that block (emitter.c:1388). `Guaranteed` is about
  the block of the `ret` or the last `}`.
- `return e;` is written after the deferred blocks (emitter.c:1216): e is evaluated when they have run, and meets what they
  released or changed, where TIG_LANGUAGE_SPECIFICATION.md:392-396 says "Deferred execution at scope exit" and "code
  executes at end of scope". `CleanupIsLast` says that nothing else does.
- TIG_LANGUAGE_SPECIFICATION.md:659-668 says that queues and stacks "are automatically destroyed when they go out of
  scope"; they are at the last `}` of a body without a `ret` of its own, and neither at a `ret` nor in a nested
  block (emitter.c:1388, 1426). `ReleasedOnce` is about those that are. They are destroyed before the deferred blocks
  run, which may still use them.
- A `ret` inside a `try`, as in the example of spec1.3.1.md:66-83, leaves `g_current_try_buf` on a
  `jmp_buf` of the function that has returned (emitter.c:1343 is skipped); the next throw jumps
  there instead of reporting an uncaught error. `StrayThrowExplained` names it.
- README.md:450 says catch arms "work like `match` statements", of which one arm runs; the emitted
  tests come one after the other (emitter.c:1315-1341), and a second arm runs when a clause names an
  error twice or has arms after its wildcard, when a wildcard follows two arms, or when an inner try
  has changed the name that is compared. `SecondArmExplained` lists these cases and excludes any
  other.
- Pins are lifted at the next function, not where their scope ends (parser.c:584-592, 775), though FAQ.md:13 says "When
  the scope ends immutability dies", and not at an error handler (858-874). `x = y = 2` and `y++`
  change a pinned y unnoticed. The checker's own test for pins never fires: it reads `expr` of a statement
  that has only a `name` (checker.c:372-381), so `pin x; async foo(x)` is still rejected, which the table of
  spec1.3.0.md under "Pinning vs Giving" allows. The `ret` of a catch arm is not checked for E012.

Reading:

- A cycle of `@use` is followed until the stack ends, and a cycle of `use` is accepted, because the
  graph main builds holds only `use` paths, quotes included (main.c:533-549, parser.c:948-969,
  1147); spec1.3.2.md:99 says "Circular deps trigger linker error". In `Imports` the first is the
  phase "stack overflow".
- Macros: one table serves all files and blocks, where 1.2.x-full.md (DOCUMENTATION/1.2.0) says "global within a file"
  and TIG_LANGUAGE_SPECIFICATION.md:927 "scoped to their declaration block"; an argument that holds the name of a later
  parameter is replaced again (lexer.c:142-150; `Apart`), where "Arguments are inserted literally";
  a replacement that begins with a digit is one number, whatever follows (569-571); the eleventh
  nested expansion vanishes (226); an unterminated macro loses its last character.
- The lexer does not come to an end of some texts. A call with a parenthesis in an argument never ends, as the loop over the
  arguments does not step over it (lexer.c:120-133), where 1.2.x-full.md:919 gives `printi(twice(add(a, b)))` as a
  program; nor does one of a macro with a nameless parameter (51-54). A character that is not expected is put
  on the error list for ever (629), which is never printed, where technical/Errors.md:86-89 has E013 reported.
  An argument shorter than its parameter may be written past the buffer (49-63), and past the text's end goes what
  is left open. `LexEnds` excludes every other case.
- A tentative parse keeps its errors when it goes back: `(->(p))` is correct and gets E002
  (parser.c:281-303). After an error the parser may never end (an initializer list or a method call at the end of the
  file, 356-416, 480-490) or crash (261, 702), where spec1.3.2.md:90 wants all errors
  shown at once. `Ends` and `CrashExplained` are about texts without errors for that reason.

Expressions and arguments:

- A cast takes the whole rest of the expression (parser.c:294-296): `(i32)a + b` casts the sum. The emitted
  `(T)x[i]`, `(T)x.f` and `*q.pop().f` group in C otherwise than in the tree; `r.>m()` on a
  struct pointer passes `&r`; `size(q)` passes the queue itself. `Misread` and `CastOfMore` name these.
- Methods and the bodies of errors are never checked (checker.c:442-448): no E010 there, and
  expressions without types, so container methods are emitted as plain calls.
- Async arguments: a single one is boxed in an `int32_t` (emitter.c:581) unless it is a pointer or a container; `@x`
  arrives as the address of x, where TIG_LANGUAGE_SPECIFICATION.md:734-744 moves the value; the
  struct of several is filled by the types of the arguments and read by those of the parameters; a call in a nested block declares
  another struct than the one the wrapper casts to. `Exact` states when an argument arrives. It claims nothing of queues and
  stacks, which TIG_LANGUAGE_SPECIFICATION.md:764-780 and tests/async/owns.tc pass to async functions.
- The variable `arg` that holds the box or the struct is declared in the enclosing block (emitter.c:581, 641), so two
  such calls in one block do not compile. `ArgumentsArrive` takes each call by itself.
- The bodies of a `select` are not checked (checker.c:362-364, "TODO"): a give in one is not recorded, nor a use of what was given
  reported. `DeadExactly` and `NoMissedUse` are about programs without `select`.
- A method that containers do not have is emitted under its bare name (emitter.c:931-945), and no error is reported.

Order of the C text:

- Fat pointer types come before the headers, enums and structs they name and the outer before the
  inner (emitter.c:1452-1488); all pointers share the tag "ptr" and all others "x"; those of
  else blocks, arms and methods are not declared at all. Bodies of errors come before prototypes and globals. A nested
  try, or one in a method, does not include the runtime.
- The hot files have no enums, errors, globals, methods, prototypes or inline C, and a
  struct only as a typedef; in them "Anonymous fields separate union blocks"
  (TIG_LANGUAGE_SPECIFICATION.md:455) is lost. `Reason`, `HotReason` and the second case of `LayoutAsDeclared` name these.

## 6. Not modelled

- *Emitter*: function pointers, sections, `packed`, varargs, freestanding mode; the 64 entries of
  `seen` (fat pointer types beyond them); the text of inline C. *Expressions*: sizeof, alloc,
  `cast()`, slices, initializer lists.
- *Async runtime*: `thread_pool_submit` calls the function at once (async.h), so there is
  nothing concurrent to model; the pool is a pointer that nothing reads.
- *Driver*: where the standard library is looked for, the texts of help and of error codes.
- *Lexer*: columns, hexadecimal and binary numbers.
- *Error list, syntax tree, file helpers*: growing arrays and constructors.
- *Thin standard library* (`str.h`, `fs.h`, `io.h` ...): stateless wrappers of the C library.
- *Self-hosted beginnings*, *programs written in the language*, *editor extension*: no part of the compiler.
- In modelled components: destroying a queue, stack or map, an `int` overflow of sizes, a failing
  `strdup`; later passes of a loop in `Ownership`, `pin` and `select` in `Defers`;
  arity, async, match, pin and `select` in `Ownership`.

## 7. Plan

Written so far, in this order: `HotReload`, queues and stacks with their abstract specifications,
`TryCatch`, `Ownership`, `Imports`, `Defers`, `Parser`, `HashMap`; then `Lexer`, `Marshalling`,
`Expressions`, `Emission` and `Translation`, which joins the last two, and `Driver`. Next:

1. *Defers and TryCatch together*: the defers that a throw or the `ret` of an arm skips, over the
   executions of both modules.
2. *Ownership*: match, pin, and the later passes of a loop as further actions.
3. *Expressions*: parser and printer as recursive functions of a bounded tree, so that `ExpressionsRead` can be proved.

------------------------------- MODULE Driver -------------------------------
(***************************************************************************)
(* main of compiler/src/main.c around the compilation proper: the words of *)
(* the command line, and the files a build without hot reload goes through *)
(* (HotReload has the builds with it, Imports the reading of the inputs).  *)
(* Several runs of tigc share a directory and nothing else; without -o all *)
(* of them go through the same temporary C file.                           *)
(***************************************************************************)
EXTENDS Naturals, Sequences, SequencesExt

CONSTANTS
    Runs,        \* runs of tigc, each of a program of its own
    Commands,    \* Commands[r]: the command lines run r may have
    CNames,      \* words that end in .c
    HNames,      \* words that end in .h
    Names,       \* other words that are not options
    Path,        \* what the PATH has of the compilers that are tried
    None

TmpC     == "__tigc_tmp.c"
Takers   == {"-c", "-o", "-H", "--debug", "--stdlib-path", "--error"}
Options  == {"-h", "-v", "--hot", "-t", "--freestanding", "--"} \cup Takers
Files    == {TmpC} \cup CNames \cup HNames \cup Names
ArgWords == Options \cup Files
Ends     == {"answered", "died", "killed", "printed", "written", "compiled", "hot"}

ASSUME RunsAssumption == None \notin Runs \cup ArgWords \cup Ends
ASSUME CommandsAssumption == Commands \in [Runs -> SUBSET Seq(ArgWords)]
ASSUME PathAssumption == Path \subseteq {"gcc", "clang", "cc", "tigc"}
-----------------------------------------------------------------------------
(* The command line.  want: the option whose argument comes next; end: how *)
(* main ended at a word.  debug is debug_c: the dump of the tree that      *)
(* --debug ast asks for changes nothing else.                              *)
Unset == [inputs |-> <<>>, cflags |-> <<>>, output |-> None, compile |-> None, hot |-> FALSE,
          rebuild |-> FALSE, keep |-> FALSE, debug |-> FALSE, rest |-> FALSE, want |-> None, end |-> None]

Argument(o, w) ==
    CASE o.want = "-c" -> [o EXCEPT !.want = None, !.compile = w]
      [] o.want = "-o" -> [o EXCEPT !.want = None, !.output = w]
      [] o.want = "-H" -> [o EXCEPT !.want = None, !.hot = TRUE]
      [] o.want = "--debug" -> [o EXCEPT !.want = None, !.debug = @ \/ w = "c",
                                         !.end = IF w \in {"ast", "c"} THEN @ ELSE "died"]
      [] o.want = "--error" -> [o EXCEPT !.end = "answered"]
      [] OTHER -> [o EXCEPT !.want = None]

NewWord(o, w) ==
    CASE w \in {"-h", "-v"} -> [o EXCEPT !.end = "answered"]
      [] w \in Takers       -> [o EXCEPT !.want = w]
      [] w = "--hot"        -> [o EXCEPT !.rebuild = TRUE]
      [] w = "-t"           -> [o EXCEPT !.keep = TRUE]
      [] w = "--freestanding" -> o
      [] w = "--"           -> [o EXCEPT !.rest = TRUE]
      [] OTHER -> IF o.rest THEN [o EXCEPT !.cflags = Append(@, w)] ELSE [o EXCEPT !.inputs = Append(@, w)]

(* The loop over argv, and what is missing after it.                       *)
Parsed(argv) ==
    LET o == FoldLeft(LAMBDA o, w : IF o.end # None THEN o
                                    ELSE IF o.want # None THEN Argument(o, w) ELSE NewWord(o, w),
                      Unset, argv)
    IN  IF o.end = None /\ (o.want # None \/ o.inputs = <<>>) THEN [o EXCEPT !.end = "died"] ELSE o

(* The C file of a run that compiles or writes one.                        *)
CFile(o) == IF o.output # None THEN o.output ELSE TmpC
-----------------------------------------------------------------------------
VARIABLES
    file,    \* the directory
    pc,      \* what each run does next, and "idle"
    opts,    \* its command line
    fails,   \* the C compiler has returned an error
    made,    \* the C text that its compiler has read, or None
    ending,  \* how it ended, or None
    met      \* the runs that were under way while it was (history)

vars == <<file, pc, opts, fails, made, ending, met>>

(* What a file holds: nothing, the C of a run, or a program made of it.    *)
Empty   == [kind |-> "empty", of |-> None]
CText(r) == [kind |-> "c", of |-> r]
Product(r) == [kind |-> "program", of |-> r]

Contents == {Empty} \cup {CText(r) : r \in Runs} \cup {Product(r) : r \in Runs \cup {None}}

ASSUME ContentsAssumption == None \notin Contents

TypeOK ==
    /\ file \in [Files -> Contents \cup {None}]
    /\ pc \in [Runs -> {"idle", "front", "find", "open", "write", "compile", "link", "remove", "done"}]
    /\ opts = [r \in Runs |-> opts[r]]
    /\ fails \in [Runs -> BOOLEAN] /\ made \in [Runs -> Runs \cup {None}]
    /\ ending \in [Runs -> Ends \cup {None}]
    /\ met \in [Runs -> SUBSET Runs]

Init == /\ file = [f \in Files |-> None]
        /\ pc = [r \in Runs |-> "idle"] /\ opts = [r \in Runs |-> Unset]
        /\ fails = [r \in Runs |-> FALSE] /\ made = [r \in Runs |-> None]
        /\ ending = [r \in Runs |-> None] /\ met = [r \in Runs |-> {}]

UnderWay(r) == pc[r] # "idle" /\ ending[r] = None
At(r, l)    == pc[r] = l /\ ending[r] = None
Goto(r, l)  == pc' = [pc EXCEPT ![r] = l] /\ UNCHANGED ending
End(r, how) == ending' = [ending EXCEPT ![r] = how] /\ UNCHANGED pc

Start(r) ==
    /\ pc[r] = "idle"
    /\ \E argv \in Commands[r] : \E o \in {Parsed(argv)} :
          /\ opts' = [opts EXCEPT ![r] = o]
          /\ pc' = [pc EXCEPT ![r] = "front"]
          /\ ending' = [ending EXCEPT ![r] = IF o.end \in {"answered", "died"} THEN o.end ELSE None]
    /\ met' = [q \in Runs |-> IF q = r THEN {p \in Runs : UnderWay(p)}
                              ELSE IF UnderWay(q) THEN met[q] \cup {r} ELSE met[q]]
    /\ UNCHANGED <<file, fails, made>>

(* Reading, checking and emitting: errors end the run.                     *)
Translate(r) ==
    /\ At(r, "front")
    /\ \/ End(r, "died")
       \/ opts[r].hot /\ End(r, "hot")
       \/ ~opts[r].hot /\ opts[r].debug /\ End(r, "printed")
       \/ /\ ~opts[r].hot /\ ~opts[r].debug
          /\ IF opts[r].compile # None THEN Goto(r, "find")
             ELSE IF opts[r].output # None THEN Goto(r, "open") ELSE End(r, "printed")
    /\ UNCHANGED <<file, opts, fails, made, met>>

(* find_cc                                                                 *)
FindCompiler(r) ==
    /\ At(r, "find")
    /\ IF Path = {} THEN End(r, "died") ELSE Goto(r, "open")
    /\ UNCHANGED <<file, opts, fails, made, met>>

(* Mutant: the C file is opened to append.                                 *)
OpenToAppend(r) ==
    /\ At(r, "open")
    /\ \/ /\ file' = IF file[CFile(opts[r])] = None THEN [file EXCEPT ![CFile(opts[r])] = Empty] ELSE file
          /\ Goto(r, IF file[CFile(opts[r])] = None THEN "write"
                     ELSE IF opts[r].compile = None THEN "done" ELSE "compile")
       \/ UNCHANGED file /\ End(r, "died")
    /\ UNCHANGED <<opts, fails, made, met>>

(* write_file: fopen empties the file, or fails; fclose puts the text in.  *)
Open(r) ==
    /\ At(r, "open")
    /\ \/ file' = [file EXCEPT ![CFile(opts[r])] = Empty] /\ Goto(r, "write")
       \/ UNCHANGED file /\ End(r, "died")
    /\ UNCHANGED <<opts, fails, made, met>>

Write(r) ==
    /\ At(r, "write")
    /\ file' = [file EXCEPT ![CFile(opts[r])] = CText(r)]
    /\ IF opts[r].compile = None THEN End(r, "written") ELSE Goto(r, "compile")
    /\ UNCHANGED <<opts, fails, made, met>>

(* The compiler reads the C file: it needs a text and a name it knows.  A  *)
(* tigc that find_cc has found does not understand the command.            *)
Compilable(f) == f \in {TmpC} \cup CNames \cup HNames
Compile(r) ==
    /\ At(r, "compile")
    /\ \E f \in {CFile(opts[r])} :
          IF Path # {"tigc"} /\ Compilable(f) /\ file[f] # None /\ file[f].kind = "c"
          THEN made' = [made EXCEPT ![r] = file[f].of] /\ Goto(r, "link") /\ UNCHANGED fails
          ELSE fails' = [fails EXCEPT ![r] = TRUE] /\ Goto(r, "remove") /\ UNCHANGED made
    /\ UNCHANGED <<file, opts, met>>

(* It writes the program (of a header, one that is precompiled), or says   *)
(* what is wrong with the text.                                            *)
Link(r) ==
    /\ At(r, "link")
    /\ \/ file' = [file EXCEPT ![opts[r].compile] = Product(made[r])] /\ UNCHANGED fails
       \/ fails' = [fails EXCEPT ![r] = TRUE] /\ UNCHANGED file
    /\ Goto(r, "remove")
    /\ UNCHANGED <<opts, made, met>>

(* Mutant: a run that fails ends before it removes its file.               *)
RemoveOnSuccess(r) ==
    /\ At(r, "remove")
    /\ file' = IF opts[r].output = None /\ ~opts[r].keep /\ ~fails[r] THEN [file EXCEPT ![TmpC] = None] ELSE file
    /\ Goto(r, "done")
    /\ UNCHANGED <<opts, fails, made, met>>

(* Mutant: -o alone does not keep the file.                                *)
RemoveUnlessKept(r) ==
    /\ At(r, "remove")
    /\ file' = IF ~opts[r].keep THEN [file EXCEPT ![CFile(opts[r])] = None] ELSE file
    /\ Goto(r, "done")
    /\ UNCHANGED <<opts, fails, made, met>>

(* The temporary file is removed, also after an error.                     *)
RemoveTemp(r) ==
    /\ At(r, "remove")
    /\ file' = IF opts[r].output = None /\ ~opts[r].keep THEN [file EXCEPT ![TmpC] = None] ELSE file
    /\ Goto(r, "done")
    /\ UNCHANGED <<opts, fails, made, met>>

Conclude(r) ==
    /\ At(r, "done")
    /\ End(r, IF fails[r] THEN "died" ELSE "compiled")
    /\ UNCHANGED <<file, opts, fails, made, met>>

Kill(r) == UnderWay(r) /\ End(r, "killed") /\ UNCHANGED <<file, opts, fails, made, met>>

Next == \E r \in Runs : \/ Start(r) \/ Translate(r) \/ FindCompiler(r) \/ Open(r) \/ Write(r)
                        \/ Compile(r) \/ Link(r) \/ RemoveTemp(r) \/ Conclude(r) \/ Kill(r)

Spec == Init /\ [][Next]_vars
-----------------------------------------------------------------------------
(* Runs that go through the same C file at the same time.                  *)
Clash(r, q) == /\ q \in met[r] /\ CFile(opts[q]) = CFile(opts[r])
               /\ opts[q].compile # None \/ opts[q].output # None

(* A run that says "compiled" has made its own program, whatever other     *)
(* runs and earlier ones have left behind, unless another one has gone     *)
(* through the same C file meanwhile: always so without -o.                *)
OwnProgram == \A r \in Runs : ending[r] = "compiled" /\ made[r] # r => \E q \in Runs : Clash(r, q)

(* Once all runs have ended, failed builds included, the temporary file is *)
(* gone, unless one was killed, kept it with -t or named it with -o.       *)
NothingLeft ==
    /\ \A r \in Runs : ~UnderWay(r)
    /\ \A r \in Runs : ending[r] # "killed" /\ ~opts[r].keep /\ TmpC \notin {opts[r].output, opts[r].compile}
    => file[TmpC] = None

(* A file named with -o outlives the run that wrote it, and has the C of   *)
(* the runs that name it: no run removes or changes the file of another,   *)
(* but one that gives the same name to its program.                        *)
OutputKept ==
    \A r \in Runs, f \in Files \ {TmpC} :
       /\ ending[r] \in {"written", "compiled"} /\ opts[r].output = f
       /\ \A q \in Runs : opts[q].compile # f
       => \/ \E q \in Runs : file[f] = CText(q) /\ opts[q].output = f
          \/ file[f] = Empty /\ \E q \in Runs : /\ pc[q] = "write" /\ opts[q].output = f
                                                /\ ending[q] \in {None, "killed"}
=============================================================================

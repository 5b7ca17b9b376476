------------------------------ MODULE HotReload ------------------------------
(***************************************************************************)
(* Hot reload: `tigc` builds a host executable and a hot library           *)
(* lib_<v>.so; a later `tigc -H lib --hot` rebuilds only the library under *)
(* the next version number, and the running host, in the stub of every     *)
(* function, polls lib.version and swaps the library.                      *)
(*                                                                         *)
(* Builders are separate runs of tigc (compiler/src/main.c); the host is   *)
(* the C program emit_hot_split writes (compiler/src/emitter.c).  They     *)
(* share nothing but the directory: lib.version, lib.c and the lib_<v>.so  *)
(* files.  Each file-system call is one atomic step.                       *)
(***************************************************************************)
EXTENDS Integers, FiniteSets

CONSTANTS
    Builders,     \* runs of tigc; each is started at most once
    Fns,          \* the functions the host has a stub for
    Exports,      \* Exports[b]: those defined in the source builder b compiles
    MaxVersion,   \* bound on version numbers
    MaxReckless,  \* bound: which run is the last one that may be started without
                  \* care (careful)
    None          \* NULL, and "no such file"

ASSUME ConstAssumption ==
    /\ Exports \in [Builders -> SUBSET Fns]
    /\ MaxVersion \in Nat \ {0}
    /\ MaxReckless \in Nat
    /\ None \notin Builders \cup Fns

VARIABLES
    vfile,    \* lib.version: its number, Empty (truncated) or Missing
    hotc,     \* lib.c: the builder whose source it holds, or None
    lib,      \* lib[v]: the file lib_<v>.so
    app,      \* the host executable exists
    bpc, mode, bver, bsrc,             \* builders: control, command, version, source
    careful,  \* so far no two runs of tigc overlapped, none was killed, and a
              \* full build was not repeated once the program existed (history)
    hpc, calling, hver, cur, old, handle, bound  \* the host process

bvars == <<bpc, mode, bver, bsrc, careful>>
dir   == <<vfile, hotc, lib, app>>
hvars == <<hpc, calling, hver, cur, old, handle, bound>>
vars  == <<dir, bvars, hvars>>

Missing  == -1
Empty    == 0
Versions == 1..MaxVersion

\* A library file: the builder writing it, the source it was compiled from, and
\* whether the linker has finished it.
LibFile == [by : Builders, src : Builders, whole : BOOLEAN]

\* A library mapped into the host.
Image == [ver : Versions, src : Builders]

ASSUME NoneAssumption == None \notin LibFile \cup Image

Running(b) == bpc[b] \notin {"idle", "done", "failed"}
Quiet      == \A b \in Builders : ~Running(b)

Loadable(v) == lib[v] # None /\ lib[v].whole

TypeOK ==
    /\ vfile \in {Missing, Empty} \cup Versions
    /\ hotc \in Builders \cup {None}
    /\ lib \in [Versions -> LibFile \cup {None}]
    /\ app \in BOOLEAN
    /\ bpc \in [Builders -> {"idle", "read", "truncate", "write", "compile",
                             "link", "host", "finish", "done", "failed"}]
    /\ mode \in [Builders -> {"full", "hot"}]
    /\ bver \in [Builders -> Versions]
    /\ bsrc \in [Builders -> Builders]
    /\ careful \in BOOLEAN
    /\ hpc \in {"down", "main", "check", "unload", "load", "remove", "bind",
                "call", "fault"}
    /\ calling \in Fns \cup {None}
    /\ hver \in Versions
    /\ cur \in {0} \cup Versions
    /\ old \in {0} \cup Versions
    /\ handle \in Image \cup {None}
    /\ bound \in [Fns -> Image \cup {None}]

Init ==
    /\ vfile = Missing
    /\ hotc = None
    /\ lib = [v \in Versions |-> None]
    /\ app = FALSE
    /\ bpc = [b \in Builders |-> "idle"]
    /\ mode = [b \in Builders |-> "full"]
    /\ bver = [b \in Builders |-> 1]
    /\ bsrc = [b \in Builders |-> b]
    /\ careful = TRUE
    /\ hpc = "down" /\ calling = None
    /\ hver = 1 /\ cur = 0 /\ old = 0
    /\ handle = None
    /\ bound = [f \in Fns |-> None]

-----------------------------------------------------------------------------
(* The builder: one run of tigc. *)

Goto(b, l) == bpc' = [bpc EXCEPT ![b] = l]

\* `tigc -c app -H lib` (full) or `tigc -H lib --hot` (hot) emits lib.c.  The
\* full build takes version 1 without looking at lib.version.
StartBuild(b, m) ==
    /\ bpc[b] = "idle"
    /\ careful' = (careful /\ Quiet /\ (m = "full") = ~app)
    /\ careful' \/ Cardinality({c \in Builders : bpc[c] # "idle"}) < MaxReckless
    /\ mode' = [mode EXCEPT ![b] = m]
    /\ hotc' = b
    /\ bver' = [bver EXCEPT ![b] = 1]
    /\ Goto(b, IF m = "hot" THEN "read" ELSE "truncate")
    /\ UNCHANGED <<vfile, lib, app, bsrc, hvars>>

\* Mutant: the rebuild keeps the number it read.
NextVersionSame == IF vfile \in Versions THEN vfile ELSE 1

\* "Read current version from file, or start at 1": a file without a number
\* leaves the initial 1, which is then incremented.
NextVersion == CASE vfile = Missing -> 1
                 [] vfile = Empty   -> 2
                 [] OTHER           -> vfile + 1

ReadVersion(b) ==
    /\ bpc[b] = "read"
    /\ NextVersion <= MaxVersion
    /\ bver' = [bver EXCEPT ![b] = NextVersion]
    /\ Goto(b, "truncate")
    /\ UNCHANGED <<dir, mode, bsrc, careful, hvars>>

\* fopen(version_file, "w") empties the file; the number reaches it at fclose.
TruncateVersion(b) ==
    /\ bpc[b] = "truncate"
    /\ vfile' = Empty
    /\ Goto(b, "write")
    /\ UNCHANGED <<hotc, lib, app, mode, bver, bsrc, careful, hvars>>

WriteVersion(b) ==
    /\ bpc[b] = "write"
    /\ vfile' = bver[b]
    /\ Goto(b, "compile")
    /\ UNCHANGED <<hotc, lib, app, mode, bver, bsrc, careful, hvars>>

\* The C compiler reads lib.c, then the linker replaces its output file by a
\* new one that it fills.
Compile(b) ==
    /\ bpc[b] = "compile"
    /\ hotc # None
    /\ bsrc' = [bsrc EXCEPT ![b] = hotc]
    /\ lib' = [lib EXCEPT ![bver[b]] = [by |-> b, src |-> hotc, whole |-> FALSE]]
    /\ Goto(b, "link")
    /\ UNCHANGED <<vfile, hotc, app, mode, bver, careful, hvars>>

\* The compiler rejects the source, or lib.c is gone: die().
CompileFails(b) ==
    /\ bpc[b] = "compile"
    /\ Goto(b, "failed")
    /\ UNCHANGED <<dir, mode, bver, bsrc, careful, hvars>>

\* The linker completes its file, which another run or the host may have
\* removed from the directory meanwhile.
Link(b) ==
    /\ bpc[b] = "link"
    /\ LET v == bver[b]
       IN  lib' = IF lib[v] # None /\ lib[v].by = b
                    THEN [lib EXCEPT ![v] = [@ EXCEPT !.whole = TRUE]]
                    ELSE lib
    /\ Goto(b, IF mode[b] = "full" THEN "host" ELSE "finish")
    /\ UNCHANGED <<vfile, hotc, app, mode, bver, bsrc, careful, hvars>>

\* A full build compiles the host executable last; that may fail too (on Linux
\* it does unless someone has linked lib<lib>_1.so to <lib>_1.so, main.c:742).
BuildHost(b) ==
    /\ bpc[b] = "host"
    /\ \/ app' = TRUE /\ Goto(b, "finish")
       \/ app' = app  /\ Goto(b, "failed")
    /\ UNCHANGED <<vfile, hotc, lib, mode, bver, bsrc, careful, hvars>>

\* The temporary lib.c is removed, unless -t (or, in a full build, -o) keeps it.
Finish(b) ==
    /\ bpc[b] = "finish"
    /\ hotc' \in {hotc, None}
    /\ Goto(b, "done")
    /\ UNCHANGED <<vfile, lib, app, mode, bver, bsrc, careful, hvars>>

\* The developer interrupts tigc.
KillBuild(b) ==
    /\ Running(b)
    /\ careful' = FALSE
    /\ Goto(b, "failed")
    /\ UNCHANGED <<dir, mode, bver, bsrc, hvars>>

BuildStep(b) == \/ ReadVersion(b) \/ TruncateVersion(b) \/ WriteVersion(b)
                \/ Compile(b) \/ CompileFails(b) \/ Link(b)
                \/ BuildHost(b) \/ Finish(b)

-----------------------------------------------------------------------------
(* The host: main calls stubs; a stub runs reload_check, then hot_<f>. *)

\* main() starts with load_hot_functions(get_version()).
HostStart ==
    /\ hpc = "down" /\ app
    /\ hpc' = "check" /\ calling' = None
    /\ cur' = 0 /\ old' = 0 /\ handle' = None
    /\ bound' = [f \in Fns |-> None]
    /\ UNCHANGED <<dir, bvars, hver>>

\* Mutant: a stub without reload_check.
CallStubUnchecked(f) ==
    /\ hpc = "main"
    /\ hpc' = "call" /\ calling' = f
    /\ UNCHANGED <<dir, bvars, hver, cur, old, handle, bound>>

\* main calls the stub of f.
CallStub(f) ==
    /\ hpc = "main"
    /\ hpc' = "check" /\ calling' = f
    /\ UNCHANGED <<dir, bvars, hver, cur, old, handle, bound>>

\* Where load_hot_functions returns to.
Return == IF calling = None THEN "main" ELSE "call"

\* get_version: 1 unless a number can be read.
FileVersion == IF vfile \in Versions THEN vfile ELSE 1

GetVersion ==
    /\ hpc = "check"
    /\ hver' = FileVersion
    /\ hpc' = IF FileVersion = cur THEN Return ELSE "unload"
    /\ UNCHANGED <<dir, bvars, calling, cur, old, handle, bound>>

\* current_version is set, and the old library closed, before anything is known
\* of the new one.
Unload ==
    /\ hpc = "unload"
    /\ old' = cur /\ cur' = hver
    /\ handle' = None
    /\ hpc' = "load"
    /\ UNCHANGED <<dir, bvars, calling, hver, bound>>

\* Mutant: load_hot_functions returns after dlopen whether or not it succeeded.
LoadAlwaysReturns ==
    /\ hpc = "load"
    /\ handle' = IF Loadable(cur) THEN [ver |-> cur, src |-> lib[cur].src] ELSE None
    /\ hpc' = Return
    /\ UNCHANGED <<dir, bvars, calling, hver, cur, old, bound>>

\* dlopen("./lib_<v>.so"); on failure load_hot_functions returns.
Load ==
    /\ hpc = "load"
    /\ IF Loadable(cur)
         THEN handle' = [ver |-> cur, src |-> lib[cur].src] /\ hpc' = "remove"
         ELSE handle' = None /\ hpc' = Return
    /\ UNCHANGED <<dir, bvars, calling, hver, cur, old, bound>>

\* Mutant: the new library's file is removed instead of the old one's.
RemoveNew ==
    /\ hpc = "remove"
    /\ lib' = IF old > 0 THEN [lib EXCEPT ![cur] = None] ELSE lib
    /\ hpc' = "bind"
    /\ UNCHANGED <<vfile, hotc, app, bvars, calling, hver, cur, old, handle, bound>>

RemoveOld ==
    /\ hpc = "remove"
    /\ lib' = IF old > 0 THEN [lib EXCEPT ![old] = None] ELSE lib
    /\ hpc' = "bind"
    /\ UNCHANGED <<vfile, hotc, app, bvars, calling, hver, cur, old, handle, bound>>

\* dlsym of a name in an image: NULL when the image does not define it.
DlSym(img, f) == IF f \in Exports[img.src] THEN img ELSE None

Bind ==
    /\ hpc = "bind"
    /\ bound' = [f \in Fns |-> DlSym(handle, f)]
    /\ hpc' = Return
    /\ UNCHANGED <<dir, bvars, calling, hver, cur, old, handle>>

\* The stub calls hot_<f>.  A null pointer faults; a pointer into a closed
\* library faults, or runs the old code where the closed library is still mapped.
Invoke ==
    /\ hpc = "call"
    /\ \/ bound[calling] # None /\ hpc' = "main"
       \/ /\ bound[calling] = None \/ bound[calling] # handle
          /\ hpc' = "fault"
    /\ UNCHANGED <<dir, bvars, calling, hver, cur, old, handle, bound>>

\* The process ends, at any point; it may be started again.
HostExit ==
    /\ hpc # "down"
    /\ hpc' = "down"
    /\ UNCHANGED <<dir, bvars, calling, hver, cur, old, handle, bound>>

HostStep == \/ \E f \in Fns : CallStub(f)
            \/ GetVersion \/ Unload \/ Load \/ RemoveOld \/ Bind \/ Invoke

Next == \/ \E b \in Builders : \/ \E m \in {"full", "hot"} : StartBuild(b, m)
                               \/ BuildStep(b)
                               \/ KillBuild(b)
        \/ HostStart
        \/ HostStep
        \/ HostExit

Spec == Init /\ [][Next]_vars

\* A started process runs on; the developer need not start anything.
Fairness == WF_vars(HostStep) /\ \A b \in Builders : WF_vars(BuildStep(b))

FairSpec == Spec /\ Fairness
-----------------------------------------------------------------------------
(* Properties. *)

Settled == hpc \in {"main", "check", "unload", "call", "fault"}

\* Whenever the host is not in the middle of a reload and a library is mapped,
\* that library is the one current_version names, and every hot_<f> is the
\* symbol of f in it: no swap leaves some stubs on one version and some on another.
StubsMatchLibrary ==
    Settled /\ handle # None =>
        /\ handle.ver = cur
        /\ \A f \in Fns : bound[f] = DlSym(handle, f)

\* The host never faults in a stub unless the last dlopen failed or the rebuilt
\* source no longer defines the called function.
FaultExplained ==
    hpc = "fault" => \/ handle = None
                     \/ calling \notin Exports[handle.src]

\* tests/HOTSWAPPING/README.md:22 "Recompiled versions generate uniquely-named
\* files to prevent file locking": no run of the compiler writes the library
\* file that the running host has mapped, if the developer has been careful.
NeverWritesMappedLibrary ==
    \A b \in Builders :
        careful /\ mode[b] = "hot" /\ bpc[b] = "link" /\ hpc # "down" /\ handle # None
        => handle.ver # bver[b]

\* The clean-up of a reload never deletes the library lib.version now names,
\* though builders move lib.version on while the host is reloading.  (A full
\* build that is repeated takes number 1 again, which the host may be leaving.)
NeverDeletesPublished ==
    [][careful => \A v \in Versions : lib[v] # None /\ lib'[v] = None => vfile # v]_vars

\* Once no run of tigc is active, a complete library that lib.version names and
\* the host has not tried yet is mapped by the host, unless the host ends or
\* faults first, another run starts or the library is deleted, which the one
\* before says a careful developer never sees.
Published == vfile \in Versions /\ Loadable(vfile)

FreshBuildAwaits == /\ Quiet /\ hpc \notin {"down", "fault"}
                    /\ Published /\ cur # vfile

FreshBuildIsPickedUp ==
    FreshBuildAwaits ~> \/ /\ handle # None
                           /\ handle.ver = vfile
                        \/ hpc \in {"down", "fault"}
                        \/ ~Quiet
                        \/ ~Published
=============================================================================

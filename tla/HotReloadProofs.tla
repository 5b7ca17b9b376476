--------------------------- MODULE HotReloadProofs ---------------------------
(* Theorems of HotReload, for every set of builders and functions.            *)
EXTENDS HotReload, TLAPS

\* What a reload in progress has established: the version it loads is a number
\* (current_version is 0 only before the first load), and from dlopen to dlsym
\* the mapped library is that version.
ReloadInv ==
    /\ hpc \in {"load", "remove", "bind"} => cur \in Versions
    /\ hpc \in {"remove", "bind"} => handle # None /\ handle.ver = cur
    /\ hpc \in {"call", "fault"} => calling \in Fns

\* A step keeps every variable in its domain.
LEMMA TypeStep == TypeOK /\ ReloadInv /\ [Next]_vars => TypeOK'
<1> SUFFICES ASSUME TypeOK, ReloadInv, [Next]_vars PROVE TypeOK'
  OBVIOUS
<1> USE ConstAssumption DEF ConstAssumption, TypeOK, Goto, dir, bvars, hvars
<1>1. ASSUME NEW b \in Builders, NEW m \in {"full", "hot"}, StartBuild(b, m)
      PROVE  TypeOK'
  BY <1>1 DEF StartBuild, Versions
<1>2. ASSUME NEW b \in Builders, ReadVersion(b) PROVE TypeOK'
  <2>1. NextVersion \in Versions
    BY <1>2 DEF ReadVersion, NextVersion, Versions, Missing, Empty
  <2>2. QED BY <1>2, <2>1 DEF ReadVersion
<1>3. ASSUME NEW b \in Builders, TruncateVersion(b) PROVE TypeOK'
  BY <1>3 DEF TruncateVersion
<1>4. ASSUME NEW b \in Builders, WriteVersion(b) PROVE TypeOK'
  BY <1>4 DEF WriteVersion
<1>5. ASSUME NEW b \in Builders, Compile(b) PROVE TypeOK'
  BY <1>5 DEF Compile, LibFile
<1>6. ASSUME NEW b \in Builders, CompileFails(b) PROVE TypeOK'
  BY <1>6 DEF CompileFails
<1>7. ASSUME NEW b \in Builders, Link(b) PROVE TypeOK'
  <2>1. ASSUME lib[bver[b]] # None
        PROVE  [lib[bver[b]] EXCEPT !.whole = TRUE] \in LibFile
    BY <2>1 DEF LibFile
  <2>2. lib' \in [Versions -> LibFile \cup {None}]
    BY <1>7, <2>1 DEF Link
  <2>3. bpc' \in [Builders -> {"idle", "read", "truncate", "write", "compile",
                              "link", "host", "finish", "done", "failed"}]
    BY <1>7 DEF Link
  <2> HIDE DEF Goto
  <2>4. UNCHANGED <<vfile, hotc, app, mode, bver, bsrc, careful, hvars>>
    BY <1>7 DEF Link
  <2>5. QED BY <2>2, <2>3, <2>4
<1>8. ASSUME NEW b \in Builders, BuildHost(b) PROVE TypeOK'
  <2>1. CASE app' = TRUE /\ Goto(b, "finish")
    BY <1>8, <2>1 DEF BuildHost
  <2>2. CASE app' = app /\ Goto(b, "failed")
    BY <1>8, <2>2 DEF BuildHost
  <2>3. QED BY <1>8, <2>1, <2>2 DEF BuildHost
<1>9. ASSUME NEW b \in Builders, Finish(b) PROVE TypeOK'
  BY <1>9 DEF Finish
<1>10. ASSUME NEW b \in Builders, KillBuild(b) PROVE TypeOK'
  BY <1>10 DEF KillBuild
<1>11. CASE HostStart
  BY <1>11 DEF HostStart
<1>12. ASSUME NEW f \in Fns, CallStub(f) PROVE TypeOK'
  BY <1>12 DEF CallStub
<1>13. CASE GetVersion
  <2>1. FileVersion \in Versions
    BY DEF FileVersion, Versions
  <2>2. QED BY <1>13, <2>1 DEF GetVersion, Return
<1>14. CASE Unload
  BY <1>14 DEF Unload
<1>15. CASE Load
  <2>1. CASE Loadable(cur)
    <3>1. cur \in Versions
      BY <1>15 DEF Load, ReloadInv
    <3>2. lib[cur].src \in Builders
      BY <2>1, <3>1 DEF Loadable, LibFile
    <3>3. [ver |-> cur, src |-> lib[cur].src] \in Image
      BY <3>1, <3>2 DEF Image
    <3>4. QED BY <1>15, <2>1, <3>3 DEF Load
  <2>2. CASE ~Loadable(cur)
    BY <1>15, <2>2 DEF Load, Return
  <2>3. QED BY <1>15, <2>1, <2>2
<1>16. CASE RemoveOld
  BY <1>16 DEF RemoveOld
<1>17. CASE Bind
  BY <1>17 DEF Bind, DlSym, Return
<1>18. CASE Invoke
  BY <1>18 DEF Invoke
<1>19. CASE HostExit
  BY <1>19 DEF HostExit
<1>20. CASE UNCHANGED vars
  BY <1>20 DEF vars
<1> HIDE DEF TypeOK
<1>21. QED
  BY <1>1, <1>2, <1>3, <1>4, <1>5, <1>6, <1>7, <1>8, <1>9, <1>10, <1>11, <1>12,
     <1>13, <1>14, <1>15, <1>16, <1>17, <1>18, <1>19, <1>20
     DEF Next, BuildStep, HostStep

\* A step keeps ReloadInv, StubsMatchLibrary and FaultExplained: the table of
\* stubs is only ever rebuilt as a whole, from the library just opened.
LEMMA BindingStep ==
    TypeOK /\ ReloadInv /\ StubsMatchLibrary /\ FaultExplained /\ [Next]_vars
      => (ReloadInv /\ StubsMatchLibrary /\ FaultExplained)'
<1> SUFFICES ASSUME TypeOK, ReloadInv, StubsMatchLibrary, FaultExplained, [Next]_vars
             PROVE  (ReloadInv /\ StubsMatchLibrary /\ FaultExplained)'
  OBVIOUS
<1> USE DEF ReloadInv, StubsMatchLibrary, FaultExplained, Settled, DlSym
<1>1. CASE UNCHANGED hvars
  BY <1>1 DEF hvars
<1>2. CASE HostStart
  BY <1>2 DEF HostStart
<1>3. ASSUME NEW f \in Fns, CallStub(f)
      PROVE  (ReloadInv /\ StubsMatchLibrary /\ FaultExplained)'
  BY <1>3 DEF CallStub
<1>4. CASE GetVersion
  BY <1>4 DEF GetVersion, Return, TypeOK
<1>5. CASE Unload
  BY <1>5 DEF Unload, TypeOK
<1>6. CASE Load
  <2>1. CASE Loadable(cur)
    <3>1. /\ handle' = [ver |-> cur, src |-> lib[cur].src] /\ hpc' = "remove"
          /\ UNCHANGED <<cur, calling, bound>>
      BY <1>6, <2>1 DEF Load
    <3>2. handle' # None
      <4>1. cur \in Versions
        BY <1>6 DEF Load
      <4>2. lib[cur].src \in Builders
        BY <2>1, <4>1 DEF Loadable, TypeOK, LibFile
      <4>3. QED BY <3>1, <4>1, <4>2, NoneAssumption DEF NoneAssumption, Image
    <3>3. cur' \in Versions /\ handle'.ver = cur'
      BY <1>6, <3>1 DEF Load
    <3>4. QED BY <3>1, <3>2, <3>3
  <2>2. CASE ~Loadable(cur)
    BY <1>6, <2>2 DEF Load, Return, TypeOK
  <2>3. QED BY <2>1, <2>2
<1>7. CASE RemoveOld
  BY <1>7 DEF RemoveOld
<1>8. CASE Bind
  BY <1>8 DEF Bind, Return, TypeOK
<1>9. CASE Invoke
  <2>1. CASE hpc' = "main"
    BY <1>9, <2>1 DEF Invoke
  <2>2. CASE hpc' = "fault"
    <3>1. /\ bound[calling] = None \/ bound[calling] # handle
          /\ hpc = "call" /\ calling \in Fns
      BY <1>9, <2>2 DEF Invoke
    <3>2. handle # None => calling \notin Exports[handle.src]
      BY <3>1
    <3>3. QED BY <1>9, <2>2, <3>1, <3>2 DEF Invoke
  <2>3. QED BY <1>9, <2>1, <2>2 DEF Invoke
<1>10. CASE HostExit
  BY <1>10 DEF HostExit
<1>11. ASSUME NEW b \in Builders,
              (\E m \in {"full", "hot"} : StartBuild(b, m)) \/ BuildStep(b) \/ KillBuild(b)
       PROVE  UNCHANGED hvars
  BY <1>11 DEF StartBuild, BuildStep, KillBuild, ReadVersion, TruncateVersion,
     WriteVersion, Compile, CompileFails, Link, BuildHost, Finish
<1>12. CASE UNCHANGED vars
  BY <1>1, <1>12 DEF vars
<1>13. QED
  <2> HIDE DEF ReloadInv, StubsMatchLibrary, FaultExplained
  <2> QED BY <1>1, <1>2, <1>3, <1>4, <1>5, <1>6, <1>7, <1>8, <1>9, <1>10, <1>11, <1>12
          DEF Next, HostStep

\* The inductive invariant of the module.
IInv == TypeOK /\ ReloadInv /\ StubsMatchLibrary /\ FaultExplained

LEMMA Inductive == Spec => []IInv
<1>1. Init => IInv
  <2> SUFFICES ASSUME Init PROVE IInv
    OBVIOUS
  <2>1. TypeOK
    <3>1. 1 \in Versions
      BY ConstAssumption DEF ConstAssumption, Versions
    <3>2. QED BY <3>1 DEF Init, TypeOK
  <2>2. ReloadInv /\ StubsMatchLibrary /\ FaultExplained
    BY DEF Init, ReloadInv, StubsMatchLibrary, FaultExplained
  <2>3. QED BY <2>1, <2>2 DEF IInv
<1>2. IInv /\ [Next]_vars => IInv'
  BY TypeStep, BindingStep DEF IInv
<1>3. QED BY <1>1, <1>2, PTL DEF Spec

\* Every variable stays in its domain: in particular the host only ever handles
\* versions in 1..MaxVersion, whatever it reads while tigc rewrites lib.version.
THEOREM TypeCorrect == Spec => []TypeOK
BY Inductive, PTL DEF IInv

\* However builds and reloads interleave, a reload that succeeds leaves every
\* stub on the library it opened, and that library is current_version.
THEOREM StubsConsistent == Spec => []StubsMatchLibrary
BY Inductive, PTL DEF IInv

\* However builds and reloads interleave, a stub faults only after a failed
\* dlopen, or when the rebuilt source dropped the function.
THEOREM FaultsExplained == Spec => []FaultExplained
BY Inductive, PTL DEF IInv

-----------------------------------------------------------------------------
\* What holds while the developer is careful: one tigc at a time, no library
\* and nothing the host remembers is above the last version published.
Within(n) == /\ \A v \in Versions : lib[v] # None => v <= n
             /\ handle # None => handle.ver <= n
             /\ cur <= n /\ old <= n /\ hver <= n

Alone == \A b, c \in Builders : Running(b) /\ Running(c) => b = c

BeforeApp ==
    ~app => /\ hpc = "down" /\ cur = 0 /\ old = 0 /\ hver = 1 /\ handle = None
            /\ \A v \in Versions : lib[v] # None => v = 1
            /\ \A b \in Builders : /\ Running(b) => mode[b] = "full" /\ bver[b] = 1 /\ bpc[b] # "read"
                                   /\ bpc[b] \in {"compile", "link", "host"} => vfile = 1

\* A rebuild from its start to its end, by where it stands.
Stage(b) == /\ Running(b) => bpc[b] = "finish" \/ (mode[b] = "hot" /\ bpc[b] # "host")
            /\ bpc[b] = "truncate" => bver[b] = vfile + 1
            /\ bpc[b] = "write" => vfile = Empty /\ bver[b] > 1 /\ Within(bver[b] - 1)
            /\ bpc[b] \in {"compile", "link"} =>
                  /\ vfile = bver[b] /\ Within(bver[b])
                  /\ handle # None => handle.ver < bver[b]
                  /\ lib[bver[b]] # None => bpc[b] = "link" /\ ~lib[bver[b]].whole

AfterApp ==
    app => /\ \A b \in Builders : Stage(b)
           /\ (\A b \in Builders : bpc[b] \notin {"write", "compile", "link"})
                 => vfile \in Versions /\ Within(vfile)
           /\ hpc = "unload" => cur = 0 \/ cur # vfile
           /\ hpc \in {"load", "remove"} => old = 0 \/ old # vfile

CarefulInv == careful => Alone /\ BeforeApp /\ AfterApp

LEMMA WithinMore ==
    ASSUME TypeOK, NEW n \in Int, NEW m \in Int, n <= m, Within(n) PROVE Within(m)
BY DEF Within, TypeOK, Image, Versions

\* A step of a running builder b leaves the others at rest.
LEMMA OthersRest ==
    ASSUME TypeOK, Alone, NEW b \in Builders, Running(b), NEW l, Goto(b, l)
    PROVE  /\ Alone'
           /\ \A c \in Builders : c # b => ~Running(c) /\ bpc'[c] = bpc[c]
           /\ bpc'[b] = l
BY DEF TypeOK, Alone, Running, Goto

LEMMA RestStage ==
    ASSUME NEW c \in Builders, ~Running(c), bpc'[c] = bpc[c] PROVE Stage(c)'
BY DEF Stage, Running

\* While the developer is careful, only a running builder is at work, and the
\* next step keeps what is said of it.
LEMMA CarefulStep == TypeOK /\ ReloadInv /\ CarefulInv /\ [Next]_vars => CarefulInv'
<1> SUFFICES ASSUME TypeOK, ReloadInv, CarefulInv, [Next]_vars, careful'
             PROVE  (Alone /\ BeforeApp /\ AfterApp)'
  BY DEF CarefulInv
<1>0. careful /\ Alone /\ BeforeApp /\ AfterApp
  <2>1. careful
    BY DEF Next, vars, bvars, StartBuild, KillBuild, BuildStep, HostStep, ReadVersion,
       TruncateVersion, WriteVersion, Compile, CompileFails, Link, BuildHost, Finish,
       HostStart, CallStub, GetVersion, Unload, Load, RemoveOld, Bind, Invoke, HostExit
  <2>2. QED BY <2>1 DEF CarefulInv
<1>1. ASSUME NEW b \in Builders, NEW m \in {"full", "hot"}, StartBuild(b, m)
      PROVE  (Alone /\ BeforeApp /\ AfterApp)'
  <2>1. /\ Quiet /\ (m = "full") = ~app
        /\ bpc' = [bpc EXCEPT ![b] = IF m = "hot" THEN "read" ELSE "truncate"]
        /\ mode' = [mode EXCEPT ![b] = m] /\ bver' = [bver EXCEPT ![b] = 1]
        /\ UNCHANGED <<vfile, lib, app, hvars>>
    BY <1>1 DEF StartBuild, Goto
  <2>2. Alone'
    BY <2>1 DEF Alone, Quiet, Running, TypeOK
  <2>3. BeforeApp'
    BY <1>0, <2>1 DEF BeforeApp, Quiet, Running, TypeOK, hvars
  <2>4. AfterApp'
    BY <1>0, <2>1 DEF AfterApp, Stage, Within, Quiet, Running, TypeOK, hvars
  <2>5. QED BY <2>2, <2>3, <2>4
<1>2. ASSUME NEW b \in Builders, ReadVersion(b) PROVE (Alone /\ BeforeApp /\ AfterApp)'
  <2>1. /\ Running(b) /\ bpc[b] = "read" /\ Goto(b, "truncate")
        /\ bver' = [bver EXCEPT ![b] = NextVersion] /\ UNCHANGED <<dir, mode, hvars>>
    BY <1>2 DEF ReadVersion, Running
  <2>2. /\ Alone' /\ bpc'[b] = "truncate"
        /\ \A c \in Builders : c # b => ~Running(c) /\ bpc'[c] = bpc[c]
    BY <1>0, <2>1, OthersRest
  <2>3. app
    BY <1>0, <2>1 DEF BeforeApp
  <2>4. vfile \in Versions /\ Within(vfile) /\ NextVersion = vfile + 1
    BY <1>0, <2>1, <2>2, <2>3 DEF AfterApp, NextVersion, Versions, Missing, Empty, Running
  <2>5. BeforeApp'
    BY <2>1, <2>3 DEF BeforeApp, dir
  <2>6. AfterApp'
    BY <1>0, <2>1, <2>2, <2>3, <2>4 DEF AfterApp, Stage, Within, Running, TypeOK, dir, hvars
  <2>7. QED BY <2>2, <2>5, <2>6
<1>3. ASSUME NEW b \in Builders, TruncateVersion(b) PROVE (Alone /\ BeforeApp /\ AfterApp)'
  <2>1. /\ Running(b) /\ bpc[b] = "truncate" /\ Goto(b, "write") /\ vfile' = Empty
        /\ UNCHANGED <<lib, app, mode, bver, hvars>>
    BY <1>3 DEF TruncateVersion, Running
  <2>2. /\ Alone' /\ bpc'[b] = "write"
        /\ \A c \in Builders : c # b => ~Running(c) /\ bpc'[c] = bpc[c]
    BY <1>0, <2>1, OthersRest
  <2>3. BeforeApp'
    BY <1>0, <2>1, <2>2 DEF BeforeApp, Running, hvars
  <2>4. ASSUME app PROVE vfile \in Versions /\ Within(vfile) /\ bver[b] = vfile + 1
    BY <1>0, <2>1, <2>2, <2>4 DEF AfterApp, Stage, Running
  <2>5. AfterApp'
    <3> SUFFICES ASSUME app PROVE AfterApp'
      BY <2>1 DEF AfterApp
    <3>0. /\ bver[b] > 1 /\ Within(bver[b] - 1)
          /\ mode[b] = "hot"
      <4>1. vfile \in Int /\ vfile >= 1 /\ bver[b] - 1 = vfile
        BY <2>4 DEF Versions
      <4>2. mode[b] = "hot"
        BY <1>0, <2>1 DEF AfterApp, Stage
      <4>3. QED BY <2>4, <4>1, <4>2
    <3>1. Stage(b)'
      BY <2>1, <2>2, <3>0 DEF Stage, Within, hvars
    <3>2. \A c \in Builders : Stage(c)'
      BY <2>2, <3>1, RestStage
    <3>3. QED BY <1>0, <2>1, <2>2, <3>2 DEF AfterApp, hvars, Empty
  <2>6. QED BY <2>2, <2>3, <2>5
<1>4. ASSUME NEW b \in Builders, WriteVersion(b) PROVE (Alone /\ BeforeApp /\ AfterApp)'
  <2>1. /\ Running(b) /\ bpc[b] = "write" /\ Goto(b, "compile") /\ vfile' = bver[b]
        /\ UNCHANGED <<lib, app, mode, bver, hvars>>
    BY <1>4 DEF WriteVersion, Running
  <2>2. /\ Alone' /\ bpc'[b] = "compile"
        /\ \A c \in Builders : c # b => ~Running(c) /\ bpc'[c] = bpc[c]
    BY <1>0, <2>1, OthersRest
  <2>3. BeforeApp'
    BY <1>0, <2>1, <2>2 DEF BeforeApp, Running, hvars
  <2>4. AfterApp'
    <3> SUFFICES ASSUME app PROVE AfterApp'
      BY <2>1 DEF AfterApp
    <3>1. Within(bver[b] - 1) /\ bver[b] > 1 /\ mode[b] = "hot" /\ bver[b] \in Versions
      BY <1>0, <2>1 DEF AfterApp, Stage, Running, TypeOK
    <3>2. Within(bver[b])
      BY <3>1, WithinMore DEF Versions
    <3>3. lib[bver[b]] = None /\ (handle # None => handle.ver < bver[b])
          /\ cur # bver[b] /\ old # bver[b]
      BY <3>1 DEF Within, Versions, TypeOK, Image
    <3>4. Stage(b)'
      BY <2>1, <2>2, <3>1, <3>2, <3>3 DEF Stage, Within, hvars
    <3>5. \A c \in Builders : Stage(c)'
      BY <2>2, <3>4, RestStage
    <3>6. QED BY <2>1, <2>2, <3>3, <3>5 DEF AfterApp, hvars
  <2>5. QED BY <2>2, <2>3, <2>4
<1>5. ASSUME NEW b \in Builders, Compile(b) PROVE (Alone /\ BeforeApp /\ AfterApp)'
  <2>1. /\ Running(b) /\ bpc[b] = "compile" /\ Goto(b, "link")
        /\ lib' = [lib EXCEPT ![bver[b]] = [by |-> b, src |-> hotc, whole |-> FALSE]]
        /\ UNCHANGED <<vfile, app, mode, bver, hvars>>
    BY <1>5 DEF Compile, Running
  <2>2. /\ Alone' /\ bpc'[b] = "link"
        /\ \A c \in Builders : c # b => ~Running(c) /\ bpc'[c] = bpc[c]
    BY <1>0, <2>1, OthersRest
  <2>3. BeforeApp'
    BY <1>0, <2>1, <2>2 DEF BeforeApp, Running, TypeOK, hvars
  <2>4. AfterApp'
    <3> SUFFICES ASSUME app PROVE AfterApp'
      BY <2>1 DEF AfterApp
    <3>1. /\ vfile = bver[b] /\ Within(bver[b]) /\ mode[b] = "hot" /\ bver[b] \in Versions
          /\ handle # None => handle.ver < bver[b]
      BY <1>0, <2>1 DEF AfterApp, Stage, Running, TypeOK
    <3>2. Within(bver[b])' /\ ~lib'[bver[b]].whole
      BY <2>1, <3>1 DEF Within, TypeOK, Versions, hvars
    <3>3. Stage(b)'
      BY <2>1, <2>2, <3>1, <3>2 DEF Stage, hvars
    <3>4. \A c \in Builders : Stage(c)'
      BY <2>2, <3>3, RestStage
    <3>5. QED BY <1>0, <2>1, <2>2, <3>4 DEF AfterApp, hvars
  <2>5. QED BY <2>2, <2>3, <2>4
<1>6. ASSUME NEW b \in Builders, CompileFails(b) PROVE (Alone /\ BeforeApp /\ AfterApp)'
  <2>1. /\ Running(b) /\ bpc[b] = "compile" /\ Goto(b, "failed")
        /\ UNCHANGED <<dir, mode, bver, hvars>>
    BY <1>6 DEF CompileFails, Running
  <2>2. /\ Alone' /\ bpc'[b] = "failed"
        /\ \A c \in Builders : c # b => ~Running(c) /\ bpc'[c] = bpc[c]
    BY <1>0, <2>1, OthersRest
  <2>3. BeforeApp'
    BY <1>0, <2>1, <2>2 DEF BeforeApp, Running, dir, hvars
  <2>4. AfterApp'
    <3> SUFFICES ASSUME app PROVE AfterApp'
      BY <2>1 DEF AfterApp, dir
    <3>1. vfile = bver[b] /\ Within(bver[b]) /\ bver[b] \in Versions
      BY <1>0, <2>1 DEF AfterApp, Stage, TypeOK
    <3>2. \A c \in Builders : Stage(c)'
      BY <2>2, RestStage DEF Stage, Running
    <3>3. QED BY <1>0, <2>1, <3>1, <3>2 DEF AfterApp, Within, dir, hvars
  <2>5. QED BY <2>2, <2>3, <2>4
<1>7. ASSUME NEW b \in Builders, Link(b) PROVE (Alone /\ BeforeApp /\ AfterApp)'
  <2>0. PICK l \in {"host", "finish"} : Goto(b, l) /\ (l = "host" <=> mode[b] = "full")
    BY <1>7 DEF Link
  <2>1. /\ Running(b) /\ bpc[b] = "link" /\ UNCHANGED <<vfile, app, mode, bver, hvars>>
        /\ \A v \in Versions : lib[v] = None => lib'[v] = None
    BY <1>7 DEF Link, Running, TypeOK
  <2>2. /\ Alone' /\ bpc'[b] = l
        /\ \A c \in Builders : c # b => ~Running(c) /\ bpc'[c] = bpc[c]
    BY <1>0, <2>0, <2>1, OthersRest
  <2>3. BeforeApp'
    BY <1>0, <2>0, <2>1, <2>2 DEF BeforeApp, Running, hvars
  <2>4. AfterApp'
    <3> SUFFICES ASSUME app PROVE AfterApp'
      BY <2>1 DEF AfterApp
    <3>1. vfile = bver[b] /\ Within(bver[b]) /\ mode[b] = "hot" /\ bver[b] \in Versions
      BY <1>0, <2>1 DEF AfterApp, Stage, Running, TypeOK
    <3>2. \A c \in Builders : Stage(c)'
      BY <2>0, <2>1, <2>2, <3>1, RestStage DEF Stage, Running
    <3>3. Within(vfile)'
      BY <2>1, <3>1 DEF Within, hvars
    <3>4. QED BY <1>0, <2>1, <3>1, <3>2, <3>3 DEF AfterApp, hvars
  <2>5. QED BY <2>2, <2>3, <2>4
<1>8. ASSUME NEW b \in Builders, BuildHost(b) PROVE (Alone /\ BeforeApp /\ AfterApp)'
  <2>0. PICK l \in {"finish", "failed"} : Goto(b, l) /\ app' = (IF l = "finish" THEN TRUE ELSE app)
    BY <1>8 DEF BuildHost
  <2>1. /\ Running(b) /\ bpc[b] = "host" /\ UNCHANGED <<vfile, lib, mode, bver, hvars>>
    BY <1>8 DEF BuildHost, Running
  <2>2. /\ Alone' /\ bpc'[b] = l
        /\ \A c \in Builders : c # b => ~Running(c) /\ bpc'[c] = bpc[c]
    BY <1>0, <2>0, <2>1, OthersRest
  <2>3. ~app
    BY <1>0, <2>1 DEF AfterApp, Stage
  <2>4. BeforeApp'
    BY <1>0, <2>0, <2>1, <2>2, <2>3 DEF BeforeApp, Running, hvars
  <2>5. AfterApp'
    <3>1. vfile = 1 /\ hpc = "down" /\ Within(1) /\ 1 \in Versions
      BY <1>0, <2>1, <2>3, ConstAssumption DEF BeforeApp, Within, Versions, ConstAssumption
    <3>2. \A c \in Builders : Stage(c)'
      BY <2>0, <2>2, RestStage DEF Stage, Running
    <3>3. QED BY <2>1, <3>1, <3>2 DEF AfterApp, Within, hvars
  <2>6. QED BY <2>2, <2>4, <2>5
<1>9. ASSUME NEW b \in Builders, Finish(b) PROVE (Alone /\ BeforeApp /\ AfterApp)'
  <2>1. /\ Running(b) /\ bpc[b] = "finish" /\ Goto(b, "done")
        /\ UNCHANGED <<vfile, lib, app, mode, bver, hvars>>
    BY <1>9 DEF Finish, Running
  <2>2. /\ Alone' /\ bpc'[b] = "done"
        /\ \A c \in Builders : c # b => ~Running(c) /\ bpc'[c] = bpc[c]
    BY <1>0, <2>1, OthersRest
  <2>3. BeforeApp'
    BY <1>0, <2>1, <2>2 DEF BeforeApp, Running, hvars
  <2>4. AfterApp'
    <3>1. \A c \in Builders : Stage(c)'
      BY <2>2, RestStage DEF Stage, Running
    <3>2. \A c \in Builders : bpc[c] \notin {"write", "compile", "link"}
      BY <2>1, <2>2 DEF Running
    <3>3. QED BY <1>0, <2>1, <3>1, <3>2 DEF AfterApp, Within, hvars
  <2>5. QED BY <2>2, <2>3, <2>4
<1>10. ASSUME NEW b \in Builders, KillBuild(b) PROVE (Alone /\ BeforeApp /\ AfterApp)'
  BY <1>10 DEF KillBuild
<1>11. CASE HostStart
  <2>1. /\ app /\ UNCHANGED <<dir, bvars, hver>>
        /\ hpc' = "check" /\ cur' = 0 /\ old' = 0 /\ handle' = None
    BY <1>11 DEF HostStart
  <2>2. Alone' /\ BeforeApp' /\ \A b \in Builders : Running(b)' = Running(b)
    BY <1>0, <2>1 DEF Alone, BeforeApp, Running, dir, bvars
  <2>3. ASSUME NEW n \in Nat, Within(n) PROVE Within(n)'
    BY <2>1, <2>3 DEF Within, dir
  <2>4. \A b \in Builders : Stage(b)'
    <3> SUFFICES ASSUME NEW b \in Builders PROVE Stage(b)'
      OBVIOUS
    <3>1. Stage(b) /\ bver[b] \in Nat /\ (bver[b] > 1 => bver[b] - 1 \in Nat)
      BY <1>0, <2>1 DEF AfterApp, TypeOK, Versions
    <3>2. QED BY <2>1, <2>2, <2>3, <3>1 DEF Stage, dir, bvars
  <2>5. vfile \in Versions /\ Within(vfile) => Within(vfile)'
    BY <2>1 DEF Within, Versions, dir
  <2>6. QED BY <1>0, <2>1, <2>2, <2>4, <2>5 DEF AfterApp, dir, bvars
<1>12. ASSUME NEW f \in Fns, CallStub(f) PROVE (Alone /\ BeforeApp /\ AfterApp)'
  <2>1. /\ hpc = "main" /\ hpc' = "check" /\ UNCHANGED <<dir, bvars, hver, cur, old, handle>>
    BY <1>12 DEF CallStub
  <2>2. QED BY <1>0, <2>1 DEF Alone, BeforeApp, AfterApp, Stage, Within, Running, dir, bvars
<1>13. CASE GetVersion
  <2>1. /\ hpc = "check" /\ hver' = FileVersion /\ UNCHANGED <<dir, bvars, cur, old, handle>>
        /\ hpc' \in {"main", "call"} \/ (hpc' = "unload" /\ FileVersion # cur)
    BY <1>13 DEF GetVersion, Return
  <2>2. app
    BY <1>0, <2>1 DEF BeforeApp
  <2>3. Alone' /\ BeforeApp' /\ \A b \in Builders : Running(b)' = Running(b)
    BY <1>0, <2>1, <2>2 DEF Alone, BeforeApp, Running, dir, bvars
  <2>4. FileVersion = IF vfile \in Versions THEN vfile ELSE 1
    BY DEF FileVersion
  <2>5. \A b \in Builders : Stage(b)'
    <3> SUFFICES ASSUME NEW b \in Builders PROVE Stage(b)'
      OBVIOUS
    <3>1. Stage(b) /\ bver[b] \in Versions
      BY <1>0, <2>2 DEF AfterApp, TypeOK
    <3>2. ASSUME bpc[b] = "write" PROVE Within(bver[b] - 1)'
      <4>1. bver[b] - 1 \in Int /\ 1 <= bver[b] - 1 /\ Within(bver[b] - 1) /\ hver' = 1
        BY <2>1, <2>4, <3>1, <3>2 DEF Stage, Versions, Empty
      <4>2. QED BY <2>1, <4>1 DEF Within, dir, bvars
    <3>3. ASSUME bpc[b] \in {"compile", "link"} PROVE Within(bver[b])'
      <4>1. bver[b] \in Int /\ Within(bver[b]) /\ hver' = bver[b]
        BY <2>1, <2>4, <3>1, <3>3 DEF Stage, Versions
      <4>2. QED BY <2>1, <4>1 DEF Within, dir, bvars
    <3>4. QED BY <2>1, <2>3, <3>1, <3>2, <3>3 DEF Stage, dir, bvars
  <2>6. vfile \in Versions /\ Within(vfile) => Within(vfile)'
    BY <2>1, <2>4 DEF Within, Versions, dir
  <2>7. hpc' = "unload" => cur = 0 \/ cur # vfile
    BY <2>1, <2>4 DEF TypeOK
  <2>8. QED BY <1>0, <2>1, <2>2, <2>3, <2>5, <2>6, <2>7 DEF AfterApp, dir, bvars
<1>14. CASE Unload
  <2>1. /\ hpc = "unload" /\ hpc' = "load" /\ old' = cur /\ cur' = hver /\ handle' = None
        /\ UNCHANGED <<dir, bvars, hver>>
    BY <1>14 DEF Unload
  <2>2. app
    BY <1>0, <2>1 DEF BeforeApp
  <2>3. Alone' /\ BeforeApp' /\ \A b \in Builders : Running(b)' = Running(b)
    BY <1>0, <2>1, <2>2 DEF Alone, BeforeApp, Running, dir, bvars
  <2>4. ASSUME NEW n, Within(n) PROVE Within(n)'
    BY <2>1, <2>4 DEF Within, dir
  <2>5. \A b \in Builders : Stage(b)'
    BY <1>0, <2>1, <2>2, <2>3, <2>4 DEF AfterApp, Stage, dir, bvars
  <2>6. Within(vfile) => Within(vfile)'
    BY <2>1 DEF Within, dir
  <2>7. QED BY <1>0, <2>1, <2>2, <2>3, <2>5, <2>6 DEF AfterApp, dir, bvars
<1>15. CASE Load
  <2>1. /\ hpc = "load" /\ hpc' \in {"remove", "main", "call"}
        /\ UNCHANGED <<dir, bvars, hver, cur, old>>
        /\ handle' = None \/ (Loadable(cur) /\ handle'.ver = cur)
    BY <1>15 DEF Load, Return
  <2>2. app /\ cur \in Versions
    BY <1>0, <2>1 DEF BeforeApp, ReloadInv
  <2>3. Alone' /\ BeforeApp' /\ \A b \in Builders : Running(b)' = Running(b)
    BY <1>0, <2>1, <2>2 DEF Alone, BeforeApp, Running, dir, bvars
  <2>4. ASSUME NEW n, Within(n) PROVE Within(n)'
    BY <2>1, <2>4 DEF Within, dir
  <2>5. \A b \in Builders : Stage(b)'
    <3> SUFFICES ASSUME NEW b \in Builders PROVE Stage(b)'
      OBVIOUS
    <3>1. Stage(b) /\ bver[b] \in Versions
      BY <1>0, <2>2 DEF AfterApp, TypeOK
    <3>2. ASSUME bpc[b] \in {"compile", "link"}, handle' # None PROVE handle'.ver < bver[b]
      <4>1. cur # bver[b] /\ cur <= bver[b] /\ handle'.ver = cur
        BY <2>1, <3>1, <3>2 DEF Stage, Loadable, Within
      <4>2. QED BY <2>2, <3>1, <4>1 DEF Versions
    <3>3. QED BY <2>1, <2>3, <2>4, <3>1, <3>2 DEF Stage, dir, bvars
  <2>6. Within(vfile) => Within(vfile)'
    BY <2>1 DEF Within, dir
  <2>7. QED BY <1>0, <2>1, <2>2, <2>3, <2>5, <2>6 DEF AfterApp, dir, bvars
<1>16. CASE RemoveOld
  <2>1. /\ hpc = "remove" /\ hpc' = "bind" /\ UNCHANGED <<vfile, app, bvars, hver, cur, old, handle>>
        /\ \A v \in Versions : lib'[v] # None => lib'[v] = lib[v]
    BY <1>16 DEF RemoveOld, TypeOK
  <2>2. app
    BY <1>0, <2>1 DEF BeforeApp
  <2>3. Alone' /\ BeforeApp' /\ \A b \in Builders : Running(b)' = Running(b)
    BY <1>0, <2>1, <2>2 DEF Alone, BeforeApp, Running, bvars
  <2>4. ASSUME NEW n, Within(n) PROVE Within(n)'
    BY <2>1, <2>4 DEF Within
  <2>5. \A b \in Builders : Stage(b)'
    <3> SUFFICES ASSUME NEW b \in Builders PROVE Stage(b)'
      OBVIOUS
    <3>1. Stage(b) /\ bver[b] \in Versions
      BY <1>0, <2>2 DEF AfterApp, TypeOK
    <3>2. QED BY <2>1, <2>3, <2>4, <3>1 DEF Stage, bvars
  <2>6. Within(vfile) => Within(vfile)'
    BY <2>1 DEF Within
  <2>7. QED BY <1>0, <2>1, <2>2, <2>3, <2>5, <2>6 DEF AfterApp, bvars
<1>17. ASSUME hpc' \notin {"unload", "load", "remove"}, hpc # "down",
              UNCHANGED <<dir, bvars, hver, cur, old, handle>>
       PROVE  (Alone /\ BeforeApp /\ AfterApp)'
  BY <1>0, <1>17 DEF Alone, BeforeApp, AfterApp, Stage, Within, Running, dir, bvars
<1>18. CASE UNCHANGED vars
  BY <1>0, <1>18 DEF vars, Alone, BeforeApp, AfterApp, Stage, Within, Running, dir, bvars, hvars
<1>19. ASSUME Bind \/ Invoke \/ HostExit
       PROVE  /\ hpc' \notin {"unload", "load", "remove"} /\ hpc # "down"
              /\ UNCHANGED <<dir, bvars, hver, cur, old, handle>>
  BY <1>19 DEF Bind, Invoke, HostExit, Return
<1>20. QED
  <2> HIDE DEF Alone, BeforeApp, AfterApp
  <2> QED BY <1>1, <1>2, <1>3, <1>4, <1>5, <1>6, <1>7, <1>8, <1>9, <1>10, <1>11, <1>12,
             <1>13, <1>14, <1>15, <1>16, <1>17, <1>18, <1>19
          DEF Next, BuildStep, HostStep

\* A step deletes a library only when the host removes its old one, which a
\* careful developer has not published again.
LEMMA DeletionStep ==
    TypeOK /\ CarefulInv /\ [Next]_vars /\ careful
      => \A v \in Versions : lib[v] # None /\ lib'[v] = None => vfile # v
<1> SUFFICES ASSUME TypeOK, CarefulInv, [Next]_vars, careful,
                    NEW v \in Versions, lib[v] # None, lib'[v] = None
             PROVE  vfile # v
  OBVIOUS
<1>1. CASE RemoveOld
  <2>1. hpc = "remove" /\ old = v
    BY <1>1 DEF RemoveOld, TypeOK
  <2>2. app
    BY <2>1 DEF CarefulInv, BeforeApp
  <2>3. QED BY <2>1, <2>2 DEF CarefulInv, AfterApp, Versions
<1>2. ASSUME NEW b \in Builders, Compile(b) PROVE FALSE
  <2>1. hotc \in Builders
    BY <1>2 DEF Compile, TypeOK
  <2>2. [by |-> b, src |-> hotc, whole |-> FALSE] \in LibFile
    BY <2>1 DEF LibFile
  <2>3. lib'[v] \in LibFile
    BY <1>2, <2>2 DEF Compile, TypeOK
  <2>4. QED BY <2>3, NoneAssumption DEF NoneAssumption
<1>3. ASSUME NEW b \in Builders, Link(b) PROVE FALSE
  <2>1. lib[v] \in LibFile /\ lib'[v] \in {lib[v], [lib[v] EXCEPT !.whole = TRUE]}
    BY <1>3 DEF Link, TypeOK
  <2>2. [lib[v] EXCEPT !.whole = TRUE] \in LibFile
    BY <2>1 DEF LibFile
  <2>3. QED BY <2>1, <2>2, NoneAssumption DEF NoneAssumption
<1>4. ASSUME UNCHANGED lib PROVE FALSE
  BY <1>4
<1>5. QED
  BY <1>1, <1>2, <1>3, <1>4
     DEF Next, vars, dir, StartBuild, KillBuild, BuildStep, HostStep, ReadVersion, TruncateVersion,
         WriteVersion, CompileFails, BuildHost, Finish, HostStart, CallStub, GetVersion, Unload,
         Load, Bind, Invoke, HostExit

LEMMA CarefulAlways == Spec => [](IInv /\ CarefulInv)
<1>1. Init => CarefulInv
  BY DEF Init, CarefulInv, Alone, BeforeApp, AfterApp, Running
<1>2. IInv /\ CarefulInv /\ [Next]_vars => CarefulInv'
  BY CarefulStep DEF IInv
<1>3. QED BY Inductive, <1>1, <1>2, PTL DEF Spec

\* Whoever runs one tigc at a time, lets it finish and does not repeat the full
\* build never has a rebuild write the library file the host has mapped, however
\* many versions and restarts there are.
THEOREM MappedUntouched == Spec => []NeverWritesMappedLibrary
<1>1. IInv /\ CarefulInv => NeverWritesMappedLibrary
  <2> SUFFICES ASSUME IInv, CarefulInv, NEW b \in Builders, careful, bpc[b] = "link",
                      hpc # "down", handle # None
               PROVE  handle.ver # bver[b]
    BY DEF NeverWritesMappedLibrary
  <2>1. app
    BY DEF CarefulInv, BeforeApp
  <2>2. handle.ver < bver[b] /\ bver[b] \in Int
    BY <2>1 DEF CarefulInv, AfterApp, Stage, IInv, TypeOK, Versions
  <2>3. handle.ver \in Int
    BY DEF IInv, TypeOK, Image, Versions
  <2>4. QED BY <2>2, <2>3
<1>2. QED BY <1>1, CarefulAlways, PTL

\* Nor does the host then delete the library that lib.version names.
THEOREM PublishedKept == Spec => NeverDeletesPublished
<1>1. IInv /\ CarefulInv /\ [Next]_vars
        => [careful => \A v \in Versions : lib[v] # None /\ lib'[v] = None => vfile # v]_vars
  BY DeletionStep DEF IInv
<1>2. QED BY <1>1, CarefulAlways, PTL DEF Spec, NeverDeletesPublished
=============================================================================

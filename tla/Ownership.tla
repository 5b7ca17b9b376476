----------------------------- MODULE Ownership -----------------------------
(***************************************************************************)
(* The ownership check of compiler/src/checker.c.  check_program walks the *)
(* functions once, in source order, with a stack of scopes; `@x` (give)    *)
(* marks the variable dead and a later access of it is error E010.         *)
(*                                                                         *)
(* A step is one statement of the program being compiled.  Beside what the *)
(* checker does (scopes, errors), each step says what one execution of the *)
(* function does that takes the branches chosen at each Open: which        *)
(* variables it has given away, and whether it then touched one.  The      *)
(* checker is right if an execution that does so belongs to a program it   *)
(* has rejected.                                                           *)
(***************************************************************************)
EXTENDS Integers, Sequences

CONSTANTS Variables,   \* the names a program declares
          Kinds,       \* the nested statements it uses
          MaxBlocks,   \* bound: nesting
          MaxVars,     \* bound: declarations
          MaxFns       \* bound: functions

AllKinds == {"if", "else", "block", "try", "catch", "loop", "defer"}
ASSUME KindsAssumption == Kinds \subseteq AllKinds
ASSUME BoundAssumption == MaxBlocks \in Nat /\ MaxVars \in Nat /\ MaxFns \in Nat

VARIABLES
    scopes,    \* ScopeStack: the global scope, then one per open block
    errors,    \* the codes reported
    fresh,     \* the next declaration's number
    fns,       \* functions begun
    blocks,    \* the open blocks of the function, its body first
    prev,      \* the block closed by the last step
    given,     \* the declarations the execution has given away
    misused,   \* it accessed what it had given away (history)
    gives      \* the declarations some `@` of the text names

checker   == <<scopes, errors, fresh>>
path      == <<given, misused>>
checkVars == <<checker, fns, blocks, prev, path, gives>>

Info  == [id : Nat, owned : BOOLEAN, dead : BOOLEAN]
None  == [id |-> -1, owned |-> FALSE, dead |-> FALSE]      \* a name not declared
Scope == [Variables -> Info \cup {None}]
Empty == [n \in Variables |-> None]
Codes == {"E010", "E011", "E014"}

(* runs: the execution is inside; entered: it was; threw: by a throw.      *)
Block   == [kind : AllKinds \cup {"fn"}, runs : BOOLEAN, entered : BOOLEAN, threw : BOOLEAN]
NoBlock == [kind |-> "none", runs |-> FALSE, entered |-> FALSE, threw |-> FALSE]

CheckInit == /\ scopes = <<Empty>>
             /\ errors = {}
             /\ fresh = 0 /\ fns = 0
             /\ blocks = <<>> /\ prev = NoBlock
             /\ given = {} /\ misused = FALSE
             /\ gives = {}
-----------------------------------------------------------------------------
(* get_var_info: the innermost scope that declares n.                      *)
DeclaredIn(n)   == {d \in 1..Len(scopes) : scopes[d][n] # None}
Innermost(n)    == CHOOSE d \in DeclaredIn(n) : \A e \in DeclaredIn(n) : e <= d
var_in_scope(n) == DeclaredIn(n) # {}

(* Mutant: the search starts at the global scope.                          *)
Outermost(n) == CHOOSE d \in DeclaredIn(n) : \A e \in DeclaredIn(n) : d <= e

ScopeOf(n) == Innermost(n)
get_var_info(n) == scopes[ScopeOf(n)][n]

(* The language's rule, stated without the search: a name means the open   *)
(* declaration of it that came last.                                       *)
Ids(n)     == {scopes[d][n].id : d \in DeclaredIn(n)}
Meaning(n) == CHOOSE i \in Ids(n) : \A j \in Ids(n) : j <= i

InFn  == blocks # <<>>
Top   == blocks[Len(blocks)]
OnPath  == InFn /\ Top.runs
InDefer == \E b \in 1..Len(blocks) : blocks[b].kind = "defer"

(* An execution that reaches an access of n.  The body of a defer runs     *)
(* later, at the end of the function; a loop is entered once.              *)
Access(n) == misused' = (misused \/ (OnPath /\ ~InDefer /\ Meaning(n) \in given))

(* check_expr, EX_NAME.                                                    *)
NameErrors(n) == IF ~var_in_scope(n) THEN {"E014"}
                 ELSE IF get_var_info(n).dead THEN {"E010"} ELSE {}

Use(n) == /\ InFn
          /\ errors' = errors \cup NameErrors(n)
          /\ IF var_in_scope(n) THEN Access(n) ELSE UNCHANGED misused
          /\ prev' = NoBlock
          /\ UNCHANGED <<scopes, fresh, fns, blocks, given, gives>>

(* Mutant: only the innermost scope is searched.                           *)
MarkInnermostOnly(n) ==
    scopes' = [scopes EXCEPT ![Len(scopes)][n].dead =
                 IF scopes[Len(scopes)][n] = None THEN FALSE ELSE TRUE]

(* mark_var_dead.                                                          *)
mark_var_dead(n) == scopes' = [scopes EXCEPT ![ScopeOf(n)][n].dead = TRUE]

(* check_expr, EX_UNARY with "@": the operand is checked as a name first.  *)
Give(n) ==
    /\ InFn /\ ~InDefer
    /\ errors' = errors \cup NameErrors(n) \cup
                 (IF var_in_scope(n) /\ ~get_var_info(n).owned THEN {"E011"} ELSE {})
    /\ IF var_in_scope(n)
       THEN /\ mark_var_dead(n)
            /\ Access(n)
            /\ given' = IF OnPath THEN given \cup {Meaning(n)} ELSE given
            /\ gives' = gives \cup {Meaning(n)}
       ELSE UNCHANGED <<scopes, misused, given, gives>>
    /\ prev' = NoBlock
    /\ UNCHANGED <<fresh, fns, blocks>>

(* declare_var, after the initializer (a Use).  A second declaration in    *)
(* one scope does not compile as C.  Globals come before every function.   *)
Declare(n, owned) ==
    /\ InFn \/ fns = 0
    /\ fresh < MaxVars
    /\ scopes[Len(scopes)][n] = None
    /\ scopes' = [scopes EXCEPT ![Len(scopes)][n] =
                    [id |-> fresh, owned |-> owned, dead |-> FALSE]]
    /\ fresh' = fresh + 1
    /\ prev' = NoBlock
    /\ UNCHANGED <<errors, fns, blocks, path, gives>>
-----------------------------------------------------------------------------
(* check_program: the next function starts from a copy of the global scope *)
(* (which shares its variables, so what a function gave stays dead).       *)
BeginFn ==
    /\ ~InFn /\ fns < MaxFns
    /\ fns' = fns + 1
    /\ scopes' = Append(scopes, Empty)
    /\ blocks' = <<[kind |-> "fn", runs |-> TRUE, entered |-> TRUE, threw |-> FALSE]>>
    /\ given' = {}
    /\ prev' = NoBlock
    /\ UNCHANGED <<errors, fresh, misused, gives>>

(* Whether the execution goes into a block: either way for a condition or  *)
(* a loop; never into both branches of an if; into the arms of a catch     *)
(* only by a throw.                                                        *)
Enters(k) == CASE k \in {"if", "loop"}            -> IF Top.runs THEN BOOLEAN ELSE {FALSE}
               [] k = "else"                      -> {Top.runs /\ ~prev.entered}
               [] k = "catch"                     -> {prev.threw}
               [] k \in {"block", "try", "defer"} -> {Top.runs}

Open(k) ==
    /\ InFn /\ Len(blocks) < MaxBlocks /\ ~InDefer
    /\ k = "else"  => prev.kind = "if"
    /\ k = "catch" => prev.kind = "try"
    /\ k = "defer" => Top.kind = "fn"
    /\ scopes' = Append(scopes, Empty)                    \* push_scope
    /\ \E runs \in Enters(k) :
          blocks' = Append(blocks, [kind |-> k, runs |-> runs, entered |-> runs, threw |-> FALSE])
    /\ prev' = NoBlock
    /\ UNCHANGED <<errors, fresh, fns, path, gives>>

(* What the next block needs to know of the one that closes.               *)
Before == IF Top.kind \in {"if", "try"} THEN [Top EXCEPT !.runs = FALSE] ELSE NoBlock

(* The end of a nested statement.                                          *)
Close ==
    /\ Len(blocks) > 1
    /\ scopes' = SubSeq(scopes, 1, Len(scopes) - 1)       \* pop_scope
    /\ blocks' = SubSeq(blocks, 1, Len(blocks) - 1)
    /\ prev' = Before
    /\ UNCHANGED <<errors, fresh, fns, path, gives>>

(* `ret` and `throw` leave the text unfinished for this execution; the     *)
(* checker walks on.                                                       *)
Left(from, threw) == [b \in 1..Len(blocks) |->
                        IF b >= from THEN [blocks[b] EXCEPT !.runs = FALSE, !.threw = threw /\ b = from]
                                     ELSE blocks[b]]

Ret == /\ OnPath /\ ~InDefer
       /\ blocks' = Left(1, FALSE)
       /\ prev' = NoBlock
       /\ UNCHANGED <<checker, fns, path, gives>>

Throw == /\ OnPath /\ ~InDefer
         /\ \E t \in 1..Len(blocks) :
               /\ blocks[t].kind = "try"
               /\ \A b \in (t + 1)..Len(blocks) : blocks[b].kind # "try"
               /\ blocks' = Left(t, TRUE)
         /\ prev' = NoBlock
         /\ UNCHANGED <<checker, fns, path, gives>>

EndFn == /\ Len(blocks) = 1
         /\ scopes' = SubSeq(scopes, 1, Len(scopes) - 1)
         /\ blocks' = <<>>
         /\ prev' = NoBlock
         /\ UNCHANGED <<errors, fresh, fns, path, gives>>

CheckNext == \/ \E n \in Variables : Use(n)
             \/ \E n \in Variables : Give(n)
             \/ \E n \in Variables, owned \in BOOLEAN : Declare(n, owned)
             \/ BeginFn
             \/ \E k \in Kinds : Open(k)
             \/ Close
             \/ Ret
             \/ Throw
             \/ EndFn

CheckSpec == CheckInit /\ [][CheckNext]_checkVars
-----------------------------------------------------------------------------
(* The type invariant: there is a scope per open block and the global one. *)
TypeOK == /\ scopes \in Seq(Scope) /\ Len(scopes) = Len(blocks) + 1
          /\ errors \in SUBSET Codes
          /\ fresh \in Nat /\ fns \in Nat
          /\ blocks \in Seq(Block)
          /\ prev \in Block \cup {NoBlock}
          /\ given \in SUBSET Nat
          /\ misused \in BOOLEAN
          /\ gives \in SUBSET Nat

(* A variable is marked dead exactly when the text has given away that     *)
(* declaration of its name, whatever shadows it and whichever branch it    *)
(* was in.                                                                 *)
DeadExactly ==
    \A d \in 1..Len(scopes), n \in Variables :
       scopes[d][n] # None => (scopes[d][n].dead <=> scopes[d][n].id \in gives)

(* What the check is for: if some execution of a function accesses what it *)
(* has given away, where the text comes after the `@`, the compiler has    *)
(* reported E010.                                                          *)
NoMissedUse == misused => "E010" \in errors
=============================================================================

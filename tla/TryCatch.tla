------------------------------ MODULE TryCatch ------------------------------
(***************************************************************************)
(* What a `try`, a `throw` and a catch arm do when they run: the runtime   *)
(* of stdlib/error.h and the C that emit_stmt writes for ST_TRY and        *)
(* ST_THROW.  A program is any legal interleaving of calls, returns, try   *)
(* statements and throws.                                                  *)
(*                                                                         *)
(* emit_stmt writes a try as                                               *)
(*     jmp_buf _try_buf;  jmp_buf *_old_buf = tc_get_try_buf();            *)
(*     tc_set_try_buf(&_try_buf);                                          *)
(*     if (setjmp(_try_buf) == 0) { body } else { arms }                   *)
(*     tc_set_try_buf(_old_buf);                                           *)
(* so every way out of the body or of an arm other than its end (`ret`,    *)
(* and `break` out of an enclosing loop) skips the last line.  The arms    *)
(* are not an else-if chain: each named arm is an `if` of its own, and the *)
(* wildcard's `else` belongs to the `if` just before it.                   *)
(***************************************************************************)
EXTENDS Naturals, Sequences

CONSTANTS Errors,      \* the names of the error declarations
          Wildcard,    \* the arm `_`
          ArmLists,    \* the catch clauses of the program
          NULL,
          MaxDepth,    \* bound: nested calls
          MaxTries     \* bound: try statements entered in one run

(* The generated C compiles only when an `if` precedes every `else`.       *)
Compiles(arms) == \A k \in 1..Len(arms) :
                     arms[k] = Wildcard => k > 1 /\ arms[k - 1] # Wildcard

ASSUME ArmsAssumption ==
    /\ Wildcard \notin Errors
    /\ \A arms \in ArmLists : arms \in Seq(Errors \cup {Wildcard}) /\ Compiles(arms)
ASSUME BoundAssumption == MaxDepth \in Nat /\ MaxTries \in Nat
ASSUME NullAssumption == NULL \notin Nat

VARIABLES
    depth,     \* the number of the running activation, main's being 0
    tries,     \* the try statements entered and not left, innermost last
    cur,       \* g_current_try_buf: NULL or the number of a jmp_buf
    error,     \* g_current_error_name
    next,      \* the number the next _try_buf gets
    left,      \* how tries have been left early: "ret", "break" (history)
    outcome    \* "running", or how the program ended

vars == <<depth, tries, cur, error, next, left, outcome>>

(* arm = 0: the body runs; arm = k: catch arm k.  busy: the statements of  *)
(* that arm run (else its test is next); missed: the last `if` was false;  *)
(* ran: how many arms this error has run.                                  *)
TryRec == [buf : Nat, old : Nat \cup {NULL}, frame : Nat, arms : ArmLists,
           arm : Nat, busy : BOOLEAN, missed : BOOLEAN, ran : Nat]

Init == /\ depth = 0
        /\ tries = <<>>
        /\ cur = NULL
        /\ error = NULL
        /\ next = 0
        /\ left = {}
        /\ outcome = "running"

Top == tries[Len(tries)]
Here == tries # <<>> /\ Top.frame = depth          \* control is inside a try here
Testing == Here /\ Top.arm > 0 /\ ~Top.busy
Running == outcome = "running" /\ ~Testing
SetTop(r) == [tries EXCEPT ![Len(tries)] = r]
PopTop == SubSeq(tries, 1, Len(tries) - 1)
-----------------------------------------------------------------------------
Call == /\ Running /\ depth < MaxDepth
        /\ depth' = depth + 1
        /\ UNCHANGED <<tries, cur, error, next, left, outcome>>

(* A `ret` outside every try of its function; main's ends the program.     *)
Return == /\ Running /\ ~Here
          /\ IF depth = 0 THEN outcome' = "done" /\ UNCHANGED depth
                          ELSE depth' = depth - 1 /\ UNCHANGED outcome
          /\ UNCHANGED <<tries, cur, error, next, left>>

(* The general form: tc_get_try_buf has answered `old`.                    *)
EnterTrySaving(arms, old) ==
    /\ Running /\ next < MaxTries
    /\ tries' = Append(tries, [buf |-> next, old |-> old, frame |-> depth, arms |-> arms,
                               arm |-> 0, busy |-> FALSE, missed |-> FALSE, ran |-> 0])
    /\ cur' = next
    /\ next' = next + 1
    /\ UNCHANGED <<depth, error, left, outcome>>

(* Mutants: the enclosing handler is not saved; it is read after the store.*)
EnterTryForgetting(arms) == EnterTrySaving(arms, NULL)
EnterTryStoreFirst(arms) == EnterTrySaving(arms, next)

EnterTry(arms) == EnterTrySaving(arms, cur)

(* Mutant: the saved handler is not put back.                              *)
LeaveTryAsIs == /\ outcome = "running" /\ Here /\ ~Top.busy
                /\ Top.arm = 0 \/ Top.arm > Len(Top.arms)
                /\ tries' = PopTop
                /\ UNCHANGED <<depth, cur, error, next, left, outcome>>

(* The end of the body, or of the arms: the saved handler is put back.     *)
LeaveTry == /\ outcome = "running" /\ Here /\ ~Top.busy
            /\ Top.arm = 0 \/ Top.arm > Len(Top.arms)
            /\ tries' = PopTop
            /\ cur' = Top.old
            /\ UNCHANGED <<depth, error, next, left, outcome>>

(* The `ret` of an arm or inside a body: a plain C return.                 *)
ReturnInTry ==
    /\ Running /\ Here
    /\ \E k \in 0..Len(tries) :
          /\ \A i \in 1..Len(tries) : i <= k <=> tries[i].frame < depth
          /\ tries' = SubSeq(tries, 1, k)
    /\ IF depth = 0 THEN outcome' = "done" /\ UNCHANGED depth
                    ELSE depth' = depth - 1 /\ UNCHANGED outcome
    /\ left' = left \cup {"ret"}
    /\ UNCHANGED <<cur, error, next>>

(* A `break` whose loop encloses the try.                                  *)
BreakOutOfTry == /\ Running /\ Here
                 /\ tries' = PopTop
                 /\ left' = left \cup {"break"}
                 /\ UNCHANGED <<depth, cur, error, next, outcome>>

(* tc_throw, after the body of the error declaration has run (an ordinary  *)
(* call).  longjmp to a buffer whose block has been left is undefined.     *)
Throw(e) ==
    /\ Running
    /\ IF cur = NULL
       THEN outcome' = "uncaught" /\ UNCHANGED <<depth, tries, error>>
       ELSE /\ error' = e
            /\ \/ \E i \in 1..Len(tries) :
                     /\ tries[i].buf = cur
                     /\ tries' = [SubSeq(tries, 1, i) EXCEPT
                                    ![i].arm = 1, ![i].busy = FALSE,
                                    ![i].missed = FALSE, ![i].ran = 0]
                     /\ depth' = tries[i].frame
                     /\ UNCHANGED outcome
               \/ /\ \A i \in 1..Len(tries) : tries[i].buf # cur
                  /\ outcome' = "undefined"
                  /\ UNCHANGED <<depth, tries>>
    /\ UNCHANGED <<cur, next, left>>

(* Mutant: the wildcard is a block of its own.                             *)
ArmMatchesApart(t) == t.arms[t.arm] \in {Wildcard, error}

(* One `if (strcmp(tc_error_name(), ...) == 0)`, or the `else` after it.   *)
ArmMatches(t) == IF t.arms[t.arm] = Wildcard THEN t.missed
                                             ELSE t.arms[t.arm] = error

TestArm ==
    /\ outcome = "running" /\ Testing /\ Top.arm <= Len(Top.arms)
    /\ LET hit == ArmMatches(Top)
       IN  tries' = SetTop([Top EXCEPT
                      !.arm    = IF hit THEN @ ELSE @ + 1,
                      !.busy   = hit,
                      !.missed = Top.arms[Top.arm] # Wildcard /\ ~hit,
                      !.ran    = IF hit THEN @ + 1 ELSE @])
    /\ UNCHANGED <<depth, cur, error, next, left, outcome>>

(* The statements of an arm end: control falls to the next `if`.           *)
FinishArm == /\ Running /\ Here /\ Top.busy
             /\ tries' = SetTop([Top EXCEPT !.arm = @ + 1, !.busy = FALSE])
             /\ UNCHANGED <<depth, cur, error, next, left, outcome>>

Next == \/ Call
        \/ Return
        \/ \E arms \in ArmLists : EnterTry(arms)
        \/ LeaveTry
        \/ ReturnInTry
        \/ BreakOutOfTry
        \/ \E e \in Errors : Throw(e)
        \/ TestArm
        \/ FinishArm

Spec == Init /\ [][Next]_vars
-----------------------------------------------------------------------------
(* The type invariant: activations are nested, so the tries of an outer    *)
(* activation lie below those of an inner one, and none is deeper than the *)
(* running one.                                                            *)
TypeOK ==
    /\ depth \in 0..MaxDepth
    /\ tries \in Seq(TryRec)
    /\ cur \in Nat \cup {NULL}
    /\ error \in Errors \cup {NULL}
    /\ next \in Nat
    /\ left \in SUBSET {"ret", "break"}
    /\ outcome \in {"running", "done", "uncaught", "undefined"}
    /\ \A i \in 1..Len(tries) : tries[i].frame <= depth

(* Whatever the program does, tc_throw never passes over a handler: "no    *)
(* handler" means that no try is active, and a handler that is active is   *)
(* the innermost one.  (It may also be one that is gone.)                  *)
NeverSkipsHandler ==
    /\ cur = NULL => tries = <<>>
    /\ \A i \in 1..Len(tries) : tries[i].buf = cur => i = Len(tries)

(* As long as every try is left by its end, g_current_try_buf is exactly   *)
(* the innermost active try: what the save and restore of emit_stmt are    *)
(* for.                                                                    *)
CurIsTop == cur = IF tries = <<>> THEN NULL ELSE Top.buf
HandlerIsInnermost == left = {} => CurIsTop

(* ... so that a throw is caught or reported: it jumps into a block that   *)
(* is gone only after a `ret` or `break` out of a try.                     *)
StrayThrowExplained == outcome = "undefined" => left # {}

(* One error runs one arm, although an arm that has run falls through to   *)
(* the next `if`: a second one runs only if the clause is ambiguous (a name*)
(* twice, an arm after the wildcard, or a wildcard whose `else` belongs to *)
(* another `if` than the one of the first arm), or if an inner try has     *)
(* been entered since, whose error has replaced the name.                  *)
Ambiguous(arms) ==
    \E j, k \in 1..Len(arms) :
       /\ j < k
       /\ arms[j] \in {Wildcard, arms[k]} \/ (arms[k] = Wildcard /\ j + 1 < k)

SecondArmExplained ==
    \A i \in 1..Len(tries) :
       tries[i].ran > 1 => Ambiguous(tries[i].arms) \/ tries[i].buf + 1 < next
=============================================================================

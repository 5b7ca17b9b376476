------------------------------- MODULE Defers -------------------------------
(***************************************************************************)
(* The statements of a function as emitter.c writes them, and what the     *)
(* emitted C does: emit_stmt, emit_stmt_vec, emit_stmt_vec_with_defers and *)
(* emit_defers of compiler/src/emitter.c.  A `defer` is written nowhere    *)
(* but before a `return` of its own block and, for the block of the        *)
(* function, before its `}`.                                               *)
(*                                                                         *)
(* A function is a tree of blocks as the parser leaves it: parse_block     *)
(* (parser.c 728-744) splices a bare `{ }` into the block around it, so a  *)
(* "block" is one that stood in another.  Block 1 is the body.  Conditions,*)
(* patterns and error names are left open: every branch may be taken.      *)
(***************************************************************************)
EXTENDS Naturals, Sequences, FiniteSetsExt

CONSTANTS Blocks,     \* the numbers of blocks, with 1
          ArmRet,     \* stands for an arm `=> ret e`
          Functions   \* the functions that are considered: no `break` leaves a try

Nested == {"if", "block", "loop", "match", "try"}
Kinds  == Nested \cup {"act", "var", "defer", "ret", "break", "throw"}
Nowhere == 0

(* An `act` does something, a `var` declares a queue or a stack.  to: the  *)
(* block of a defer, of a branch, of a loop, of a try; alt: the else block *)
(* or another arm, or of a try the arm, a block or ArmRet; expr: it has an *)
(* expression to evaluate, such as a condition or the value of a ret.      *)
Stmt == [k : Kinds, to : Blocks \cup {Nowhere}, alt : Blocks \cup {Nowhere, ArmRet},
         expr : BOOLEAN]

(* The body stands in no other block, and what needs a block has one.      *)
Function(f) ==
    /\ f \in [Blocks -> Seq(Stmt)]
    /\ \A b \in Blocks : \A i \in DOMAIN f[b] :
          /\ f[b][i].to # 1 /\ f[b][i].alt # 1
          /\ f[b][i].k \in Nested \cup {"defer"} => f[b][i].to \in Blocks
          /\ f[b][i].k # "try" => f[b][i].alt # ArmRet

ASSUME BlocksAssumption == Blocks \subseteq Nat \ {0} /\ 1 \in Blocks
                         /\ ArmRet \notin Blocks \cup {Nowhere}
ASSUME FunctionsAssumption == \A f \in Functions : Function(f)

VARIABLES text,    \* the function
          stack,   \* the blocks being executed
          how,     \* how the call ended
          left,    \* the frame that ended it (history)
          released, \* the declarations of the queues and stacks destroyed (history)
          late     \* the statements that evaluated an expression after clean-up (history)

vars == <<text, stack, how, left, released, late>>

(* pc: the statement control is at; free, due: the declarations of the     *)
(* containers and the defers whose C still stands before that statement;   *)
(* via: the statement that opened the block; ran: its defers that have run *)
(* since (history).  A frame with another above it is at the statement     *)
(* that is being executed there.                                           *)
Ways  == Nested \cup {"fn", "run", "arm"}
Frame == [b : Blocks, pc : Nat, free : SUBSET Nat, due : SUBSET Nat, via : Ways, ran : Seq(Nat)]
-----------------------------------------------------------------------------
(* What is written before statement i of block b, or before its `}`.       *)
Of(b, k) == {i \in DOMAIN text[b] : text[b][i].k = k}
End(b)   == Len(text[b]) + 1

(* emit_stmt_vec_with_defers: the end of the function, unless some `ret`   *)
(* stands directly in its block.                                           *)
Ends(b, i) == b = 1 /\ i = End(b) /\ Of(b, "ret") = {}

(* Mutant: a defer is also written where it stands.                        *)
EmitInPlace(b, i) ==
    IF Ends(b, i) \/ i \in Of(b, "ret") THEN Of(b, "defer") ELSE Of(b, "defer") \cap {i}

(* emit_defers: all the defers of the block, passed or not.                *)
Defers(b, i) == IF Ends(b, i) \/ i \in Of(b, "ret") THEN Of(b, "defer") ELSE {}

(* Mutant: each container overwrites the clean-up of the one before.       *)
EndingOfLast(b, i) ==
    IF Ends(b, i) THEN {v \in Of(b, "var") : \A w \in Of(b, "var") : w <= v} ELSE {}

Ending(b, i) == IF Ends(b, i) THEN Of(b, "var") ELSE {}

(* Mutant: the deferred blocks in the order of the text.                   *)
Earliest(due) == Min(due)

Latest(due) == Max(due)
-----------------------------------------------------------------------------
(* Executing the C.                                                        *)
Moved(frame, i) == [frame EXCEPT !.pc = i, !.free = Ending(frame.b, i), !.due = Defers(frame.b, i)]
Enter(b, via)   == Moved([b |-> b, pc |-> 1, free |-> {}, due |-> {}, via |-> via, ran |-> <<>>], 1)

Init == /\ text \in Functions
        /\ stack = <<Enter(1, "fn")>>
        /\ how = "runs" /\ left = <<>> /\ released = <<>> /\ late = {}

Top      == stack[Len(stack)]
Ready    == how = "runs" /\ Top.free = {} /\ Top.due = {}
AtEnd    == Top.pc = End(Top.b)
Cur      == text[Top.b][Top.pc]
At(k)    == Ready /\ ~AtEnd /\ Cur.k \in k
Below(n) == SubSeq(stack, 1, n - 1)

(* Of the last frame of s: another one in its place; its next statement;   *)
(* a container is destroyed; a deferred block is started.                  *)
WithTop(s, frame) == [s EXCEPT ![Len(s)] = frame]
Past(s)           == WithTop(s, Moved(s[Len(s)], s[Len(s)].pc + 1))
Freed(frame, v)   == [frame EXCEPT !.free = @ \ {v}]
Spent(frame, d)   == [frame EXCEPT !.due = @ \ {d}, !.ran = Append(@, d)]

(* A deferred block of the innermost block, or of one around it, has run;  *)
(* one that is running is the clean-up.                                    *)
Cleaned(s) == \E n \in DOMAIN s : /\ s[n].ran # <<>>
                                  /\ \A m \in n + 1..Len(s) : s[m].via # "run"

(* Expressions are evaluated at the statements control is at in the stacks *)
(* ss; Value: that of the current statement, if it has one.                *)
Evaluate(ss) == late' = late \cup {<<s[Len(s)].b, s[Len(s)].pc>> : s \in {s \in ss : Cleaned(s)}}
Value == IF Cur.expr THEN {stack} ELSE {}

(* The clean-up of the queues and stacks, in the order of the text.        *)
Destroy == /\ how = "runs" /\ Top.free # {}
           /\ LET v == Min(Top.free)
              IN  /\ stack' = WithTop(stack, Freed(Top, v))
                  /\ released' = Append(released, v)
           /\ UNCHANGED <<text, how, left, late>>

(* A deferred block.                                                       *)
Run == /\ how = "runs" /\ Top.free = {} /\ Top.due # {}
       /\ LET d == Latest(Top.due)
          IN  stack' = Append(WithTop(stack, Spent(Top, d)), Enter(text[Top.b][d].to, "run"))
       /\ UNCHANGED <<text, how, left, released, late>>

(* A defer where it stands writes nothing.                                 *)
Act == /\ At({"act", "var", "defer"})
       /\ stack' = Past(stack) /\ Evaluate(Value)
       /\ UNCHANGED <<text, how, left, released>>

(* if, else and `{`; the arms of a match, which is a C switch.             *)
Branch == /\ At({"if", "block", "match"})
          /\ \/ stack' = Append(stack, Enter(Cur.to, Cur.k))
             \/ Cur.k # "block" /\ Cur.alt # Nowhere /\ stack' = Append(stack, Enter(Cur.alt, Cur.k))
             \/ Cur.k # "block" /\ Cur.alt = Nowhere /\ stack' = Past(stack)
          /\ Evaluate(Value)
          /\ UNCHANGED <<text, how, left, released>>

(* Another iteration, or the end of the loop.                              *)
Loop == /\ At({"loop"})
        /\ \/ stack' = Append(stack, Enter(Cur.to, "loop"))
           \/ stack' = Past(stack)
        /\ Evaluate(Value)
        /\ UNCHANGED <<text, how, left, released>>

Try == /\ At({"try"})
       /\ stack' = Append(stack, Enter(Cur.to, "try"))
       /\ UNCHANGED <<text, how, left, released, late>>

Leave(frame, way) == /\ stack' = <<>> /\ how' = way /\ left' = frame
                     /\ UNCHANGED <<text, released>>

(* `return e;` stands after the clean-up, so that e is evaluated after it. *)
Ret == At({"ret"}) /\ Evaluate(Value) /\ Leave(Top, "ret")

(* n is the innermost block of one of the ways.                            *)
Innermost(n, ways) == /\ n \in 1..Len(stack) /\ stack[n].via \in ways
                      /\ \A m \in n + 1..Len(stack) : stack[m].via \notin ways

(* break ends the innermost C loop or switch.                              *)
Break == /\ At({"break"})
         /\ \E n \in 1..Len(stack) : Innermost(n, {"loop", "match"}) /\ stack' = Past(Below(n))
         /\ UNCHANGED <<text, how, left, released, late>>

(* throw goes to the arms of the innermost try of the function, also from  *)
(* one of those arms (TryCatch has the handlers in full), or to a caller.  *)
(* An arm is run, or returns, or does not match.                           *)
Arms == {"try", "arm"}
Caught(n) ==
    LET arm == text[stack[n - 1].b][stack[n - 1].pc].alt
    IN  \/ /\ arm = ArmRet /\ Leave(stack[n - 1], "arm ret")
           /\ Evaluate(Value \cup {Below(n)})
        \/ /\ \/ stack' = Past(Below(n))
              \/ arm \in Blocks /\ stack' = Append(Below(n), Enter(arm, "arm"))
           /\ Evaluate(Value)
           /\ UNCHANGED <<text, how, left, released>>

Throw == /\ At({"throw"})
         /\ \/ \E n \in 1..Len(stack) : Innermost(n, Arms) /\ Caught(n)
            \/ (\A n \in 1..Len(stack) : stack[n].via \notin Arms) /\ Leave(Top, "throw") /\ Evaluate(Value)

(* The `}` of a block: back to the condition of its loop, to the C after a *)
(* deferred block, or past the statement.                                  *)
EndBlock == /\ Ready /\ AtEnd /\ UNCHANGED late
            /\ IF Len(stack) = 1 THEN Leave(Top, "end")
               ELSE /\ stack' = IF Top.via \in {"loop", "run"} THEN Below(Len(stack))
                                ELSE Past(Below(Len(stack)))
                    /\ UNCHANGED <<text, how, left, released>>

Next == Destroy \/ Run \/ Act \/ Branch \/ Loop \/ Try \/ Ret \/ Break \/ Throw \/ EndBlock

Spec == Init /\ [][Next]_vars
-----------------------------------------------------------------------------
(* Indices in the order of the text, and against it.                       *)
Rising(s)  == \A i, j \in DOMAIN s : i < j => s[i] < s[j]
Falling(s) == \A i, j \in DOMAIN s : i < j => s[j] < s[i]
In(s)      == {s[i] : i \in DOMAIN s}

(* PROJECT.md:39 "guaranteed cleanup": a call that ends at a `ret` or at   *)
(* its last `}` has run every defer it passed in the block of that `ret`   *)
(* or `}`, each once and the last first, whatever a deferred block did.    *)
Guaranteed ==
    how \in {"ret", "end"} =>
       /\ {d \in Of(left.b, "defer") : d < left.pc} \subseteq In(left.ran)
       /\ Falling(left.ran)

(* Clean-up comes last, but for the value that is returned: once a         *)
(* deferred block of a block has run, nothing of that block or of a block  *)
(* in it runs but the other deferred blocks and the `return`.  So the one  *)
(* expression that can meet what they released is that of a `ret`, which   *)
(* TIG_LANGUAGE_SPECIFICATION.md:392 still counts to the scope.            *)
CleanupIsLast ==
    /\ \A n \in DOMAIN stack : stack[n].ran # <<>> =>
          IF n < Len(stack) THEN stack[n + 1].via = "run"
          ELSE Top.free = {} /\ (Top.due # {} \/ AtEnd \/ Cur.k = "ret")
    /\ \A u \in late : text[u[1]][u[2]].k = "ret"

(* The queues and stacks of the body are destroyed at most once, in the    *)
(* order of the text, and all of them by a call that ends at the last `}`  *)
(* of the function, for which TIG_LANGUAGE_SPECIFICATION.md:661 has every  *)
(* scope and every way out of it; while the call goes on after the first   *)
(* destruction, only deferred blocks and the `return` can use what is gone.*)
ReleasedOnce ==
    /\ Rising(released)
    /\ how = "end" => In(released) = Of(1, "var")
    /\ released # <<>> /\ stack # <<>> => stack[1].pc \in {End(1)} \cup Of(1, "ret")
=============================================================================

------------------------------ MODULE MCDefers ------------------------------
(* Instances of Defers for TLC: block 2 is nested, 3 to 5 are deferred. *)
EXTENDS Defers, SequencesExt

(* What is evaluated: the expression of a statement that must have one, and *)
(* that of a `ret`, which may.                                              *)
Evaluated     == {"act", "var", "if", "loop", "match", "throw"}
S(k, to, alt) == [k |-> k, to |-> to, alt |-> alt, expr |-> k \in Evaluated]
RetValue      == [S("ret", 0, 0) EXCEPT !.expr = TRUE]
Plain(ks)  == {S(k, 0, 0) : k \in ks}
NestedIn   == {S("if", 2, 6), S("if", 2, 0), S("block", 2, 0), S("loop", 2, 0),
               S("match", 2, 6), S("try", 2, 6), S("try", 2, ArmRet)}
Lists(ss, n) == UNION {[1..m -> ss] : m \in 0..n}
Has(q, k)    == \E i \in 1..Len(q) : q[i].k = k
Uses(q, b)   == \E i \in 1..Len(q) : b \in {q[i].to, q[i].alt}
Once(q)      == \A i, j \in 1..Len(q) : i < j /\ q[i].to # 0 => q[i].to # q[j].to

Bodies == {q \in Lists(Plain({"act", "ret"}) \cup NestedIn
                       \cup {RetValue, S("var", 0, 0), S("defer", 3, 0), S("defer", 4, 0)}, 3) : Once(q)}
Inner  == {q \in Lists(Plain({"act", "ret", "throw", "break"}) \cup {RetValue, S("defer", 5, 0)}, 2) : Once(q)}

(* A throw and a break only where something in the function catches them,  *)
(* and one content for the blocks that are not used.                       *)
Throws(q) == IF Has(q, "try") THEN {"throw"} ELSE {}
Breaks(q) == IF Has(q, "loop") \/ Has(q, "match") THEN {"break"} ELSE {}
Good(q, r, x, y, z) ==
    /\ \A i \in 1..Len(r) : r[i].k \in {"act", "ret", "defer"} \cup Throws(q) \cup Breaks(q)
    /\ y \in {"act"} \cup Throws(q) \cup Breaks(q) /\ z \in {"act"} \cup Throws(q)
    /\ ~Uses(q, 2) => r = <<>>
    /\ ~Uses(q, 3) => x = "act"
    /\ ~Uses(r, 5) => y = "act"
    /\ ~Uses(q, 6) => z = "act"

Do(k) == <<S(k, 0, 0)>>
Text(q, r, x, y, z) == <<q, r, Do(x), Do("act"), Do(y), Do(z)>>
Texts == {Text(t[1], t[2], t[3], t[4], t[5]) :
            t \in {t \in Bodies \X Inner \X {"act", "ret"} \X {"act", "throw", "break"} \X {"act", "throw"} :
                     Good(t[1], t[2], t[3], t[4], t[5])}}
=============================================================================

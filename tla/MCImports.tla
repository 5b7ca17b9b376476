----------------------------- MODULE MCImports -----------------------------
(* Instances of Imports for TLC. *)
EXTENDS Imports, TLC

A == [dir |-> "", name |-> "a"]
B == [dir |-> "lib", name |-> "b"]
C == [dir |-> "lib", name |-> "c"]
Bare == [dir |-> "", name |-> "c"]       \* "c", wherever it is written
AllWords == {"main", "T", "V"}

Plain == [k |-> "use", of |-> "V", is |-> "V", path |-> A, needs |-> {}]
Take(p)     == [Plain EXCEPT !.k = "@use", !.path = p]
Link_(p)    == [Plain EXCEPT !.path = p]
Type(w, ts) == [Plain EXCEPT !.k = "type", !.of = w, !.needs = ts]
Fn(w, ts)   == [Plain EXCEPT !.k = "fn", !.of = w, !.needs = ts]
Old(w)      == [Plain EXCEPT !.k = "oldfn", !.of = w]
Macro(w, v) == [Plain EXCEPT !.k = "macro", !.of = w, !.is = v]

MainTexts == {<<Take(B), Fn("main", {"T"})>>,
              <<Take(B), Take(C), Fn("main", {"T", "V"})>>,
              <<Fn("main", {"T"}), Take(B)>>,
              <<Macro("T", "V"), Take(B), Fn("main", {"T"})>>,
              <<Link_(B), Old("main")>>}
LibTexts  == {<<>>,
              <<Type("T", {})>>,
              <<Take(C), Type("T", {"V"})>>,
              <<Take(Bare), Fn("main", {"T"})>>,
              <<Type("T", {"T"}), Take(C), Fn("V", {"T", "V"})>>,
              <<Macro("V", "T"), Type("V", {}), Fn("T", {})>>}
LeafTexts == {<<Type("V", {})>>,
              <<Link_(A), Fn("V", {"V"})>>,
              <<Take(B)>>,
              <<Macro("T", "T")>>,
              <<Fn("T", {"T"}), Macro("T", "V")>>}
BareTexts == {<<Type("V", {})>>}
Here(texts) == {[exists |-> TRUE, text |-> t] : t \in texts}
Disk(files) == [p \in Paths |-> IF p \in DOMAIN files THEN files[p] ELSE NoFile]
AllDisks  == {Disk((A :> a) @@ (B :> b) @@ (C :> c) @@ (Bare :> d)) :
                a \in Here(MainTexts), b \in Here(LibTexts),
                c \in Here(LeafTexts) \cup {NoFile}, d \in Here(BareTexts) \cup {NoFile}}
AllLines  == {<<A>>, <<A, B>>, <<C, A>>}
=============================================================================

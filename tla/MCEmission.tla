----------------------------- MODULE MCEmission -----------------------------
(* Instances of Emission for TLC. *)
EXTENDS Translation

F(t)        == [type |-> t, union |-> FALSE, anonymous |-> FALSE]
Fs(types)   == [i \in DOMAIN types |-> F(types[i])]
Fn(f, types, body) == [Default EXCEPT !.name = f, !.type = <<"void">>, !.fields = Fs(types), !.body = body]
Async(f, types, body) == [Fn(f, types, body) EXCEPT !.async = TRUE]
Struct_(s, types, methods) == [Default EXCEPT !.kind = "struct", !.name = s, !.fields = Fs(types), !.methods = methods]
Of(kind, x) == [Default EXCEPT !.kind = kind, !.name = x]

S(k, x)     == [Statement EXCEPT !.k = k, !.of = x]
V(t)        == [Statement EXCEPT !.k = "var", !.type = t]
In(k, body, alt) == [Statement EXCEPT !.k = k, !.body = body, !.alt = alt]

Chains(pool, n) == UNION {[1..m -> pool] : m \in 1..n}

\* Types that lean on each other: structs, enums, headers and fat pointers.
FewTypes == {<<"S">>, <<"raw", "S">>, <<"fat", "S">>, <<"E">>, <<"fat", "E">>, <<"fat", "H">>,
             <<"fat", "fat", "S">>, <<"fat", "raw", "S">>, <<"fat", "raw", "i8">>, <<"queue">>, <<"fat", "queue">>}
TypeDecls ==
    {Struct_("S", <<<<"i32">>>>, <<>>), Of("enum", "E"),
     [Of("use", "") EXCEPT !.names = {"H", "queue"}], [Of("inline", "") EXCEPT !.names = {"H"}]}
    \cup {Struct_("T", <<t>>, <<>>) : t \in FewTypes}
    \cup {Struct_("T", <<<<"i32">>>>, <<Fn("m", <<t>>, <<V(<<"raw", "T">>)>>)>>) : t \in FewTypes}
    \cup {[Of("error", "Bad") EXCEPT !.fields = Fs(<<t>>)] : t \in FewTypes}
    \cup {Fn("f", <<t>>, <<>>) : t \in FewTypes}
    \cup {Fn("f", <<>>, <<V(t)>>) : t \in FewTypes}
    \cup {Fn("f", <<>>, <<In("if", <<V(t)>>, <<>>)>>) : t \in FewTypes}
    \cup {Fn("f", <<>>, <<In("if", <<>>, <<V(t)>>)>>) : t \in FewTypes}
    \cup {[Of("var", "v") EXCEPT !.type = t] : t \in FewTypes}

\* Functions, errors and globals that name each other.
CallG == [S("call", "g") EXCEPT !.args = <<Argument(<<"i8">>, TRUE, FALSE)>>]
Uses == {S("call", "f"), CallG, S("name", "v"), S("throw", "Bad"), S("method", "m"),
         In("try", <<S("throw", "Bad")>>, <<S("call", "f")>>),
         In("if", <<In("try", <<>>, <<>>)>>, <<>>), V(<<"S">>), V(<<"raw", "S">>)}
CodeDecls ==
    {Fn("f", <<>>, <<u>>) : u \in Uses \cup {S("call", "main")}} \cup {Async("f", <<>>, <<u>>) : u \in Uses}
    \cup {Fn("main", <<>>, <<u>>) : u \in Uses \cup {S("call", "main")}}
    \cup {Fn("g", <<<<"i8">>>>, <<>>), Async("g", <<<<"i8">>>>, <<>>)}
    \cup {Fn("main", <<<<"fat", "raw", "i8">>>>, <<>>), Fn("main", <<<<"fat", "i8">>>>, <<>>)}
    \cup {[Of("error", e) EXCEPT !.fields = Fs(<<t>>), !.body = <<u>>] :
              e \in {"Bad", "Worse"}, t \in {<<"raw", "S">>, <<"i32">>}, u \in Uses}
    \cup {Struct_("S", <<<<"i32">>>>, <<Fn("m", <<>>, <<u>>)>>) : u \in Uses}
    \cup {[Of("var", "v") EXCEPT !.type = <<"S">>, !.init = x] : x \in {{}, {"w"}}}
    \cup {[Of("var", "w") EXCEPT !.type = <<"i32">>]}

\* Structs of up to four fields of any kind.
FieldForms == [type : {<<"i32">>}, union : BOOLEAN, anonymous : BOOLEAN]
Layouts == {<<[Of("struct", "S") EXCEPT !.fields = fs]>> : fs \in Chains(FieldForms, 4)}

\* Async functions and a call that a C compiler would accept of a plain one.
ArgTypes == {<<"i8">>, <<"i32">>, <<"i64">>, <<"f64">>, <<"raw", "i32">>, <<"fat", "i32">>, <<"queue">>, <<"S">>}
Arguments_(t) == {Argument(u, k, FALSE) : u \in {u \in ArgTypes : Assignable(u, t)}, k \in BOOLEAN}
                \cup (IF Head(t) = "raw" THEN {Argument(t, FALSE, TRUE)} ELSE {})
Calls(params) ==
    IF Len(params) = 0 THEN {<<>>}
    ELSE IF Len(params) = 1 THEN {<<a>> : a \in Arguments_(params[1])}
    ELSE {<<a, b>> : a \in Arguments_(params[1]), b \in Arguments_(params[2])}
AsyncPrograms ==
    {<<Struct_("S", <<<<"i64">>>>, <<>>), Async("f", params, <<>>),
       Fn("main", <<>>, <<[S("call", "f") EXCEPT !.args = args]>>)>> :
         <<params, args>> \in UNION {{p} \X Calls(p) : p \in {<<>>} \cup Chains(ArgTypes, 2)}}

\* The names of the expressions and what the checker knows of them.
NameTypes == [a |-> <<"i32">>, b |-> <<>>, q |-> <<"queue">>, p |-> <<"raw", "stack">>, s |-> <<"S">>,
              r |-> <<"raw", "S">>, c |-> <<"queue">>, l |-> <<"array", "queue">>, t |-> <<"array", "S">>, f |-> <<>>, size |-> <<>>]
AsyncNames == {"c"}

\* Expressions: primaries with up to two postfix parts, under a prefix, in
\* brackets or beside an operator; and three operators in a row.
Operators_ == {"=", "+=", "&&", "<>", "<", "+", "-", "*", "&"}
Sides(E, D) == {e \o <<o>> \o d : e \in E, d \in D, o \in Operators_}
Around(e) == {e} \cup {<<o>> \o e : o \in PrefixOps("tig")} \cup {<<"(">> \o e \o <<")">>, <<"a", "[">> \o e \o <<"]">>,
                 <<"f", "(">> \o e \o <<")">>, <<"f", "(">> \o e \o <<",", "b", ")">>}
Parts == {<<"[", "a", "]">>, <<".", "b">>, <<".>", "b">>, <<"++">>, <<".", "m", "(", "a", ")">>}
Primaries == {<<"a">>, <<"(", Cast, "a", ")">>, <<"f", "(", ")">>, <<"(", "-", "a", ")">>, <<"(", "a", "+", "b", ")">>,
              <<"q", ".", "pop", "(", ")">>, <<"p", ".>", "push", "(", "&", "a", ")">>, <<"c", ".", "push", "(", "a", ")">>,
              <<"s", ".", "m", "(", "a", "+", "b", ")">>, <<"r", ".>", "m", "(", ")">>, <<"size", "(", "q", ")">>,
              <<"(", "&", "q", ")", ".", "push", "(", "a", ")">>, <<"(", "&", "s", ")", ".", "m", "(", ")">>, <<"q", ".", "m", "(", ")">>,
              <<"l", "[", "a", "]", ".", "pop", "(", ")">>, <<"t", "[", "a", "]", ".", "m", "(", ")">>,
              <<"b", ".", "m", "(", ")">>, <<"size", "(", "b", ")">>}
Postfixed == Primaries \cup {e \o x : e \in Primaries, x \in Parts}
             \cup {e \o x \o y : e \in {<<"s">>, <<"(", Cast, "a", ")">>}, x, y \in Parts}
B == {<<"b">>}
Families == {Around(e) \cup Sides({e}, B) \cup Sides(B, {e}) : e \in Postfixed \cup Around(<<"a">>)}
            \cup {Sides({e}, Sides(B, {<<"a">>})) : e \in Sides(B, B)}
Body(texts) == FoldSet(LAMBDA t, body : Append(body, [Statement EXCEPT !.k = "expr", !.text = t]), <<>>, texts)
ExprPrograms == {<<Fn("f", <<>>, Body(x))>> : x \in Families}
                \cup {<<Struct_("S", <<<<"i32">>>>, <<Fn("m", <<>>, Body(x))>>)>> : x \in Families}

\* All pairs, and the triples with one of a few declarations in front.
Pool(decls, few) == Chains(decls, 2) \cup {<<d>> \o p : d \in few, p \in Chains(decls, 2)}
Sources == {p \in Pool(TypeDecls, {Struct_("S", <<<<"i32">>>>, <<>>), Of("enum", "E"), Fn("f", <<<<"fat", "raw", "S">>>>, <<>>)})
                  \cup Pool(CodeDecls, {Struct_("S", <<<<"i32">>>>, <<Fn("m", <<>>, <<>>)>>), Of("error", "Bad"),
                                       Async("g", <<<<"i8">>>>, <<>>), Fn("f", <<>>, <<CallG>>)}) : IsProgram(p)}
           \cup Layouts \cup AsyncPrograms \cup ExprPrograms
=============================================================================

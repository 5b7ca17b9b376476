------------------------------ MODULE MCLexer ------------------------------
(* Two definitions followed by two uses, of every form and also with the   *)
(* depth limit exceeded, and every short text of the literal marks.        *)
EXTENDS Lexer

MCLetters  == {"a", "f", "x", "y", "k"}
MCDigits   == {"7"}
MCMarks    == {"(", ")", ",", "{", "}", ".", "-", ";"}
MCKeywords == {<<"k">>}

Defining(head, text) == <<"#">> \o head \o <<"{">> \o text \o <<"}">>

Simple == {Defining(<<"a">>, t) : t \in
             {<<>>, <<"7">>, <<"k">>, <<"space">>, <<"f", "space", ";">>, <<"a", ";">>,
              <<"7", "-", "f">>, <<"newline", "x", "newline">>, <<"f", "(", "7", ")">>,
              <<".", "x">>, <<"#", "f", "{", "y", "}">>, <<"x", "{", "y", "}">>,
              <<"f", "(", "y", ",", "7", ")">>, <<"f", "(", "7", "-", "y", ")">>}}
Parametric ==
    {Defining(<<"f", "(", "x", ")">>, t) : t \in
       {<<"x">>, <<"x", "a", "-", "x", "x">>, <<"a", "newline", "x">>, <<"f", "(", "x", ")">>}}
    \cup {Defining(<<"space", "f", "(", "x", ",", "y", ")", "space">>, t) : t \in
       {<<"y", ";", "x">>, <<"x", "newline", "x", "y", "-">>, <<"a", "->", "y">>}}
    \cup {Defining(<<"f", "(", ")">>, <<"space", "a", "space">>),
          Defining(<<"f", "(", ",", "x", ")">>, <<"x">>),
          Defining(<<"f", "(", "-", ")">>, <<"x", "-", "-">>),
          Defining(<<"f", "(", "x", ",", "y", ")">>, <<"x", "f", "(", "y", ",", "7", ")">>),
          Defining(<<"f", "(", "x", "y", ")">>, <<"x", "y", "x", ";", "x", "y">>)}
Other == {<<"#", "f">>, <<"#", "a", "{">>, <<"#", "a", "{", "x">>, <<"newline">>,
          Defining(<<"f">>, <<"a">>), Defining(<<"x">>, <<"y">>)}
Defs == Simple \cup Parametric \cup Other

Uses == {<<"a">>, <<"f">>, <<"f", "(", "7", ")">>, <<"f", "(", "a", ")">>,
         <<"f", "(", "y", ",", "x", ")">>, <<"f", "(", "a", "newline", ",", "space", "7", ")">>,
         <<"f", "(", ",", "a", ",", "7", ")">>, <<"f", "(", "(", "a", ")", ")">>,
         <<"f", "(", "a">>, <<"f", "(">>, <<"a", ".", "x">>, <<"f", "(", "7", "a", ",", ")">>,
         <<"f", "(", "space", "f", "space", ")">>}

Programs == {d \o e \o <<"newline">> \o u \o <<"space", "a">> :
               d \in Simple \cup Other, e \in Parametric, u \in Uses}
Twice    == {d \o <<"a", "newline">> \o e \o <<"newline", "a">> : d, e \in Simple \cup Other}
Cut      == {d \o u : d \in Parametric, u \in {<<"f", "(">>, <<"#", "a", "{">>, <<"#", "a", "{", "x">>}}

Literals == {Quote, "'", "\\", "//", "/*", CodeMark, "{", "}", "newline", "a"}
Short    == UNION {[1..n -> Literals] : n \in 0..3}
Commented == {<<CodeMark, Quote, "}", "\\", Quote, Quote, "newline", "}", "a">>,
              <<CodeMark, "/*", "}", "newline", "*/", "'", "}", "'", "}", "newline", "a">>,
              <<CodeMark, "//", "}", "newline", "{", "}", "}", ".", "a", "newline", ".", "a">>,
              <<"#", "a", "{", CodeMark, "x", "}", "newline", "}", "newline", "a", "newline", "x">>,
              <<"/*", "newline", "#", "*/", "a", "newline", "//", "#", "newline", "->">>,
              <<"#", "a", "{", Quote, "x", Quote, "}", "newline", "a", "newline", "7", ".", "7">>}

MCTexts == Programs \cup Twice \cup Cut \cup Short \cup Commented
=============================================================================

------------------------------ MODULE MCParser ------------------------------
(* Texts for Parser: how each begins, and words it may go on with, so that *)
(* every rule is met with the words that matter to it.                     *)
EXTENDS Parser

S(first, voc, n) == [start |-> first, words |-> voc, more |-> n]
Body == <<"fn", "i32", "x", ":", "{">>
Expression == Body \o <<"x", "=">>
MCSamples ==
  { S(<<>>, {"fn", "i32", "x", ":", "{", "}", ",", "..."}, 6),
    S(<<>>, {"struct", "S", "{", "}", ";", "i32", "&", ","}, 6),
    S(<<>>, {"enum", "error", "S", "{", "}", ":", "i32", ","}, 6),
    S(<<>>, {"use", "@", "strun", "'s'", "C", ".s", "async", "raw", "x"}, 4),
    S(Body, {"if", "else", "loop", "while", "(", ")", "x", "{", "}"}, 5),
    S(Body, {"match", "select", "(", ")", "{", "}", "_", "=", "=>", "1"}, 5),
    S(Body, {"try", "catch", "_", "ret", "throw", "x", "{", "}", "(", ")", ","}, 5),
    S(Body \o <<"try", "{", "}", "catch", "{">>, {"_", "ret", "x", "1", "{", "}", "(", ")", ","}, 5),
    S(Body, {"defer", "break", "pin", "x", "{", "}", "=", ";", "C"}, 5),
    S(Body \o <<"pin", "x">>, {"error", "S", ":", "x", "{", "}", "=", "1"}, 6),
    S(Expression, {"x", "(", "(.", ")", "[", "]", ".", ">", "++", "}"}, 5),
    S(Expression, {"1", "+", "-", "&", "[", ":", "]", "{", ",", "}"}, 5),
    S(Expression, {"cast", "alloc", "sizeof", "(", ")", ",", "i32", "->", "..."}, 5),
    S(Body, {"i32", "S", "x", ",", ";", "=", "{", "}", "1"}, 5),
    S(Body \o <<"(">>, {"->", "i32", "(", ")", "[", "]", "x", "+"}, 6),
    S(Body, {"fn", "queue", "stack", "i32", "<", ">", "(", ")", "x"}, 5),
    S(<<"struct", "S", "{", "i32", "x", "}">> \o Body, {"S", "x", "(", ")", "[", "]", "=", "1", "}"}, 5) }
=============================================================================

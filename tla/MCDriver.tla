------------------------------ MODULE MCDriver ------------------------------
(* An instance of Driver for TLC: every form of command beside a kept and  *)
(* a plain build.                                                          *)
EXTENDS Driver

CONSTANTS r1, r2, r3

Build == <<"a.tc", "-c", "app">>
Forms == {Build, Build \o <<"-o", "a.c">>, Build \o <<"-o", "a.h">>, Build \o <<"-o", "b">>, Build \o <<"-t">>,
          <<"--", "-c", "app", "a.tc">>, <<"a.tc", "-c", "b">>, Build \o <<"-o", TmpC>>, Build \o <<"-o", "app">>,
          <<"a.tc", "-o", "a.c">>, <<"a.tc">>, <<"a.tc", "--debug", "c", "--debug", "ast", "-c", "app">>, Build \o <<"--hot">>,
          <<"a.tc", "-H", "b", "--freestanding">>, <<"-t", "a.tc", "-c">>, <<"-v">>, <<"a.tc", "--debug", "b">>,
          <<"--stdlib-path", "b", "--error", "b">>, Build \o <<"--", "-o", "a.c", "b">>}
MCCommands == [r \in Runs |-> CASE r = r1 -> Forms
                                [] r = r2 -> {Build \o <<"-o", "a.c">>}
                                [] r = r3 -> {Build}]
=============================================================================

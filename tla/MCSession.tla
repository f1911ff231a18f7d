------------------------------ MODULE MCSession ------------------------------
(***************************************************************************)
(* Session for TLC: the command lines of the scripts, and their limits.    *)
(***************************************************************************)
EXTENDS Session

On == [NoCmd EXCEPT !.name = "f"]

MCCommands ==
    {[On EXCEPT !.rm = TRUE], [On EXCEPT !.r = TRUE],
     [On EXCEPT !.w = TRUE, !.wcnt = 2, !.sync = 1],
     [On EXCEPT !.w = TRUE, !.wcnt = 0],
     [On EXCEPT !.w = TRUE, !.inf = TRUE],
     [NoCmd EXCEPT !.w = TRUE],
     [On EXCEPT !.cyc = TRUE, !.cycc = 2, !.wcnt = 1],
     [On EXCEPT !.cyc = TRUE, !.cycc = 0, !.wcnt = 1],
     [On EXCEPT !.put = TRUE, !.get = TRUE],
     [On EXCEPT !.rm = TRUE, !.put = TRUE],
     [NoCmd EXCEPT !.dir = <<"a", "a", "a">>, !.list = {<<>>}],
     [NoCmd EXCEPT !.dir = <<"a", "b">>, !.list = {<<"a">>}],
     [On EXCEPT !.w = TRUE, !.list = {<<>>}]}

MCPutData == <<"p", "q">>
MCLong == {<<"a", "a", "a">>}
MCTrees == {{}, {<<"a">>, <<"a", "a">>, <<"b">>}}
=============================================================================

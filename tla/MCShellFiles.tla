---------------------------- MODULE MCShellFiles ----------------------------
(* One name, at any depth; relative and absolute paths, "..", a separator of *)
(* either kind at the end, the drive alone, drives that are not there.  Four *)
(* inodes: a replaced directory that was not empty.                          *)
EXTENDS ShellFiles

MCData == {<<1>>, <<2, 3>>}
Rel(p) == [drive |-> None, path |-> p, slash |-> TRUE]
Abs(p) == [drive |-> Ram, path |-> p, slash |-> TRUE]
Backslash(a) == [a EXCEPT !.slash = FALSE]
MCArgs == {Rel(<<"a">>), Rel(<<DotDot>>), Rel(<<"a", Blank>>), Backslash(Rel(<<"a", Blank>>)),
           Rel(<<"a", DotDot, "a">>), Abs(<<>>), Abs(<<"a">>),
           [Abs(<<"a">>) EXCEPT !.drive = "disk"], [Abs(<<"a">>) EXCEPT !.drive = Malformed]}
=============================================================================

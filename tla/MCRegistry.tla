----------------------------- MODULE MCRegistry ------------------------------
(***************************************************************************)
(* Instance of RepoClones: two checkouts of one repository and a library      *)
(* registered under a version.                                                *)
(***************************************************************************)
EXTENDS RepoClones

MCVersions == <<"1", "2">>
MCCwd == <<"home">>
A == <<"w", "a">>
B == <<"w", "b">>
Lib == <<"v", "1">>

Work(root) ==
    [root |-> root, repo |-> "p",
     srcs |-> << [path |-> root \o <<"f">>, inc |-> <<"v", "2", "h">>],
                 [path |-> root \o <<"s", "g">>, inc |-> root \o <<"inc">>] >>]

MCCheckouts ==
    {Work(A), Work(B),
     [root |-> Lib, repo |-> "lib",
      srcs |-> << [path |-> Lib \o <<"l">>, inc |-> <<"e", "x">>] >>]}

MCDisk == {<<"v", "1">>, <<"v", "2">>}
MCLabels == {[name |-> "ext", path |-> <<"e">>]}
MCParts == {"s"}
Always == {TRUE}
=============================================================================

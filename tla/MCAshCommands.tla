--------------------------- MODULE MCAshCommands ---------------------------
(***************************************************************************)
(* Values for AshCommands: two directories, the current directory and the  *)
(* builtins on PATH; a program, and a builtin that is also a program.      *)
(***************************************************************************)
EXTENDS AshCommands

MCPaths == {<<"/a", "/b">>, <<".", "/b">>, <<"/b", "%builtin">>}
MCValues == {Empty, <<"1">>}
MCFiles == {<<"/b", "foo">>, <<"/a", "foo">>, <<"/b", "bar">>, <<"/h", "foo">>}
=============================================================================

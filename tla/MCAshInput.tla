----------------------------- MODULE MCAshInput -----------------------------
(***************************************************************************)
(* Values for AshInput: aliases that name each other, with a blank or a    *)
(* newline at the end; a file with an operator and a continued line, one   *)
(* with here documents, and one with a NUL character.                      *)
(***************************************************************************)
EXTENDS AshInput

MCFiles == {<<"a", "n", ";", "\\", "b", "n">>, <<"E", "n", "E", "n", "E">>}
MCNulFiles == {<<"a", "0", "n", "b", "n">>}
MCStrings == {<<"a">>, <<"b", "n", "a">>}
MCValues == {<<"b">>, <<"a", " ">>, <<"b", "n">>, << >>}
MCMark == <<"E", "E">>
=============================================================================

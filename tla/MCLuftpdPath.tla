---------------------------- MODULE MCLuftpdPath ----------------------------
(***************************************************************************)
(* A root with a nested and a flat directory, and a directory beside it.   *)
(***************************************************************************)
EXTENDS LuftpdPath

MCRoot == <<"tmp", "root">>
MCDirs == {<<>>, <<"tmp">>, <<"tmp", "out">>, MCRoot, MCRoot \o <<"a">>,
           MCRoot \o <<"a", "b">>}
MCCwd == <<>>
=============================================================================

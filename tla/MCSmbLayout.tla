----------------------------- MODULE MCSmbLayout -----------------------------
(***************************************************************************)
(* Model checking SmbLayout: base paths and directories that share names.  *)
(***************************************************************************)
EXTENDS SmbLayout

MCEndsInFiles == {"files", "myfiles"}

MCBases == {<<>>, <<"media">>, <<"files">>, <<"media", "files">>, <<"myfiles">>}

MCTargets == {NoTarget, <<>>, <<"media">>, <<"media", "files">>, <<"files", "x">>, <<"x">>}
=============================================================================

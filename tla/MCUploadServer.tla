--------------------------- MODULE MCUploadServer ---------------------------
(***************************************************************************)
(* Model checking UploadServer: processes of a kind are interchangeable,   *)
(* and so are uploads and bodies.                                          *)
(***************************************************************************)
EXTENDS ServerProperties, TLC

Workers == Permutations(Writer) \cup Permutations(Task) \cup Permutations(Completer)
             \cup Permutations(Canceller)

Symmetry == Workers \cup Permutations(Upload) \cup Permutations(Content)
=============================================================================

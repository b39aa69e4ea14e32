----------------------------- MODULE MCLeftovers -----------------------------
(***************************************************************************)
(* Model checking Leftovers: as for MCUploadServer, with one upload.       *)
(***************************************************************************)
EXTENDS Leftovers, TLC

Symmetry == Permutations(Writer) \cup Permutations(Task) \cup Permutations(Completer)
              \cup Permutations(Content)
=============================================================================

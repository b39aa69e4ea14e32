------------------------------ MODULE MCStatus ------------------------------
(***************************************************************************)
(* Model checking Status with uploads that compete for one permit.         *)
(***************************************************************************)
EXTENDS Status, TLC

Symmetry == Permutations(Task) \cup Permutations(Upload)
=============================================================================

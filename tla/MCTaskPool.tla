----------------------------- MODULE MCTaskPool -----------------------------
(***************************************************************************)
(* Instances of TaskPool for TLC.                                          *)
(***************************************************************************)
EXTENDS TaskPool, TLC

ContextSymmetry == Permutations(Contexts)

Symmetry == ContextSymmetry \cup Permutations(Modules) \cup Permutations(Jobs)

=============================================================================

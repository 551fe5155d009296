----------------------------- MODULE MCChildPool -----------------------------
(* Calls and keys are interchangeable; symmetry is used for safety only.     *)
EXTENDS ChildPool, TLC

Symmetry == Permutations(Call) \cup Permutations(Key)
=============================================================================

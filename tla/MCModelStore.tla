------------------------------ MODULE MCModelStore ------------------------------
(* Two operators at work at the same time. *)
EXTENDS ModelStore, TLC

CONSTANTS A1, A2

MCAdmins == {A1, A2}
Symmetry == Permutations(MCAdmins)
=============================================================================

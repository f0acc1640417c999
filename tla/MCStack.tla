------------------------------ MODULE MCStack ------------------------------
(***************************************************************************)
(* Stack for TLC: the names of activations, and of fibers, do not matter.  *)
(***************************************************************************)
EXTENDS Stack, TLC

NameSymmetry == Permutations(Activations) \cup Permutations(Fibers)
=============================================================================

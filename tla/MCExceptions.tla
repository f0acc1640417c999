---------------------------- MODULE MCExceptions ----------------------------
(***************************************************************************)
(* Exceptions for TLC: the names of calls do not matter.                   *)
(***************************************************************************)
EXTENDS Exceptions, TLC

FewFeatures == {{"leave"}, {"fibers", "again"}, {"fibers", "escape"}}

NameSymmetry == Permutations(Activations)
=============================================================================

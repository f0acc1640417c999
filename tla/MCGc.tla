-------------------------------- MODULE MCGc --------------------------------
(***************************************************************************)
(* Gc for TLC: the programs for which it is safe, those for which it is    *)
(* not, and the symmetry of object identities.                             *)
(***************************************************************************)
EXTENDS Gc, TLC

SafePrograms ==
  {[types |-> BarrieredTypes, loops |-> TRUE, constructs |-> FALSE],
   [types |-> BarrieredTypes \cup UnbarrieredTypes, loops |-> FALSE, constructs |-> FALSE]}

UnsafePrograms ==
  {[types |-> {"container"} \cup UnbarrieredTypes, loops |-> TRUE, constructs |-> FALSE]}

Constructing == {[types |-> {"container"}, loops |-> TRUE, constructs |-> TRUE]}

ObjectSymmetry == Permutations(Objects)
=============================================================================

----------------------------- MODULE MCReactive -----------------------------
(***************************************************************************)
(* Reactive for TLC: effects are interchangeable, and so are signals.      *)
(***************************************************************************)
EXTENDS Reactive, TLC

\* Values of Hosts.
OneProgram == {<<4>>}
TwoPrograms == {<<3, 3>>}
FailedOrLonger == {<<3>>, <<2, 1>>}

NameSymmetry == Permutations(Effects) \cup Permutations(Signals)
=============================================================================

CONSTANTS
  e1 = e1
  e2 = e2
  s1 = s1
  s2 = s2
  NoEffect = NoEffect
  Effects = {e1, e2}
  Signals = {s1, s2}
  MaxReruns = 1
  GenMod = 64
  Hosts <- FailedOrLonger
  BodyFuel = 2
  EffectsNest = TRUE
  Throwing = TRUE
  NativeTails = TRUE
  Failing = TRUE
  HostWriting = TRUE
SPECIFICATION Spec
SYMMETRY NameSymmetry
INVARIANTS LinksAgree QueueMatchesState NoReentry RestingIsFresh

CONSTANTS
  e1 = e1
  e2 = e2
  s1 = s1
  NoEffect = NoEffect
  Effects = {e1, e2}
  Signals = {s1}
  MaxReruns = 1
  GenMod = 64
  Hosts <- OneProgram
  BodyFuel = 2
  EffectsNest = FALSE
  Throwing = FALSE
  NativeTails = FALSE
  Failing = FALSE
  HostWriting = FALSE
SPECIFICATION Spec
INVARIANT EffectsFollowSignals

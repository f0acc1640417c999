CONSTANTS
  e1 = e1
  s1 = s1
  s2 = s2
  NoEffect = NoEffect
  Effects = {e1}
  Signals = {s1, s2}
  MaxReruns = 1
  GenMod = 64
  Hosts <- TwoPrograms
  BodyFuel = 3
  EffectsNest = FALSE
  Throwing = FALSE
  NativeTails = FALSE
  Failing = FALSE
  HostWriting = FALSE
SPECIFICATION Spec
INVARIANTS TypeOK LinksAgree QueueMatchesState NoReentry RestingIsFresh
  EffectsFollowSignals CurrentIsOwner
PROPERTY ProgramReturns

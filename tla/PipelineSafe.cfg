CONSTANTS
  Byte = 15
  MaxRegisters = 32
  Files <- Library
  Near = 32
  MaxStack = 128
  MaxFrames = 6
  MaxTry = 3
  MaxIndex = 100
  Budget = 500
  Sources <- Texts
  TreeOf <- ReadTree
  Generated <- Compiled
  ShortestText <- SyntaxText
  Native <- NativeResult
  Meaning <- IdealOutcome
SPECIFICATION Spec
INVARIANTS RoundTrip JumpsLand WithinFrame OpenUpvaluesLive SameResult Ends
PROPERTIES FileKeepsFunctions PathsKept
CHECK_DEADLOCK FALSE

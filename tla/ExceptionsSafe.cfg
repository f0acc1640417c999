CONSTANTS
  a1 = a1
  a2 = a2
  a3 = a3
  a4 = a4
  f1 = f1
  f2 = f2
  NoFiber = NoFiber
  Activations = {a1, a2, a3, a4}
  Fibers = {f1, f2}
  MaxFrames = 4
  MaxTry = 2
  Programs <- FewFeatures
SPECIFICATION Spec
SYMMETRY NameSymmetry
INVARIANTS TypeOK HandlersAreOpen FiberOnStack
PROPERTY LexicalHandlers

CONSTANTS
  a1 = a1
  a2 = a2
  a3 = a3
  a4 = a4
  f1 = f1
  f2 = f2
  NoFiber = NoFiber
  Activations = {a1, a2, a3, a4}
  Fibers = {f1, f2}
  Regs = 1
  MaxStack = 7
  MaxFrames = 4
  MaxArgs = 0
  Programs = {{"natives", "fibers", "nested fibers"}}
SPECIFICATION Spec
SYMMETRY NameSymmetry
INVARIANTS FiberChain

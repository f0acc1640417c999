CONSTANTS
  a1 = a1
  a2 = a2
  a3 = a3
  f1 = f1
  NoFiber = NoFiber
  Activations = {a1, a2, a3}
  Fibers = {f1}
  Regs = 3
  MaxStack = 11
  MaxFrames = 3
  MaxArgs = 1
  Programs = {{"natives", "native tails", "fibers"}, {"effects"}}
SPECIFICATION Spec
SYMMETRY NameSymmetry
INVARIANTS TypeOK  

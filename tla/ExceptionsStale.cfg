CONSTANTS
  a1 = a1
  a2 = a2
  a3 = a3
  NoFiber = NoFiber
  Activations = {a1, a2, a3}
  Fibers = {}
  MaxFrames = 3
  MaxTry = 2
  Programs = {{"leave"}}
SPECIFICATION Spec
INVARIANT OwnCode

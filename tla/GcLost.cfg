CONSTANTS
  o1 = o1
  o2 = o2
  o3 = o3
  Objects = {o1, o2, o3}
  Programs <- UnsafePrograms
  MarkWork = 1
  MaxFields = 1
SPECIFICATION Spec
SYMMETRY ObjectSymmetry
INVARIANT NoDangling

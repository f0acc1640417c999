CONSTANTS
  o1 = o1
  o2 = o2
  o3 = o3
  Objects = {o1, o2, o3}
  Programs <- SafePrograms
  MarkWork = 1
  MaxFields = 2
SPECIFICATION Spec
SYMMETRY ObjectSymmetry
INVARIANTS TypeOK NoDangling TriColour
PROPERTIES DeadIsFreed CollectorUnseen

CONSTANTS
  Period = 6
  MarkWork = 3
  FirstGc = 2
  MemoryLimit = 28
  Keep = 4
  Rate = 2
SPECIFICATION Spec
CHECK_DEADLOCK FALSE
INVARIANTS TypeOK LimitKept
PROPERTY CycleEnds

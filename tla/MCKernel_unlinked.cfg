SPECIFICATION Spec
CONSTANTS
  MaxTid = 3
  MaxPid = 3
  NumTtys = 1
  MaxLines = 1
  Preemption = TRUE
  KeyboardOn = TRUE
  OutOfMemory = TRUE
CHECK_DEADLOCK FALSE
INVARIANTS
  FamilyTree

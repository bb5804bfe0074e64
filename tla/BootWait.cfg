SPECIFICATION QuietSpec
CONSTANTS
  MaxTid = 3
  MaxPid = 3
  NumTtys = 1
  MaxLines = 1
  Preemption = TRUE
  KeyboardOn = TRUE
  OutOfMemory = FALSE
CHECK_DEADLOCK FALSE
INVARIANTS
  HaltsOnlyOnInput

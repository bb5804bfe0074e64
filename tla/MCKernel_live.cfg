SPECIFICATION FairSpec
CONSTANTS
  MaxTid = 3
  MaxPid = 3
  NumTtys = 1
  MaxLines = 1
  Preemption = TRUE
  KeyboardOn = TRUE
  OutOfMemory = TRUE
CHECK_DEADLOCK FALSE
PROPERTIES
  NoStarvation
  WaitpidReturns

SPECIFICATION TypistSpec
CONSTANTS
  MaxTid = 2
  MaxPid = 3
  NumTtys = 1
  MaxLines = 1
  Preemption = TRUE
  KeyboardOn = TRUE
  OutOfMemory = FALSE
PROPERTIES
  ReaderWakes

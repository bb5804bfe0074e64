SPECIFICATION Spec
CONSTANTS
  MaxTid = 3
  MaxPid = 3
  NumTtys = 2
  MaxLines = 2
  Preemption = TRUE
  KeyboardOn = TRUE
  OutOfMemory = FALSE
INVARIANTS
  NeverHalts
  LiveContext
  NoLostWakeup
  BlockedReaders
  ReaperKeepsUp
  FamilyTree
PROPERTIES
  ZombieUntilReaped

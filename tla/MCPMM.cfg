SPECIFICATION Spec
CONSTANTS
  Boots <- AlignedBoots
INVARIANTS
  ExactAccounting
  BootMemorySafe
  OnlyRAM

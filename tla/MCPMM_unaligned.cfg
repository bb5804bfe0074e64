SPECIFICATION Spec
CONSTANTS
  Boots <- UnalignedBoots
INVARIANTS
  ExactAccounting
